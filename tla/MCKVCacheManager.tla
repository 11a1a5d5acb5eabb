--------------------------- MODULE MCKVCacheManager ---------------------------
(* KVCacheManager for TLC: hashes are the token prefixes of full blocks. *)
EXTENDS KVCacheManager

MCHash == UNION {[1 .. i * BlockSize -> Token] : i \in 1 .. MaxModelLen \div BlockSize}

CONSTANTS a, b
MCPrompts == {<<b>>, <<a, a>>}

\* The scheduler admits one request at a time.
OneAdmission == \A r, s \in Request : hits'[r] # << >> /\ hits'[s] # << >> => r = s

MCNext == KVNext /\ OneAdmission

MCSpec == KVInit /\ [][MCNext]_<<poolVars, kvVars>>

Symmetry == Permutations(Request)

=============================================================================
