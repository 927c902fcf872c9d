-------------------------------- MODULE Maps --------------------------------
(***************************************************************************)
(* The three std::map / std::unordered_map operations the program uses on  *)
(* its keyed stores, on a TLA+ function whose DOMAIN is the set of keys    *)
(* present.                                                                *)
(***************************************************************************)

\* m[key] = value: inserts the key or overwrites what it held.
Put(m, key, value) ==
    [k \in DOMAIN m \cup {key} |-> IF k = key THEN value ELSE m[k]]

\* m.erase(key): a key that is absent is left absent.
Erase(m, key) == [k \in DOMAIN m \ {key} |-> m[k]]

\* A default-constructed map.
Nothing == [k \in {} |-> {}]
=============================================================================
