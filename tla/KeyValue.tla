------------------------------ MODULE KeyValue ------------------------------
(***************************************************************************)
(* The operations of a LevelDB table the storages use, on a table          *)
(* represented as a partial function from keys to values.  LevelDB itself  *)
(* is a library; it is modelled here from how chains/storage.go uses it.   *)
(***************************************************************************)

\* The table without any key.
Empty == [k \in {} |-> 0]

\* batch.Put(k, v)
Put(f, k, v) == [x \in DOMAIN f \cup {k} |-> IF x = k THEN v ELSE f[x]]

\* Several entries at once; g has those of the keys that both have.
PutAll(f, g) == [x \in DOMAIN f \cup DOMAIN g |-> IF x \in DOMAIN g THEN g[x] ELSE f[x]]

\* batch.Delete(k)
Delete(f, k) == [x \in DOMAIN f \ {k} |-> f[x]]
=============================================================================
