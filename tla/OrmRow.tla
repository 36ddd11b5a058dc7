------------------------------- MODULE OrmRow -------------------------------
(***************************************************************************)
(* How a SQLAlchemy session writes an object back (external library; every *)
(* service of app/services relies on it).  The session keeps the column    *)
(* values it loaded; attributes are assigned in memory; at the flush the   *)
(* UPDATE names only the columns whose value differs from the loaded one.  *)
(* The database applies it to the newest committed row, so columns another *)
(* session has written in between survive unless this session changed them *)
(* too.  A later SELECT of the same row does not refresh what the session  *)
(* has loaded.                                                             *)
(***************************************************************************)

\* The columns of the UPDATE a flush emits.
Dirty(loaded, now) == {c \in DOMAIN now : now[c] # loaded[c]}

\* The row after an UPDATE of the columns cols.
Written(row, now, cols) ==
  [c \in DOMAIN row |-> IF c \in cols THEN now[c] ELSE row[c]]

\* The row after the UPDATE of a flush.
Flushed(row, loaded, now) == Written(row, now, Dirty(loaded, now))
=============================================================================
