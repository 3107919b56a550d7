------------------------------ MODULE UnitOfWork ------------------------------
(***************************************************************************)
(* What the services rely on from SQLAlchemy and PostgreSQL at READ        *)
(* COMMITTED, with neither SELECT FOR UPDATE nor a version column.  A      *)
(* handler loads rows, assigns attributes of the loaded objects and        *)
(* commits.  The flush writes, by primary key and whatever the row has     *)
(* become meanwhile, exactly the columns whose assigned value differs from *)
(* the loaded one.                                                         *)
(***************************************************************************)

\* The column after the commit: `now' is its value in the table, `loaded' the
\* value the handler read, `value' what it assigned.
Written(now, loaded, value) == IF value = loaded THEN now ELSE value

\* Rows are never removed: deleted_at goes from NULL to a time (models/base.py).
Life == {"unused", "live", "deleted"}

SoftDeleted(row) == [row EXCEPT !.life = "deleted"]
=============================================================================
