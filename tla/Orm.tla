--------------------------------- MODULE Orm ---------------------------------
(***************************************************************************)
(* What the ORM session does with one column of a row.  A session works on *)
(* a copy of the row; a flush sends an UPDATE with only those columns whose*)
(* value in the copy differs from the value that was loaded, so a column   *)
(* that another session changed in the meantime survives unless this       *)
(* session changed it too.                                                 *)
(***************************************************************************)

Column(new, loaded, current) == IF new # loaded THEN new ELSE current

=============================================================================
