------------------------------ MODULE Library ------------------------------
(***************************************************************************)
(* What a program does with databases (src/src/ddb.c, ddb_view.c): it      *)
(* dumps and loads them (module LoadDump), reads them through cursors      *)
(* (Reader) and makes views of them (View).  What is read is what the      *)
(* buffer has, wherever it is, so that a behaviour which works with files  *)
(* opens no cursor.                                                        *)
(***************************************************************************)
EXTENDS View, LoadDump

libraryVars == <<allVars, lvars>>

LibraryInit == ViewInit /\ LoadDumpInit

\* The buffers are packed already, by a constructor that read no database.
Filing == /\ kind = "none" /\ vpc = "none" /\ db \in Viewed /\ db.vals = <<>>
          /\ LoadDumpNext
          /\ UNCHANGED allVars

ReadingOrViewing == dumps = 0 /\ ViewNext /\ UNCHANGED lvars

LibraryNext == Filing \/ ReadingOrViewing

\* The loops of ddb_cursor_count and of ddb_view_cons_finalize go on.
LibrarySpec == /\ LibraryInit /\ [][LibraryNext]_libraryVars
               /\ WF_libraryVars(counting /\ NextEntry /\ UNCHANGED <<vvars, lvars>>)
               /\ WF_libraryVars((ScanValue \/ ScanEnd) /\ UNCHANGED lvars)
=============================================================================
