----------------------------- MODULE SiteTable -----------------------------
(***************************************************************************)
(* What `pagelode emails --input` promises of the table email_sites: a     *)
(* site gets its row once, with what a whole crawl of it has given, and    *)
(* keeps it, however often the command is interrupted and run again.       *)
(***************************************************************************)
CONSTANTS Sites, Unsaved, Results

VARIABLE table

Init == table = [site \in Sites |-> Unsaved]

Save(site, result) ==
  /\ table[site] = Unsaved
  /\ table' = [table EXCEPT ![site] = result]

Next == \E site \in Sites, result \in Results : Save(site, result)

Spec == Init /\ [][Next]_table

\* A site has no row, or one with a result.
TypeOK == table \in [Sites -> Results \union {Unsaved}]

\* A row, once there, is what every later run of the command finds.
RowsAreFinal == [][\A site \in Sites : table[site] # Unsaved => table'[site] = table[site]]_table
=============================================================================
