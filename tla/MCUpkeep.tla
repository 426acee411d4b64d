------------------------------ MODULE MCUpkeep ------------------------------
(***************************************************************************)
(* What administrators start and the server then does by itself, a restore *)
(* and the fetching of holidays: part says which of the two a behaviour is *)
(* of, the other stays in an initial state.  The restore is there twice,   *)
(* with two browsers and tokens, and with a browser, the command line and  *)
(* a backup of its own.                                                    *)
(***************************************************************************)
EXTENDS Restore, Holiday

CONSTANTS web1, web2, cli, c1, gitlab, forgejo

VARIABLE part
upkeepVars == <<part, restoreVars, holidayVars>>

\* Three of the tables, in the order of sqlite_master.
SomeTables == {"members", "assignments", "swaps"}
Migrated == <<"members", "assignments", "swaps">>
Key(c, p, col, act) == [child |-> c, parent |-> p, column |-> col, onDelete |-> act]
Holder == Key("assignments", "members", "member_id", "cascade")
Original == Key("assignments", "assignments", "original_assignment_id", "set null")
Swapped == Key("swaps", "assignments", "requester_assignment_id", "cascade")
SomeKeys == {Holder, Original, Swapped}

R(i, refs) == [id |-> i, refs |-> refs]
NoRows == [t \in SomeTables |-> {}]
Small == [members |-> {R(2, {})}, assignments |-> {R(1, {<<Holder, 2>>})}, swaps |-> {}]
Large == [members |-> {R(1, {})},
          assignments |-> {R(1, {<<Holder, 1>>}), R(2, {<<Holder, 1>>, <<Original, 1>>})},
          swaps |-> {R(1, {<<Swapped, 2>>})}]
Orphan == [NoRows EXCEPT !.assignments = {R(1, {<<Holder, 2>>})}]
SomeContents == {Small, Large}

F(kind, version, missing, extra, data) ==
  [kind |-> kind, version |-> version, missing |-> missing, extra |-> extra, data |-> data]
Database(missing, extra, data) == F("database", "same", missing, extra, data)
\* Nothing; without the table that the others refer to, so that it fits one of the
\* contents only, and with one that is not ours; without the table nothing refers to.
SomeUploads == {F("empty", "older", {}, FALSE, NoRows),
                Database({"members"}, TRUE, Orphan), Database({"swaps"}, FALSE, Small)}

UpkeepInit ==
  /\ part \in {"by web", "by hand", "holiday"}
  /\ RestoreInit /\ HolidayInit
  /\ part = "holiday" => live = Small /\ published[gitlab] = {1}
  /\ part # "holiday" => purpose = "server" /\ published = [f \in Feeds |-> Dates]

UpkeepNext ==
  /\ UNCHANGED part
  /\ \/ part = "by web" /\ RestoreNext /\ UNCHANGED <<apply[cli], archive, holidayVars>>
     \/ part = "by hand" /\ RestoreNext /\ UNCHANGED <<apply[web2], issued, holidayVars>>
     \/ part = "holiday" /\ HolidayNext /\ UNCHANGED restoreVars

\* The component that is not in play has no step that its fairness asks for.
UpkeepSpec ==
  UpkeepInit /\ [][UpkeepNext]_upkeepVars /\ RestoreFairness /\ HolidayFairness

UpkeepTypeOK == RestoreTypeOK /\ HolidayTypeOK

=============================================================================
