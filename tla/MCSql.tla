------------------------------- MODULE MCSql --------------------------------
(* The packages sql/dml and sql/ddl: Artisan, RowIterator and DdlTables.    *)
(* part says which of them a behaviour is about; the others keep their      *)
(* initial state.                                                           *)
EXTENDS MCDml

CONSTANTS
  Workers, MaxRows,
  Names, Goroutines, Scenarios

VARIABLES
  part,
  iMode, iResult, iRow, iPc, iJob, iErrChan, iErr, iSeen, iFailed,
  scen, db, tm, tmDB, mu, todo, opts, half, ddl, faults, loaded, unsettled, valid

I == INSTANCE RowIterator WITH mode <- iMode, result <- iResult, row <- iRow, pc <- iPc, job <- iJob,
                               errChan <- iErrChan, err <- iErr, seen <- iSeen, failed <- iFailed
D == INSTANCE DdlTables

IterVars == <<iMode, iResult, iRow, iPc, iJob, iErrChan, iErr, iSeen, iFailed>>
DdlVars == <<scen, db, tm, tmDB, mu, todo, opts, half, ddl, faults, loaded, unsettled, valid>>
MCVars == <<part, vars, IterVars, DdlVars>>
-----------------------------------------------------------------------------
(* Calls of the methods and options of ddl.Tables.                          *)
Tab(n, cs) == [opt |-> "table", order |-> 1, name |-> n, cols |-> cs]
Drops(ns) == [opt |-> "drop", order |-> 2, names |-> ns]
Create(ns, cs) == [opt |-> "create", order |-> 5, names |-> ns, cols |-> cs]
DB(d) == [opt |-> "db", order |-> 10, db |-> d]
On(n, l) == [opt |-> "listen", order |-> 253, name |-> n, listener |-> l]
Opts(os) == [call |-> "options", opts |-> os]
Upsert(n, cs, ls) == [call |-> "upsert", name |-> n, cols |-> cs, listeners |-> ls]
Del(ns) == [call |-> "delete", names |-> ns]
Val == [call |-> "validate"]
NoColumns == [n \in Names |-> <<>>]
Columns == [n \in Names |-> IF n = "t1" THEN <<1, 2>> ELSE <<3>>]
Scenario(d, c1, c2, n, f) == [db |-> d, calls |-> <<c1, c2>>, ddl |-> n, faults |-> f]
MCScenarios == {
  Scenario(Columns, <<Opts(<<On("t1", "a"), DB(1), Create(<<"t1", "t2">>, <<>>)>>), Val>>,
           <<Opts(<<On("t2", "b"), DB(2), Tab("t2", <<3>>)>>), Val>>, 1, 1),
  Scenario(NoColumns, <<Opts(<<DB(1), Create(<<"t1", "t2">>, <<1>>)>>), Upsert("t1", <<>>, <<"b">>), Val>>,
           <<Opts(<<On("t1", "a")>>), Opts(<<Drops(<<"t1", "t2">>), DB(2)>>), Val>>, 1, 1),
  Scenario(Columns, <<Opts(<<Tab("t1", <<1>>), On("t1", "a"), Tab("t2", <<4>>), DB(1)>>), Val, Del({"t2"}), Val,
                      Del({"t1"}), Val>>,
           <<Upsert("t1", <<>>, <<"b", "c">>), Opts(<<Create(<<"t2">>, <<>>)>>)>>, 2, 0)}
-----------------------------------------------------------------------------
MCInit ==
  /\ part \in {"artisan", "iterate", "ddl"}
  /\ Init /\ I!Init /\ D!Init
  /\ part # "artisan" => case = 1 /\ ~disabled
  /\ part # "iterate" => iMode = "serial" /\ iResult = [rows |-> 0, scan |-> 0, err |-> FALSE, close |-> FALSE]
  /\ part # "ddl" => scen = CHOOSE s \in Scenarios : TRUE

MCNext ==
  \/ part = "artisan" /\ Next /\ UNCHANGED <<part, IterVars, DdlVars>>
  \/ part = "iterate" /\ I!Next /\ UNCHANGED <<part, vars, DdlVars>>
  \/ part = "ddl" /\ D!Next /\ UNCHANGED <<part, vars, IterVars>>

(* The fairness of the modules, for the part that runs.                     *)
MCSpec == MCInit /\ [][MCNext]_MCVars /\ WF_IterVars(part = "iterate" /\ I!Next)
-----------------------------------------------------------------------------
(* Artisan: every place holder gets the value that was given for it, be it  *)
(* sent or interpolated (toSQL, prepareArgs).                               *)
ValuesArrive == ValuesAtTheirPlaces /\ InterpolationSaysTheSame

(* RowIterator: the iteration returns and its workers end, and a nil error  *)
(* means that every row has been worked on and no error of a callback was   *)
(* lost (IterateSerial, IterateParallel).  The exception is an error that   *)
(* ends the rows early: IterateParallel wraps the wrong variable and        *)
(* returns nil (artisan.go:738).                                            *)
EveryRowOrAnError == part = "iterate" => ([]I!NilMeansEveryRow /\ I!IterationReturns)

(* DdlTables: the objects of Tables agree with the connection and with the  *)
(* database, Validate tells the truth, and a table object that is replaced  *)
(* hands its listeners on.                                                  *)
TablesAreTrue == D!TablesAreTrue
=============================================================================
