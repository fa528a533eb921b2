--------------------------- MODULE RunnerClient ---------------------------
(***************************************************************************)
(* The JSON-RPC clients of codex-loopd, each for one iteration after       *)
(* another of a task on one thread: AppServerRunner (app_server.py), which *)
(* opens a websocket per run, and CodexMcpRunner (scheduler.py) over       *)
(* StdioMcpClient (stdio_mcp_client.py), which keeps one server process.   *)
(* The servers are external: they answer in any order that makes sense,    *)
(* finish turns before they answer, refuse, die, run turns of other        *)
(* clients on the thread, and send requests of their own.                  *)
(***************************************************************************)
EXTENDS Naturals, Sequences

CONSTANTS
  Runs,
  Budget    \* bounds: how many turns of others, requests of the server and
            \* broken connections there are

ASSUME ClientAssumption ==
  /\ Runs \in Nat
  /\ Budget \in [{"other", "request", "break"} -> Nat]

VARIABLES
  kind,      \* which of the two runners
  run,       \* the iteration under way, or the last one
  stage,     \* what the client does
  step,      \* the step of the script it is at
  awaited,   \* the id of its last request
  late,      \* the deadline of that request has passed (codex-mcp)
  named,     \* the client knows the id of its turn (app-server)
  inbox,     \* messages from the server not yet read
  pending,   \* pending_notifications (app-server)
  up,        \* the connection, or the server process, exists
  owed,      \* requests the server has not answered
  turn,
  outcome,
  confused,  \* history: runs that took a request of the server for their
             \* answer, or whose answer did not name the turn
  spent

cvars == <<kind, run, stage, step, awaited, late, named, inbox, pending>>
vars  == <<cvars, up, owed, turn, outcome, confused, spent>>

Other == 0   \* the turns of other clients on the thread

Script == IF kind = "app-server" THEN <<"initialize", "thread", "turn">>
          ELSE <<"list", "tool">>

Ids == 1..(3 * Runs)

Request == [id : Ids, method : {"initialize", "thread", "turn", "list", "tool"},
            run : 1..Runs]

Message == [type : {"answer"}, id : Ids, ok : BOOLEAN, named : BOOLEAN]
             \cup [type : {"request"}, id : Ids]
             \cup [type : {"turn/completed"}, run : 0..Runs]

ClientTypeOK ==
  /\ kind \in {"app-server", "codex-mcp"}
  /\ run \in 0..Runs
  /\ stage \in {"idle", "call", "wait"}
  /\ step \in 1..3
  /\ awaited \in Ids \cup {0}
  /\ late \in BOOLEAN /\ named \in BOOLEAN /\ up \in BOOLEAN
  /\ inbox \in Seq(Message) /\ pending \in Seq(Message)
  /\ owed \subseteq Request
  /\ turn \in [1..Runs -> {"none", "live", "over"}]
  /\ outcome \in [1..Runs -> {"none", "completed", "failed", "raised"}]
  /\ confused \subseteq 1..Runs
  /\ spent \in [DOMAIN Budget -> Nat]
  /\ stage = "idle" <=> \A r \in 1..run : outcome[r] # "none"
  /\ kind = "codex-mcp" => pending = <<>> /\ stage # "wait"

Init ==
  /\ kind \in {"app-server", "codex-mcp"}
  /\ run = 0 /\ stage = "idle" /\ step = 1
  /\ awaited = 0
  /\ late = FALSE /\ named = FALSE
  /\ inbox = <<>> /\ pending = <<>>
  /\ up = (kind = "codex-mcp")
  /\ owed = {}
  /\ turn = [r \in 1..Runs |-> "none"]
  /\ outcome = [r \in 1..Runs |-> "none"]
  /\ confused = {}
  /\ spent = [b \in DOMAIN Budget |-> 0]

Spend(b) == spent[b] < Budget[b] /\ spent' = [spent EXCEPT ![b] = @ + 1]

-----------------------------------------------------------------------------
(* The client *)

\* Mutant: every request has the same id.
NextIdSame(last) == 1

NextId(last) == last + 1

\* The request of step i for run r, with the next id after last.
Sends(i, last, r) ==
  /\ stage' = "call" /\ step' = i /\ late' = FALSE
  /\ awaited' = NextId(last)
  /\ owed' = owed \cup {[id |-> NextId(last), method |-> Script[i], run |-> r]}

\* runner.run comes back; the app-server runner closes its connection.
Finishes(result, rest) ==
  /\ outcome' = [outcome EXCEPT ![run] = result]
  /\ stage' = "idle"
  /\ IF kind = "app-server" THEN up' = FALSE /\ inbox' = <<>> /\ pending' = <<>>
     ELSE inbox' = rest /\ UNCHANGED <<up, pending>>
  /\ UNCHANGED <<kind, run, step, awaited, late, named, owed, turn, spent>>

BeginsRun ==
  /\ stage = "idle" /\ run < Runs
  /\ run' = run + 1
  /\ named' = FALSE
  /\ IF kind = "app-server" THEN up' = TRUE /\ Sends(1, 0, run + 1)
     ELSE up /\ UNCHANGED up /\ Sends(1, awaited, run + 1)
  /\ UNCHANGED <<kind, inbox, pending, turn, outcome, confused, spent>>

\* The websocket cannot be opened, or the server process has ended, and
\* nobody starts a new one.
CannotBegin ==
  /\ stage = "idle" /\ run < Runs
  /\ kind = "codex-mcp" => ~up
  /\ run' = run + 1
  /\ outcome' = [outcome EXCEPT ![run + 1] = "raised"]
  /\ UNCHANGED <<kind, stage, step, awaited, late, named, inbox, pending, up,
                 owed, turn, confused, spent>>

\* The next message is taken for the answer: any that has the awaited id.
Matches ==
  /\ stage = "call" /\ inbox # <<>>
  /\ Head(inbox).type \in {"answer", "request"}
  /\ Head(inbox).id = awaited

\* A request of the server that is taken for an answer is an empty result.
Empty == Head(inbox).type = "request"

Answered(method) ==
  /\ Matches
  /\ Script[step] = method
  /\ ~Empty => Head(inbox).ok
  /\ confused' = IF Empty \/ (method = "turn" /\ ~Head(inbox).named)
                 THEN confused \cup {run} ELSE confused

\* On to the next request.  The thread of a task that has one is resumed: if
\* the answer does not name it, it is that of the task.
Continues ==
  /\ Answered("initialize") \/ Answered("thread") \/ (Answered("list") /\ ~Empty)
  /\ Sends(step + 1, awaited, run)
  /\ inbox' = Tail(inbox)
  /\ UNCHANGED <<kind, run, named, pending, up, turn, outcome, spent>>

\* For a task without a thread one is started: the answer has to name it.
NoThread ==
  /\ Answered("thread")
  /\ ~Empty => ~Head(inbox).named
  /\ Finishes("raised", Tail(inbox))

\* The server has no tool that fits.
NoTool == Answered("list") /\ Finishes("failed", Tail(inbox))

TurnAccepted ==
  /\ Answered("turn")
  /\ stage' = "wait"
  /\ named' = (~Empty /\ Head(inbox).named)
  /\ inbox' = Tail(inbox)
  /\ UNCHANGED <<kind, run, step, awaited, late, pending, up, owed, turn, outcome, spent>>

\* codex-reply and codex answer when their turn is over.
ToolAnswers == Answered("tool") /\ Finishes("completed", Tail(inbox))

Refused ==
  /\ Matches /\ ~Empty /\ ~Head(inbox).ok
  /\ Finishes("raised", Tail(inbox))
  /\ UNCHANGED confused

\* Mutant: the app-server client drops what it does not wait for.
Drops ==
  /\ stage = "call" /\ inbox # <<>> /\ ~Matches
  /\ kind = "codex-mcp" => ~late
  /\ inbox' = Tail(inbox)
  /\ UNCHANGED <<kind, run, stage, step, awaited, late, named, pending, up, owed,
                 turn, outcome, confused, spent>>

\* Mutant: both clients keep it.
Keeps ==
  /\ stage = "call" /\ inbox # <<>> /\ ~Matches
  /\ kind = "codex-mcp" => ~late
  /\ inbox' = Tail(inbox)
  /\ pending' = Append(pending, Head(inbox))
  /\ UNCHANGED <<kind, run, stage, step, awaited, late, named, up, owed, turn,
                 outcome, confused, spent>>

\* Any other message: the app-server client keeps it for later, the stdio
\* client drops it.
SetsAside ==
  /\ stage = "call" /\ inbox # <<>> /\ ~Matches
  /\ kind = "codex-mcp" => ~late
  /\ inbox' = Tail(inbox)
  /\ pending' = IF kind = "app-server" THEN Append(pending, Head(inbox)) ELSE pending
  /\ UNCHANGED <<kind, run, stage, step, awaited, late, named, up, owed, turn,
                 outcome, confused, spent>>

\* The stdio client looks at its deadline only when it has read a line that
\* is not its answer.
DeadlinePasses ==
  /\ kind = "codex-mcp" /\ stage = "call"
  /\ late' = TRUE
  /\ UNCHANGED <<kind, run, stage, step, awaited, named, inbox, pending, up, owed,
                 turn, outcome, confused, spent>>

CallTimesOut ==
  /\ stage = "call" /\ inbox # <<>> /\ ~Matches
  /\ kind = "codex-mcp" /\ late
  /\ Finishes("raised", Tail(inbox))
  /\ UNCHANGED confused

\* wait_for_turn takes what was set aside before it reads on.
Waiting == stage = "wait" /\ (pending # <<>> \/ inbox # <<>>)

NextMessage == IF pending # <<>> THEN Head(pending) ELSE Head(inbox)

\* Mutant: the end of any turn of the thread will do.
EndsAnyTurn(m) == m.type = "turn/completed"

EndsTurn(m) == m.type = "turn/completed" /\ (named => m.run = run)

TurnSeenToEnd ==
  /\ Waiting
  /\ EndsTurn(NextMessage)
  /\ \E result \in {"completed", "failed"} : Finishes(result, inbox)
  /\ UNCHANGED confused

Ignores ==
  /\ Waiting
  /\ ~EndsTurn(NextMessage)
  /\ IF pending # <<>> THEN pending' = Tail(pending) /\ UNCHANGED inbox
     ELSE inbox' = Tail(inbox) /\ UNCHANGED pending
  /\ UNCHANGED <<kind, run, stage, step, awaited, late, named, up, owed, turn,
                 outcome, confused, spent>>

WaitTimesOut == stage = "wait" /\ Finishes("raised", inbox) /\ UNCHANGED confused

\* End of file, or a closed websocket, once all that came before was read.
SeesEnd ==
  /\ stage # "idle" /\ ~up
  /\ inbox = <<>>
  /\ stage = "wait" => pending = <<>>
  /\ Finishes("raised", inbox)
  /\ UNCHANGED confused

-----------------------------------------------------------------------------
(* The server, external *)

\* Whether the client can still hear about run r.
Hears(r) == up /\ (kind = "app-server" => r = run /\ stage # "idle")

\* The requests of one run are taken up in order.
InTurn(q) == \A p \in owed : p.run = q.run => p.id >= q.id

TurnBegins(q) ==
  /\ q.method \in {"turn", "tool"} /\ InTurn(q)
  /\ kind = "codex-mcp" => up
  /\ turn[q.run] = "none"
  /\ turn' = [turn EXCEPT ![q.run] = "live"]
  /\ UNCHANGED <<cvars, up, owed, outcome, confused, spent>>

\* A connection hears of the turns of a thread once it has resumed it.
Tells(r) ==
  inbox' = IF kind = "app-server" /\ Hears(run)
              /\ \A q \in owed : q.run = run => q.method = "turn"
           THEN Append(inbox, [type |-> "turn/completed", run |-> r])
           ELSE inbox

TurnEnds(r) ==
  /\ turn[r] = "live"
  /\ turn' = [turn EXCEPT ![r] = "over"]
  /\ Tells(r)
  /\ UNCHANGED <<kind, run, stage, step, awaited, late, named, pending, up, owed,
                 outcome, confused, spent>>

OtherTurnEnds ==
  /\ kind = "app-server"
  /\ Spend("other")
  /\ Tells(Other)
  /\ UNCHANGED <<kind, run, stage, step, awaited, late, named, pending, up, owed,
                 turn, outcome, confused>>

MayAnswer(q, ok) ==
  CASE q.method = "turn"        -> ok = (turn[q.run] # "none")
    [] q.method = "tool" /\ ok -> turn[q.run] = "over"
    [] OTHER                    -> TRUE

\* turn/start is answered once the turn has begun, a tool when it is over.
\* Nobody reads the answer to a closed connection.
Answers(q) ==
  /\ InTurn(q)
  /\ kind = "codex-mcp" => up
  /\ \E ok, tells \in BOOLEAN :
       /\ MayAnswer(q, ok)
       /\ inbox' = IF Hears(q.run)
                   THEN Append(inbox, [type |-> "answer", id |-> q.id, ok |-> ok, named |-> tells])
                   ELSE inbox
  /\ owed' = owed \ {q}
  /\ UNCHANGED <<kind, run, stage, step, awaited, late, named, pending, up, turn,
                 outcome, confused, spent>>

\* An approval, say: the server counts its requests by itself.
AsksClient ==
  /\ up /\ Spend("request")
  /\ \E i \in Ids : inbox' = Append(inbox, [type |-> "request", id |-> i])
  /\ UNCHANGED <<kind, run, stage, step, awaited, late, named, pending, up, owed,
                 turn, outcome, confused>>

Breaks ==
  /\ up /\ Spend("break")
  /\ up' = FALSE
  /\ UNCHANGED <<cvars, owed, turn, outcome, confused>>

-----------------------------------------------------------------------------
Reads ==
  \/ Continues
  \/ NoThread
  \/ NoTool
  \/ TurnAccepted
  \/ ToolAnswers
  \/ Refused
  \/ SetsAside
  \/ CallTimesOut
  \/ TurnSeenToEnd
  \/ Ignores
  \/ SeesEnd

Serves ==
  \/ \E q \in owed : TurnBegins(q) \/ Answers(q)
  \/ \E r \in 1..Runs : TurnEnds(r)

Next ==
  \/ BeginsRun
  \/ CannotBegin
  \/ Reads
  \/ DeadlinePasses
  \/ WaitTimesOut
  \/ Serves
  \/ OtherTurnEnds
  \/ AsksClient
  \/ Breaks

Spec == Init /\ [][Next]_vars

\* The client reads what arrives, and the server answers and ends its turns.
\* No deadline is needed.
FairSpec == Spec /\ WF_vars(Reads) /\ WF_vars(Serves)

-----------------------------------------------------------------------------
(* Turns in this module are the turns a daemon may rely on: a run is         *)
(* reported completed only when its own turn is over, whatever arrives late, *)
(* early, in another order, for another run, or for another client's turn on *)
(* the thread; unless the client took a request of the server for its        *)
(* answer, or the answer did not name the turn.                              *)
Calls == INSTANCE TurnCalls
CallsSpec == Calls!TSpec

(* A run returns although no deadline ends it, if the server answers: the    *)
(* end of its turn is not lost when it comes before the answer of turn/start,*)
(* late answers of earlier requests do not get in the way, and a server that *)
(* dies is noticed; unless the real answer was taken for something else.     *)
EveryRunReturns == \A r \in 1..Runs : (run = r) ~> (outcome[r] # "none" \/ r \in confused)

=============================================================================
