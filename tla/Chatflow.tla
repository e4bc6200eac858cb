------------------------------- MODULE Chatflow -------------------------------
(***************************************************************************)
(* One chatflow session: sals/chatflows/chatflows.py (GedisChatBot), the   *)
(* ChatFlows actor that serves it and the page that shows it (App.vue).    *)
(*                                                                         *)
(* The steps run in a greenlet that puts outputs in queue_out and waits at *)
(* queue_in for the answer to a question.  The page keeps one fetch call   *)
(* open for the next output; answers and "back" are calls of their own, so *)
(* nothing orders them.  Every call is served by a greenlet of its own.    *)
(***************************************************************************)
EXTENDS Naturals, Sequences, SequencesExt

CONSTANTS
    Script,      \* what each step sends: "ask" and "user" wait for an answer,
                 \* "note" (loading_show, md_show_update) does not
    NoBack,      \* steps with disable_previous
    Fragile,     \* steps that may raise
    MaxPresses,  \* bound: presses of a button of one shown output
    MaxBacks,    \* bound: presses of the Back button
    MaxLoads,    \* bound: loads of the page
    MaxFaults    \* bound: fetch calls that fail under way

Step == 1..Len(Script)
Kind == {"ask", "note", "user", "error", "end"}

ASSUME ChatAssumption ==
    /\ Script \in Seq(Seq({"ask", "note", "user"})) /\ Script # <<>>
    /\ NoBack \subseteq Step /\ Fragile \subseteq Step
    /\ MaxPresses \in Nat \ {0} /\ MaxBacks \in Nat /\ MaxLoads \in Nat \ {0}
    /\ MaxFaults \in Nat

VARIABLES
    step,      \* _current_step, from 1
    slide,     \* step_info["slide"] of each step
    runs,      \* greenlets of the steps; the last is _greenlet
    respawns,  \* calls of go_back that wait for the greenlet they kill
    last,      \* _last_output
    qout,      \* _queue_out
    qin,       \* _queue_in; an answer names the output it was typed for
    fetch,     \* the call that waits in get_work: none, or whether the page that
               \* made it still waits for it
    calls,     \* fetch calls under way, and whether the page still waits for each
    reply,     \* the result under way to the page
    reports,   \* report calls under way
    backs,     \* back calls under way
    page,      \* the page
    faults

bot == <<step, slide, runs, respawns, last, qout, qin>>
net == <<fetch, calls, reply, reports, backs>>
vars == <<bot, net, page, faults>>

None == [step |-> 0, slide |-> 0, kind |-> "none", back |-> FALSE]

\* A greenlet that runs the steps from s: what is left to send in this step.
Run(s) == [todo |-> Script[s], at |-> "runs", asks |-> None]

NewPage == [loads |-> 1, awaits |-> TRUE, restore |-> FALSE, work |-> None, presses |-> 0,
            loading |-> TRUE, backs |-> 0, lossy |-> FALSE, ended |-> FALSE]

\* The actor has made the session; the page has its id and makes its first call.
Init ==
    /\ step = 1 /\ slide = [s \in Step |-> 0] /\ runs = <<Run(1)>> /\ respawns = 0
    /\ last = None /\ qout = <<>> /\ qin = <<>>
    /\ fetch = {} /\ calls = <<[current |-> TRUE, restore |-> FALSE]>> /\ reply = {}
    /\ reports = <<>> /\ backs = 0
    /\ page = NewPage
    /\ faults = 0

------------------------------------------------------------------------------
(* The steps. *)

\* Mutant: the answer to user_info is not waited for.
Waits_NotUser(kind) == kind \in {"ask", "error"}

\* After these the greenlet waits at queue_in.
Waits(kind) == kind \in {"ask", "user", "error"}

\* Mutant: only slides are kept for a page that comes back.
Remember_Slides(out) == last' = IF out.kind = "ask" THEN out ELSE last

Remember(out) == last' = out

\* A question is the next slide of the current step.  Back is offered but on the
\* first slide of the first step, or of one without it.
OutputOf(kind) ==
    LET n == IF kind = "ask" THEN slide[step] + 1 ELSE slide[step]
    IN  [step |-> step, slide |-> n, kind |-> kind,
         back |-> ~(n = 1 /\ (step = 1 \/ step \in NoBack))]

\* send_data
SendData(out) ==
    /\ slide' = [slide EXCEPT ![step] = out.slide]
    /\ Remember(out)
    /\ qout' = Append(qout, out)

\* Greenlet r sends what comes next, and waits for the answer or goes on.
Send(r) ==
    /\ runs[r].at = "runs" /\ runs[r].todo # <<>>
    /\ LET kind == Head(runs[r].todo)
           out == OutputOf(kind)
       IN  /\ SendData(out)
           /\ runs' = [runs EXCEPT ![r] =
                 [todo |-> Tail(@.todo),
                  at |-> IF Waits(kind) THEN "waits" ELSE IF kind = "end" THEN "over" ELSE "runs",
                  asks |-> IF Waits(kind) THEN out ELSE None]]
    /\ UNCHANGED <<step, respawns, qin, net, page, faults>>

\* The greenlet gets the first answer in queue_in.
Take(r) ==
    /\ runs[r].at = "waits" /\ qin # <<>>
    /\ qin' = Tail(qin)
    /\ runs' = [runs EXCEPT ![r].at = "runs", ![r].asks = None]
    /\ UNCHANGED <<step, slide, respawns, last, qout, net, page, faults>>

\* is_last_step
LastStep == step >= Len(Script)

\* A step returned: the chat ends, or the same greenlet runs the next step.
StepEnds(r) ==
    /\ runs[r].at = "runs" /\ runs[r].todo = <<>>
    /\ IF LastStep
       THEN /\ SendData(OutputOf("end"))
            /\ runs' = [runs EXCEPT ![r].at = "over"]
            /\ UNCHANGED step
       ELSE /\ step' = step + 1
            /\ slide' = [slide EXCEPT ![step'] = 0]
            /\ runs' = [runs EXCEPT ![r] = Run(step')]
            /\ UNCHANGED <<last, qout>>
    /\ UNCHANGED <<respawns, qin, net, page, faults>>

\* A step raises: an exception asks who the user is, shows the error and waits
\* for it to be answered; StopChatFlow shows its message, if it has one.
Raise(r) ==
    /\ runs[r].at = "runs" /\ step \in Fragile /\ ~Contains(runs[r].todo, "end")
    /\ \E todo \in {<<"user", "error", "end">>, <<"error", "end">>, <<"end">>} :
          runs' = [runs EXCEPT ![r].todo = todo]
    /\ UNCHANGED <<step, slide, respawns, last, qout, qin, net, page, faults>>

------------------------------------------------------------------------------
(* The calls. *)

\* Mutant: the greenlet is left alone.
Kill_Not(rs) == rs

\* _greenlet.kill()
Kill(rs) == [rs EXCEPT ![Len(rs)] = [todo |-> <<>>, at |-> "over", asks |-> None]]

\* Mutant: the first step has a step before it.
GoBack_First ==
    /\ backs > 0
    /\ backs' = backs - 1
    /\ step' = IF slide[step] = 1 THEN step - 1 ELSE step
    /\ runs' = Kill(runs)
    /\ respawns' = respawns + 1
    /\ UNCHANGED <<slide, last, qout, qin, fetch, calls, reply, reports, page, faults>>

\* go_back: from the first slide of a step to the step before it, else to the
\* start of this one.  The kill waits for the loop.
GoBack ==
    /\ backs > 0
    /\ backs' = backs - 1
    /\ IF slide[step] = 1 /\ step = 1
       THEN UNCHANGED <<step, runs, respawns>>
       ELSE /\ step' = IF slide[step] = 1 THEN step - 1 ELSE step
            /\ runs' = Kill(runs)
            /\ respawns' = respawns + 1
    /\ UNCHANGED <<slide, last, qout, qin, fetch, calls, reply, reports, page, faults>>

\* The kill is done, and go_back runs the current step in a new greenlet.
Respawn ==
    /\ respawns > 0
    /\ respawns' = respawns - 1
    /\ slide' = [slide EXCEPT ![step] = 0]
    /\ runs' = Append(IF Last(runs).at = "over" THEN Front(runs) ELSE runs, Run(step))
    /\ UNCHANGED <<step, last, qout, qin, net, page, faults>>

\* report: set_work.
Report(i) ==
    /\ qin' = Append(qin, reports[i])
    /\ reports' = RemoveAt(reports, i)
    /\ UNCHANGED <<step, slide, runs, respawns, last, qout, fetch, calls, reply, backs, page,
                   faults>>

\* Mutants: the call that was waiting is left to wait; a call that restores waits
\* for the next output as well.
GetWork_NoKill ==
    /\ calls # <<>>
    /\ calls' = Tail(calls)
    /\ LET call == Head(calls)
       IN  IF call.restore /\ last # None
           THEN fetch' = fetch /\ reply' = IF call.current THEN {last} ELSE reply
           ELSE fetch' = (IF fetch = {} THEN {call.current} ELSE fetch) /\ UNCHANGED reply
    /\ UNCHANGED <<bot, reports, backs, page, faults>>

GetWork_NoRestore ==
    /\ calls # <<>>
    /\ calls' = Tail(calls)
    /\ fetch' = {Head(calls).current} /\ UNCHANGED reply
    /\ UNCHANGED <<bot, reports, backs, page, faults>>

\* fetch, get_work: the call that was waiting is killed, and nobody waits for
\* it any more.  A call that restores gets the last output.
GetWork ==
    /\ calls # <<>>
    /\ calls' = Tail(calls)
    /\ LET call == Head(calls)
       IN  IF call.restore /\ last # None
           THEN fetch' = {} /\ reply' = IF call.current THEN {last} ELSE reply
           ELSE fetch' = {call.current} /\ UNCHANGED reply
    /\ UNCHANGED <<bot, reports, backs, page, faults>>

\* The call that waits gets the first output; it is lost if the page has gone.
Fetched ==
    /\ fetch # {} /\ qout # <<>>
    /\ qout' = Tail(qout)
    /\ reply' = IF fetch = {TRUE} THEN {Head(qout)} ELSE reply
    /\ fetch' = {}
    /\ UNCHANGED <<step, slide, runs, respawns, last, qin, calls, reports, backs, page, faults>>

------------------------------------------------------------------------------
(* The page. *)

Call(restore) == [current |-> TRUE, restore |-> restore]

\* handleResponse: the end ends it, the rest is shown, but for a user_info, which
\* it answers by itself; then it asks for more.
Receive ==
    \E out \in reply :
        /\ reply' = {}
        /\ page' =
             [page EXCEPT
                 !.loading = FALSE, !.restore = FALSE,
                 !.awaits = (out.kind # "end"), !.ended = (out.kind = "end"),
                 !.work = IF out.kind \in {"end", "user"} THEN @ ELSE out,
                 !.presses = IF out.kind \in {"end", "user"} THEN @ ELSE 0]
        /\ reports' = IF out.kind = "user" THEN Append(reports, out) ELSE reports
        /\ calls' = IF out.kind = "end" THEN calls ELSE Append(calls, Call(FALSE))
        /\ UNCHANGED <<bot, fetch, backs, faults>>

\* The page no longer waits for the calls it has made.
Forsake ==
    /\ fetch' = {FALSE : x \in fetch}
    /\ reply' = {}

Forsaken == [i \in DOMAIN calls |-> [calls[i] EXCEPT !.current = FALSE]]

\* A fetch call times out or its connection breaks, and the page makes it once
\* more, a second later.
Retry ==
    /\ faults < MaxFaults /\ page.awaits
    /\ faults' = faults + 1
    /\ Forsake
    /\ calls' = Append(Forsaken, Call(page.restore))
    /\ page' = [page EXCEPT !.lossy = TRUE]
    /\ UNCHANGED <<bot, reports, backs>>

\* next, by the button or the Enter key, with the answer to the question shown.
\* The key works while the answer before it is under way.
NextPressed ==
    /\ page.work.kind = "ask" /\ page.presses < MaxPresses /\ ~page.ended
    /\ reports' = Append(reports, page.work)
    /\ page' = [page EXCEPT !.presses = @ + 1, !.loading = TRUE]
    /\ UNCHANGED <<bot, fetch, calls, reply, backs, faults>>

\* back: its button is there to be pressed again at once.
BackPressed ==
    /\ page.work.kind = "ask" /\ page.work.back /\ ~page.loading
    /\ page.presses < MaxPresses /\ page.backs < MaxBacks /\ ~page.ended
    /\ backs' = backs + 1
    /\ page' = [page EXCEPT !.presses = @ + 1, !.backs = @ + 1]
    /\ UNCHANGED <<bot, fetch, calls, reply, reports, faults>>

\* The page is loaded again, and restores the session that it saved with the
\* first output it got.
Reload ==
    /\ page.loads < MaxLoads /\ page.work # None /\ ~page.ended
    /\ Forsake
    /\ calls' = Append(Forsaken, Call(TRUE))
    /\ page' = [NewPage EXCEPT !.loads = page.loads + 1, !.restore = TRUE, !.backs = page.backs]
    /\ UNCHANGED <<bot, reports, backs, faults>>

------------------------------------------------------------------------------
BotStep == \E r \in DOMAIN runs : Send(r) \/ Take(r) \/ StepEnds(r) \/ Raise(r)
Serve == GoBack \/ Respawn \/ GetWork \/ Fetched \/ \E i \in DOMAIN reports : Report(i)
User == NextPressed \/ BackPressed \/ Reload

Next == BotStep \/ Serve \/ Receive \/ Retry \/ User

Spec == Init /\ [][Next]_vars

\* Greenlets that can go on do, and calls and results arrive.
FairSpec ==
    /\ Spec
    /\ WF_vars(BotStep) /\ WF_vars(GoBack) /\ WF_vars(Respawn) /\ WF_vars(GetWork)
    /\ WF_vars(Fetched) /\ WF_vars(\E i \in DOMAIN reports : Report(i)) /\ WF_vars(Receive)

------------------------------------------------------------------------------
(* Properties. *)

Output == [step : Step, slide : Nat, kind : Kind, back : BOOLEAN]

\* Every variable has its type: the current step is one of the chatflow's.
TypeOK ==
    /\ step \in Step /\ slide \in [Step -> Nat]
    /\ runs \in Seq([todo : Seq(Kind), at : {"runs", "waits", "over"}, asks : Output \cup {None}])
    /\ respawns \in Nat /\ last \in Output \cup {None}
    /\ qout \in Seq(Output) /\ qin \in Seq(Output)
    /\ fetch \in SUBSET BOOLEAN /\ calls \in Seq([current : BOOLEAN, restore : BOOLEAN])
    /\ reply \subseteq Output /\ reports \in Seq(Output) /\ backs \in Nat
    /\ page \in [loads : 1..MaxLoads, awaits : BOOLEAN, restore : BOOLEAN,
                 work : Output \cup {None}, presses : 0..MaxPresses, loading : BOOLEAN,
                 backs : 0..MaxBacks, lossy : BOOLEAN, ended : BOOLEAN]
    /\ faults \in 0..MaxFaults

Waiting == {r \in DOMAIN runs : runs[r].at = "waits"}

AtMostOne == \A q, r \in DOMAIN runs : runs[q].at # "over" /\ runs[r].at # "over" => q = r

\* One greenlet runs the steps, whichever way the user goes through them with one
\* press for each output: nothing is deployed or paid for twice at once.  (A page
\* that is loaded again offers the Back button again, while go_back may still
\* wait for the greenlet it kills.)
Alone == page.loads = 1 => AtMostOne

\* A page that is loaded again is given the question that waits for an answer, if
\* there never was a second greenlet.
Restorable == Len(runs) = 1 => \A r \in Waiting : last = runs[r].asks

\* The answer a question gets was typed for that question, as long as the page
\* is not loaded again.
AnswersMatch ==
    [][page.loads = 1 =>
         \A r \in Waiting : r \in DOMAIN runs' /\ runs'[r].at = "runs" /\ qin' # qin
                              => Head(qin) = runs[r].asks]_vars

\* The question that waits for an answer is shown, also on a page that was loaded
\* again, unless a fetch call failed after that or the page was told of the end.
Asking == Len(runs) = 1 /\ Last(runs).asks.kind = "ask"

QuestionShown ==
    Asking ~> page.work = Last(runs).asks \/ ~Asking \/ page.lossy \/ page.ended

\* The page learns of the end.
EndShown == Last(runs).at = "over" ~> page.ended \/ page.lossy \/ Last(runs).at # "over"
==============================================================================
