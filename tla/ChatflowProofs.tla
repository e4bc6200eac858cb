--------------------------- MODULE ChatflowProofs ---------------------------
(***************************************************************************)
(* What one chatflow session keeps, for every script: types, the question   *)
(* that a page gets when it comes back, and, for a user who presses one     *)
(* button for each question, that one greenlet runs at a time and gets the  *)
(* answer to the question it has asked.                                     *)
(*                                                                          *)
(* The last two rest on a turn: somebody is next to act, the greenlet, the  *)
(* page or a call between them, and whoever it is, nobody else has anything *)
(* that could set the greenlet going.  A question, its answer and a press   *)
(* of Back are the turn on its way.  A fetch call that fails may lose it,   *)
(* and only a page that is loaded again can have it a second time.          *)
(***************************************************************************)
EXTENDS Chatflow, SequenceTheorems, TLAPS

\* The page answers these: the user a question, the page itself a user_info.
Answered == {"ask", "user"}

Holder == {"greenlet", "queue", "reply", "page", "report", "answer", "back", "respawn"}

\* What is asked is what the greenlet waits for.
Asks(out) == runs[1].at = "waits" => out = runs[1].asks

\* The turn is with h, and nowhere else.
TurnOf(h) ==
    /\ runs[1].at = "runs" => h = "greenlet"
    /\ \A i \in DOMAIN qout : qout[i].kind \in Answered =>
          /\ h = "queue" /\ Asks(qout[i])
          /\ \A j \in DOMAIN qout : qout[j].kind \in Answered => i = j
    /\ \A out \in reply : out.kind \in Answered =>
          h = "reply" /\ Asks(out) /\ (\A x \in reply : x = out)
    /\ page.work.kind = "ask" /\ page.presses = 0 => h = "page" /\ Asks(page.work)
    /\ reports # <<>> => h = "report" /\ Len(reports) = 1 /\ Asks(reports[1])
    /\ qin # <<>> => h = "answer" /\ Len(qin) = 1 /\ Asks(qin[1])
    /\ backs > 0 => h = "back" /\ backs = 1
    /\ respawns > 0 => h = "respawn" /\ respawns = 1 /\ runs[1].at = "over"

\* The page has not been loaded again: no call restores, and there is one turn.
OneTurn ==
    /\ Len(runs) = 1
    /\ ~page.restore
    /\ \A i \in DOMAIN calls : ~calls[i].restore
    /\ \E h \in Holder : TurnOf(h)

Turns == page.loads = 1 => OneTurn

IInv == TypeOK /\ runs # <<>> /\ Restorable

Greenlet == [todo : Seq(Kind), at : {"runs", "waits", "over"}, asks : Output \cup {None}]

------------------------------------------------------------------------------
(* Sequences. *)

\* What is left of a nonempty sequence, from either end.
LEMMA Parts ==
  ASSUME NEW S, NEW s \in Seq(S), s # <<>>
  PROVE  /\ Len(s) \in Nat \ {0}
         /\ Head(s) \in S /\ Head(s) = s[1] /\ Tail(s) \in Seq(S)
         /\ Last(s) \in S /\ Last(s) = s[Len(s)]
         /\ Front(s) \in Seq(S) /\ Len(Front(s)) = Len(s) - 1
  <1>1. Len(s) \in Nat \ {0}
    BY EmptySeq
  <1>2. Len(s) - 1 \in Int
    BY <1>1
  <1>3. \A i \in 1..(Len(s) - 1) : s[i] \in S
    BY <1>1
  <1>4. /\ SubSeq(s, 1, Len(s) - 1) \in Seq(S)
        /\ Len(SubSeq(s, 1, Len(s) - 1)) = Len(s) - 1
    <2> DEFINE n == Len(s) - 1
    <2>1. n \in Int /\ n >= 0 /\ \A i \in 1..n : s[i] \in S
      BY <1>1, <1>2, <1>3
    <2>2. SubSeq(s, 1, n) \in Seq(S) /\ Len(SubSeq(s, 1, n)) = n
      <3> HIDE DEF n
      <3>1. /\ SubSeq(s, 1, n) \in Seq(S)
            /\ Len(SubSeq(s, 1, n)) = IF 1 <= n THEN n - 1 + 1 ELSE 0
        BY <2>1, SubSeqProperties
      <3> QED  BY <2>1, <3>1
    <2> QED  BY <2>2
  <1> QED  BY <1>1, <1>4 DEF Last, Front

\* A sequence without one of its elements.
LEMMA Removed ==
  ASSUME NEW S, NEW s \in Seq(S), NEW i \in DOMAIN s
  PROVE  RemoveAt(s, i) \in Seq(S) /\ Len(RemoveAt(s, i)) = Len(s) - 1
  <1>1. i \in 1..Len(s) /\ Len(s) \in Nat
    OBVIOUS
  <1>2. /\ SubSeq(s, 1, i - 1) \in Seq(S) /\ Len(SubSeq(s, 1, i - 1)) = i - 1
    <2>1. \A j \in 1..(i - 1) : s[j] \in S
      BY <1>1
    <2> QED  BY <1>1, <2>1, SubSeqProperties
  <1>3. /\ SubSeq(s, i + 1, Len(s)) \in Seq(S)
        /\ Len(SubSeq(s, i + 1, Len(s))) = Len(s) - i
    <2> DEFINE m == i + 1
    <2>1. m \in Int /\ m <= Len(s) + 1 /\ \A j \in m..Len(s) : s[j] \in S
      BY <1>1
    <2>2. SubSeq(s, m, Len(s)) \in Seq(S) /\ Len(SubSeq(s, m, Len(s))) = Len(s) + 1 - m
      <3> HIDE DEF m
      <3>1. /\ SubSeq(s, m, Len(s)) \in Seq(S)
            /\ Len(SubSeq(s, m, Len(s))) = IF m <= Len(s) THEN Len(s) - m + 1 ELSE 0
        BY <1>1, <2>1, SubSeqProperties
      <3> QED  BY <1>1, <2>1, <3>1
    <2>3. Len(s) + 1 - m = Len(s) - i
      BY <1>1
    <2> QED  BY <2>2, <2>3
  <1> DEFINE a == SubSeq(s, 1, i - 1)
             b == SubSeq(s, i + 1, Len(s))
  <1>4. a \o b \in Seq(S) /\ Len(a \o b) = Len(a) + Len(b)
    <2> HIDE DEF a, b
    <2>1. a \in Seq(S) /\ b \in Seq(S)
      BY <1>2, <1>3 DEF a, b
    <2> QED  BY <2>1, ConcatProperties
  <1>5. Len(a) + Len(b) = Len(s) - 1
    <2> HIDE DEF a, b
    <2>1. Len(a) = i - 1 /\ Len(b) = Len(s) - i
      BY <1>2, <1>3 DEF a, b
    <2> QED  BY <1>1, <2>1
  <1> QED  BY <1>4, <1>5 DEF RemoveAt

------------------------------------------------------------------------------
(* Types. *)

\* The script of a step is a sequence of kinds of outputs, and a run of it is typed.
LEMMA Scripted ==
  ASSUME NEW s \in Step
  PROVE  Script[s] \in Seq(Kind) /\ Run(s) \in Greenlet
  <1>1. Script[s] \in Seq({"ask", "note", "user"})
    BY ChatAssumption DEF ChatAssumption, Step
  <1>2. Script[s] \in Seq(Kind)
    BY <1>1, SeqMonotonic DEF Kind
  <1> QED  BY <1>2 DEF Run, Greenlet

\* What a page of any kind gives is an output.
LEMMA OutputTyped ==
  ASSUME TypeOK, NEW kind \in Kind
  PROVE  OutputOf(kind) \in Output
  BY DEF TypeOK, OutputOf, Output

\* There is a first step.
LEMMA StepsExist == Len(Script) \in Nat /\ 1 \in Step
  BY ChatAssumption, EmptySeq DEF ChatAssumption, Step

\* A session begins typed, with a run of its first step.
LEMMA TypeInit == Init => TypeOK /\ runs # <<>> /\ Restorable
  <1> SUFFICES ASSUME Init PROVE TypeOK /\ runs # <<>> /\ Restorable
    OBVIOUS
  <1>1. Run(1) \in Greenlet
    BY Scripted, StepsExist
  <1>2. runs \in Seq(Greenlet) /\ Len(runs) = 1 /\ runs[1].at = "runs"
    BY <1>1 DEF Init, Run
  <1>3. calls \in Seq([current : BOOLEAN, restore : BOOLEAN])
    BY DEF Init
  <1>4. page \in [loads : 1..MaxLoads, awaits : BOOLEAN, restore : BOOLEAN,
                  work : Output \cup {None}, presses : 0..MaxPresses, loading : BOOLEAN,
                  backs : 0..MaxBacks, lossy : BOOLEAN, ended : BOOLEAN]
    BY ChatAssumption DEF ChatAssumption, Init, NewPage
  <1>5. Restorable
    BY <1>2 DEF Restorable, Waiting
  <1> QED  BY <1>2, <1>3, <1>4, <1>5, StepsExist, ChatAssumption
           DEF ChatAssumption, Init, TypeOK, Greenlet

\* The greenlets keep their types, and none is forgotten.
LEMMA RunsKept ==
  ASSUME IInv, [Next]_vars
  PROVE  runs' \in Seq(Greenlet) /\ Len(runs') >= Len(runs)
  <1>1. /\ runs \in Seq(Greenlet) /\ runs # <<>> /\ Len(runs) \in Nat \ {0}
        /\ DOMAIN runs = 1..Len(runs) /\ step \in Step
    BY EmptySeq DEF IInv, TypeOK, Greenlet
  <1>2. \A r \in DOMAIN runs : runs[r] \in Greenlet
    BY <1>1, ElementOfSeq
  <1>3. ASSUME NEW r \in DOMAIN runs, NEW x \in Greenlet, runs' = [runs EXCEPT ![r] = x]
        PROVE  runs' \in Seq(Greenlet) /\ Len(runs') = Len(runs)
    BY <1>1, <1>3, ExceptSeq
  <1>4. ASSUME NEW r \in DOMAIN runs, Send(r)
        PROVE  runs' \in Seq(Greenlet) /\ Len(runs') >= Len(runs)
    <2> DEFINE kind == Head(runs[r].todo)
               x == [todo |-> Tail(runs[r].todo),
                     at |-> IF Waits(kind) THEN "waits" ELSE IF kind = "end" THEN "over" ELSE "runs",
                     asks |-> IF Waits(kind) THEN OutputOf(kind) ELSE None]
    <2>1. runs[r].todo \in Seq(Kind) /\ runs[r].todo # <<>>
      BY <1>2, <1>4 DEF Send, Greenlet
    <2>2. kind \in Kind /\ Tail(runs[r].todo) \in Seq(Kind)
      BY <2>1, Parts
    <2>3. x \in Greenlet
      <3>1. OutputOf(kind) \in Output
        BY <2>2, OutputTyped DEF IInv
      <3> QED  BY <2>2, <3>1 DEF Greenlet
    <2>4. runs' = [runs EXCEPT ![r] = x]
      BY <1>4 DEF Send
    <2> QED  BY <1>1, <1>3, <2>3, <2>4
  <1>5. ASSUME NEW r \in DOMAIN runs, Take(r)
        PROVE  runs' \in Seq(Greenlet) /\ Len(runs') >= Len(runs)
    <2>1. runs' = [runs EXCEPT ![r] = [runs[r] EXCEPT !.at = "runs", !.asks = None]]
      BY <1>5 DEF Take
    <2>2. [runs[r] EXCEPT !.at = "runs", !.asks = None] \in Greenlet
      BY <1>2 DEF Greenlet
    <2> QED  BY <1>1, <1>3, <2>1, <2>2
  <1>6. ASSUME NEW r \in DOMAIN runs, StepEnds(r)
        PROVE  runs' \in Seq(Greenlet) /\ Len(runs') >= Len(runs)
    <2>1. CASE LastStep
      <3>1. runs' = [runs EXCEPT ![r] = [runs[r] EXCEPT !.at = "over"]]
        BY <1>6, <2>1 DEF StepEnds
      <3>2. [runs[r] EXCEPT !.at = "over"] \in Greenlet
        BY <1>2 DEF Greenlet
      <3> QED  BY <1>1, <1>3, <3>1, <3>2
    <2>2. CASE ~LastStep
      <3>1. runs' = [runs EXCEPT ![r] = Run(step + 1)]
        BY <1>6, <2>2 DEF StepEnds
      <3>2. step + 1 \in Step
        BY <1>1, <2>2, StepsExist DEF Step, LastStep
      <3>3. Run(step + 1) \in Greenlet
        BY <3>2, Scripted
      <3> QED  BY <1>1, <1>3, <3>1, <3>3
    <2> QED  BY <2>1, <2>2
  <1>7. ASSUME NEW r \in DOMAIN runs, Raise(r)
        PROVE  runs' \in Seq(Greenlet) /\ Len(runs') >= Len(runs)
    <2>1. PICK todo \in {<<"user", "error", "end">>, <<"error", "end">>, <<"end">>} :
             runs' = [runs EXCEPT ![r].todo = todo]
      BY <1>7 DEF Raise
    <2>2. todo \in Seq(Kind)
      <3>1. /\ <<"user", "error", "end">> \in Seq(Kind) /\ <<"error", "end">> \in Seq(Kind)
            /\ <<"end">> \in Seq(Kind)
        BY DEF Kind
      <3> QED  BY <3>1
    <2>3. [runs[r] EXCEPT !.todo = todo] \in Greenlet
      BY <1>2, <2>2 DEF Greenlet
    <2> QED  BY <1>1, <1>3, <2>1, <2>3
  <1>8. CASE GoBack
    <2>1. [todo |-> <<>>, at |-> "over", asks |-> None] \in Greenlet
      BY DEF Greenlet
    <2>2. Len(runs) \in DOMAIN runs
      BY <1>1
    <2>3. runs' = runs \/ runs' = [runs EXCEPT ![Len(runs)] =
                                     [todo |-> <<>>, at |-> "over", asks |-> None]]
      BY <1>8 DEF GoBack, Kill
    <2> QED  BY <1>1, <1>3, <2>1, <2>2, <2>3
  <1>9. CASE Respawn
    <2> DEFINE kept == IF Last(runs).at = "over" THEN Front(runs) ELSE runs
    <2>1. kept \in Seq(Greenlet) /\ Len(kept) >= Len(runs) - 1
      BY <1>1, Parts
    <2>2. Run(step) \in Greenlet
      BY <1>1, Scripted
    <2>3. runs' = Append(kept, Run(step))
      BY <1>9 DEF Respawn
    <2> HIDE DEF kept
    <2> QED  BY <1>1, <2>1, <2>2, <2>3, AppendProperties
  <1>10. CASE UNCHANGED runs
    BY <1>1, <1>10
  <1>11. ASSUME NEW i \in DOMAIN reports, Report(i)
        PROVE  UNCHANGED runs
    BY <1>11 DEF Report
  <1>12. CASE GetWork \/ Fetched \/ Receive \/ Retry \/ User \/ UNCHANGED vars
    BY <1>10, <1>12 DEF GetWork, Fetched, Receive, Retry, User, NextPressed, BackPressed, Reload,
       bot, vars
  <1> QED  BY <1>4, <1>5, <1>6, <1>7, <1>8, <1>9, <1>10, <1>11, <1>12 DEF Next, BotStep, Serve

\* The chatflow keeps to its steps, and what it sends and gets is an output.
LEMMA BotKept ==
  ASSUME IInv, [Next]_vars
  PROVE  /\ step' \in Step /\ slide' \in [Step -> Nat]
         /\ respawns' \in Nat /\ last' \in Output \cup {None}
         /\ qout' \in Seq(Output) /\ qin' \in Seq(Output)
  <1> DEFINE P == /\ step' \in Step /\ slide' \in [Step -> Nat]
                  /\ respawns' \in Nat /\ last' \in Output \cup {None}
                  /\ qout' \in Seq(Output) /\ qin' \in Seq(Output)
  <1>0. /\ step \in Step /\ slide \in [Step -> Nat] /\ step \in Nat /\ step >= 1
        /\ respawns \in Nat /\ last \in Output \cup {None}
        /\ qout \in Seq(Output) /\ qin \in Seq(Output) /\ reports \in Seq(Output)
    BY StepsExist DEF IInv, TypeOK, Step
  <1>1. ASSUME NEW kind \in Kind, SendData(OutputOf(kind))
        PROVE  slide' \in [Step -> Nat] /\ last' \in Output /\ qout' \in Seq(Output)
    <2> DEFINE out == OutputOf(kind)
    <2>1. out \in Output
      BY OutputTyped DEF IInv
    <2> HIDE DEF out
    <2>2. SendData(out)
      BY <1>1 DEF out
    <2>3. out.slide \in Nat
      BY <2>1 DEF Output
    <2>4. slide' = [slide EXCEPT ![step] = out.slide] /\ last' = out /\ qout' = Append(qout, out)
      BY <2>2 DEF SendData, Remember
    <2>5. slide' \in [Step -> Nat]
      BY <1>0, <2>3, <2>4
    <2> QED  BY <1>0, <2>1, <2>4, <2>5, AppendProperties
  <1>2. ASSUME NEW r \in DOMAIN runs, Send(r) PROVE P
    <2>1. runs[r].todo \in Seq(Kind) /\ runs[r].todo # <<>>
      <3>1. runs[r] \in Greenlet
        <4>1. runs \in Seq(Greenlet)
          BY DEF IInv, TypeOK, Greenlet
        <4> QED  BY <4>1, ElementOfSeq
      <3> QED  BY <1>2, <3>1 DEF Send, Greenlet
    <2>2. Head(runs[r].todo) \in Kind
      BY <2>1, Parts
    <2>3. SendData(OutputOf(Head(runs[r].todo))) /\ UNCHANGED <<step, respawns, qin>>
      BY <1>2 DEF Send
    <2> QED  BY <1>0, <1>1, <2>2, <2>3
  <1>3. ASSUME NEW r \in DOMAIN runs, Take(r) PROVE P
    BY <1>0, <1>3, Parts DEF Take
  <1>4. ASSUME NEW r \in DOMAIN runs, StepEnds(r) PROVE P
    <2>1. CASE LastStep
      <3>1. "end" \in Kind
        BY DEF Kind
      <3> QED  BY <1>0, <1>1, <1>4, <2>1, <3>1 DEF StepEnds
    <2>2. CASE ~LastStep
      <3>1. step' = step + 1 /\ slide' = [slide EXCEPT ![step'] = 0]
            /\ UNCHANGED <<respawns, last, qout, qin>>
        BY <1>4, <2>2 DEF StepEnds
      <3>2. step + 1 \in Step
        BY <1>0, <2>2, StepsExist DEF Step, LastStep
      <3> QED  BY <1>0, <3>1, <3>2
    <2> QED  BY <2>1, <2>2
  <1>5. ASSUME NEW r \in DOMAIN runs, Raise(r) PROVE P
    BY <1>0, <1>5 DEF Raise
  <1>6. CASE GoBack
    <2>1. slide[step] = 1 /\ step # 1 => step - 1 \in Step
      BY <1>0, StepsExist DEF Step
    <2>2. UNCHANGED <<slide, last, qout, qin>> /\ respawns' \in {respawns, respawns + 1}
          /\ (step' = step \/ (slide[step] = 1 /\ step # 1 /\ step' = step - 1))
      <3>1. CASE slide[step] = 1 /\ step = 1
        BY <1>0, <1>6, <3>1 DEF GoBack
      <3>2. CASE ~(slide[step] = 1 /\ step = 1)
        <4>1. UNCHANGED <<slide, last, qout, qin>> /\ respawns' = respawns + 1
          BY <1>6, <3>2 DEF GoBack
        <4>2. step' = IF slide[step] = 1 THEN step - 1 ELSE step
          BY <1>6, <3>2 DEF GoBack
        <4> QED  BY <1>0, <3>2, <4>1, <4>2
      <3> QED  BY <3>1, <3>2
    <2> QED  BY <1>0, <2>1, <2>2
  <1>7. CASE Respawn
    BY <1>0, <1>7 DEF Respawn
  <1>8. ASSUME NEW i \in DOMAIN reports, Report(i) PROVE P
    <2>1. reports[i] \in Output
      BY <1>0, ElementOfSeq
    <2> QED  BY <1>0, <1>8, <2>1, AppendProperties DEF Report
  <1>9. CASE Fetched
    BY <1>0, <1>9, Parts DEF Fetched
  <1>10. CASE UNCHANGED bot
    BY <1>0, <1>10 DEF bot
  <1>11. CASE GetWork \/ Receive \/ Retry \/ User \/ UNCHANGED vars
    BY <1>10, <1>11 DEF GetWork, Receive, Retry, User, NextPressed, BackPressed, Reload, vars
  <1> QED  BY <1>2, <1>3, <1>4, <1>5, <1>6, <1>7, <1>8, <1>9, <1>11 DEF Next, BotStep, Serve

CallType == [current : BOOLEAN, restore : BOOLEAN]
PageType == [loads : 1..MaxLoads, awaits : BOOLEAN, restore : BOOLEAN,
             work : Output \cup {None}, presses : 0..MaxPresses, loading : BOOLEAN,
             backs : 0..MaxBacks, lossy : BOOLEAN, ended : BOOLEAN]

\* Calls that the page no longer waits for.
LEMMA ForsakenTyped ==
  ASSUME calls \in Seq(CallType)
  PROVE  /\ Forsaken \in Seq(CallType) /\ Len(Forsaken) = Len(calls)
         /\ \A i \in DOMAIN calls : Forsaken[i].restore = calls[i].restore
         /\ DOMAIN Forsaken = DOMAIN calls
  <1>1. DOMAIN calls = 1..Len(calls) /\ Len(calls) \in Nat
        /\ \A i \in DOMAIN calls : calls[i] \in CallType
    BY ElementOfSeq
  <1>2. \A c \in CallType : [c EXCEPT !.current = FALSE] \in CallType
                            /\ [c EXCEPT !.current = FALSE].restore = c.restore
    BY DEF CallType
  <1>3. Forsaken \in [1..Len(calls) -> CallType]
    BY <1>1, <1>2 DEF Forsaken
  <1>4. Forsaken \in Seq(CallType) /\ Len(Forsaken) = Len(calls)
    BY <1>1, <1>3
  <1> QED  BY <1>1, <1>2, <1>4 DEF Forsaken

\* The net and the page.
LEMMA PageKept ==
  ASSUME IInv, [Next]_vars
  PROVE  /\ fetch' \in SUBSET BOOLEAN /\ calls' \in Seq(CallType)
         /\ reply' \subseteq Output /\ reports' \in Seq(Output) /\ backs' \in Nat
         /\ page' \in PageType
         /\ faults' \in 0..MaxFaults
  <1> DEFINE P == /\ fetch' \in SUBSET BOOLEAN /\ calls' \in Seq(CallType)
                  /\ reply' \subseteq Output /\ reports' \in Seq(Output) /\ backs' \in Nat
                  /\ page' \in PageType
                  /\ faults' \in 0..MaxFaults
  <1>1. /\ fetch \in SUBSET BOOLEAN /\ calls \in Seq(CallType)
        /\ reply \subseteq Output /\ reports \in Seq(Output) /\ backs \in Nat
        /\ page \in PageType /\ faults \in 0..MaxFaults
        /\ last \in Output \cup {None} /\ qout \in Seq(Output)
    BY DEF IInv, TypeOK, CallType, PageType
  <1>2. /\ MaxPresses \in Nat \ {0} /\ MaxBacks \in Nat /\ MaxLoads \in Nat \ {0}
        /\ MaxFaults \in Nat
    BY ChatAssumption DEF ChatAssumption
  <1>3. /\ page.work \in Output \cup {None} /\ page.presses \in 0..MaxPresses
        /\ page.backs \in 0..MaxBacks /\ page.loads \in 1..MaxLoads /\ page.restore \in BOOLEAN
        /\ page.ended \in BOOLEAN /\ page.lossy \in BOOLEAN /\ page.loading \in BOOLEAN
        /\ page.awaits \in BOOLEAN
    BY <1>1 DEF PageType
  <1>4. \A w \in BOOLEAN : Call(w) \in CallType
    BY DEF Call, CallType
  <1>5. CASE UNCHANGED <<net, page, faults>>
    BY <1>1, <1>5 DEF net
  <1>6. CASE BotStep \/ Respawn \/ UNCHANGED vars
    BY <1>5, <1>6 DEF BotStep, Send, Take, StepEnds, Raise, Respawn, vars
  <1>7. CASE GoBack
    BY <1>1, <1>7 DEF GoBack
  <1>8. ASSUME NEW i \in DOMAIN reports, Report(i) PROVE P
    BY <1>1, <1>8, Removed DEF Report
  <1>9. CASE GetWork
    <2>1. Head(calls) \in CallType /\ Tail(calls) \in Seq(CallType)
      BY <1>1, <1>9, Parts DEF GetWork
    <2>2. Head(calls).current \in BOOLEAN
      BY <2>1 DEF CallType
    <2> QED  BY <1>1, <1>9, <2>1, <2>2 DEF GetWork
  <1>10. CASE Fetched
    <2>1. Head(qout) \in Output
      BY <1>1, <1>10, Parts DEF Fetched
    <2> QED  BY <1>1, <1>10, <2>1 DEF Fetched
  <1>11. CASE Receive
    <2>1. PICK out \in reply :
             /\ reply' = {}
             /\ page' = [page EXCEPT
                  !.loading = FALSE, !.restore = FALSE,
                  !.awaits = (out.kind # "end"), !.ended = (out.kind = "end"),
                  !.work = IF out.kind \in {"end", "user"} THEN @ ELSE out,
                  !.presses = IF out.kind \in {"end", "user"} THEN @ ELSE 0]
             /\ reports' = IF out.kind = "user" THEN Append(reports, out) ELSE reports
             /\ calls' = IF out.kind = "end" THEN calls ELSE Append(calls, Call(FALSE))
             /\ UNCHANGED <<fetch, backs, faults>>
      BY <1>11 DEF Receive
    <2>2. out \in Output
      BY <1>1
    <2>3. reports' \in Seq(Output)
      BY <1>1, <2>1, <2>2, AppendProperties
    <2>4. calls' \in Seq(CallType)
      BY <1>1, <1>4, <2>1, AppendProperties
    <2>5. page' \in PageType
      <3>1. page' = [loads |-> page.loads, awaits |-> out.kind # "end", restore |-> FALSE,
                     work |-> IF out.kind \in {"end", "user"} THEN page.work ELSE out,
                     presses |-> IF out.kind \in {"end", "user"} THEN page.presses ELSE 0,
                     loading |-> FALSE, backs |-> page.backs, lossy |-> page.lossy,
                     ended |-> out.kind = "end"]
        BY <1>1, <2>1 DEF PageType
      <3>2. (out.kind # "end") \in BOOLEAN /\ (out.kind = "end") \in BOOLEAN
        OBVIOUS
      <3> HIDE DEF PageType
      <3> DEFINE w == IF out.kind \in {"end", "user"} THEN page.work ELSE out
                 n == IF out.kind \in {"end", "user"} THEN page.presses ELSE 0
      <3>3. w \in Output \cup {None} /\ n \in 0..MaxPresses
        BY <1>3, <1>2, <2>2
      <3> HIDE DEF w, n
      <3>4. page' = [loads |-> page.loads, awaits |-> out.kind # "end", restore |-> FALSE,
                     work |-> w, presses |-> n,
                     loading |-> FALSE, backs |-> page.backs, lossy |-> page.lossy,
                     ended |-> out.kind = "end"]
        BY <3>1 DEF w, n
      <3> QED  BY <1>3, <3>2, <3>3, <3>4 DEF PageType
    <2> QED  BY <1>1, <2>1, <2>3, <2>4, <2>5
  <1>12. CASE Retry
    <2>1. fetch' \in SUBSET BOOLEAN /\ reply' = {}
      BY <1>12 DEF Retry, Forsake
    <2>2. calls' \in Seq(CallType)
      <3>1. calls' = Append(Forsaken, Call(page.restore))
        BY <1>12 DEF Retry
      <3> QED  BY <1>1, <1>3, <1>4, <3>1, ForsakenTyped, AppendProperties
    <2>3. page' \in PageType
      BY <1>1, <1>12 DEF Retry, PageType
    <2>4. faults' \in 0..MaxFaults
      BY <1>1, <1>2, <1>12 DEF Retry
    <2> QED  BY <1>1, <1>12, <2>1, <2>2, <2>3, <2>4 DEF Retry
  <1>13. CASE NextPressed
    <2>1. page.work \in Output
      BY <1>3, <1>13 DEF NextPressed, None
    <2>2. page.presses + 1 \in 0..MaxPresses
      BY <1>3, <1>2, <1>13 DEF NextPressed
    <2>3. page' \in PageType
      BY <1>1, <2>2, <1>13 DEF NextPressed, PageType
    <2>4. reports' \in Seq(Output)
      BY <1>1, <1>13, <2>1, AppendProperties DEF NextPressed
    <2> QED  BY <1>1, <1>13, <2>3, <2>4 DEF NextPressed
  <1>14. CASE BackPressed
    <2>1. page.presses + 1 \in 0..MaxPresses /\ page.backs + 1 \in 0..MaxBacks
      BY <1>3, <1>2, <1>14 DEF BackPressed
    <2>2. page' \in PageType
      BY <1>1, <1>14, <2>1 DEF BackPressed, PageType
    <2> QED  BY <1>1, <1>14, <2>2 DEF BackPressed
  <1>15. CASE Reload
    <2>1. fetch' \in SUBSET BOOLEAN /\ reply' = {}
      BY <1>15 DEF Reload, Forsake
    <2>2. calls' \in Seq(CallType)
      <3>1. calls' = Append(Forsaken, Call(TRUE))
        BY <1>15 DEF Reload
      <3> QED  BY <1>1, <1>4, <3>1, ForsakenTyped, AppendProperties
    <2>3. page' \in PageType
      <3>1. page.loads + 1 \in 1..MaxLoads
        BY <1>3, <1>2, <1>15 DEF Reload
      <3>2. page' = [loads |-> page.loads + 1, awaits |-> TRUE, restore |-> TRUE, work |-> None,
                     presses |-> 0, loading |-> TRUE, backs |-> page.backs, lossy |-> FALSE,
                     ended |-> FALSE]
        BY <1>15 DEF Reload, NewPage
      <3> QED  BY <1>3, <1>2, <3>1, <3>2 DEF PageType
    <2> QED  BY <1>1, <1>15, <2>1, <2>2, <2>3 DEF Reload
  <1> QED  BY <1>6, <1>7, <1>8, <1>9, <1>10, <1>11, <1>12, <1>13, <1>14, <1>15
           DEF Next, Serve, User

------------------------------------------------------------------------------
(* The question that waits. *)

\* Every step keeps what is saved restorable.
LEMMA RestorableKept ==
  ASSUME IInv, [Next]_vars
  PROVE  Restorable'
  <1> SUFFICES ASSUME Len(runs') = 1
               PROVE  DOMAIN runs' = {1} /\ (runs'[1].at = "waits" => last' = runs'[1].asks)
    BY DEF Restorable, Waiting
  <1>0. /\ runs \in Seq(Greenlet) /\ Len(runs) = 1 /\ DOMAIN runs = {1}
        /\ runs[1] \in Greenlet
        /\ runs' \in Seq(Greenlet) /\ DOMAIN runs' = {1}
        /\ (runs[1].at = "waits" => last = runs[1].asks)
    <2>1. runs \in Seq(Greenlet) /\ runs # <<>>
      BY DEF IInv, TypeOK, Greenlet
    <2>2. Len(runs) \in Nat \ {0}
      BY <2>1, EmptySeq
    <2>3. runs' \in Seq(Greenlet) /\ Len(runs) = 1
      <3>1. runs' \in Seq(Greenlet) /\ Len(runs') >= Len(runs)
        BY RunsKept
      <3>2. Len(runs') = 1
        OBVIOUS
      <3> QED  BY <2>2, <3>1, <3>2
    <2>4. DOMAIN runs = {1} /\ DOMAIN runs' = {1} /\ runs[1] \in Greenlet
      BY <2>1, <2>3, ElementOfSeq
    <2> QED  BY <2>1, <2>3, <2>4 DEF IInv, Restorable, Waiting
  <1>1. ASSUME NEW r \in DOMAIN runs, Send(r)
        PROVE  runs'[1].at = "waits" => last' = runs'[1].asks
    <2>1. r = 1
      BY <1>0
    <2>2. /\ last' = OutputOf(Head(runs[1].todo))
          /\ runs' = [runs EXCEPT ![1] =
                [todo |-> Tail(@.todo),
                 at |-> IF Waits(Head(runs[1].todo)) THEN "waits"
                        ELSE IF Head(runs[1].todo) = "end" THEN "over" ELSE "runs",
                 asks |-> IF Waits(Head(runs[1].todo)) THEN OutputOf(Head(runs[1].todo)) ELSE None]]
      BY <1>1, <2>1 DEF Send, SendData, Remember
    <2> QED  BY <1>0, <2>2
  <1>2. ASSUME NEW r \in DOMAIN runs, Take(r) \/ StepEnds(r) \/ Raise(r)
        PROVE  runs'[1].at # "waits"
    <2>1. r = 1
      BY <1>0
    <2>2. CASE Take(r)
      BY <1>0, <2>1, <2>2 DEF Take, Greenlet
    <2>3. CASE StepEnds(r)
      <3>1. CASE LastStep
        BY <1>0, <2>1, <2>3, <3>1 DEF StepEnds, Greenlet
      <3>2. CASE ~LastStep
        BY <1>0, <2>1, <2>3, <3>2 DEF StepEnds, Run
      <3> QED  BY <3>1, <3>2
    <2>4. CASE Raise(r)
      BY <1>0, <2>1, <2>4 DEF Raise, Greenlet
    <2> QED  BY <1>2, <2>2, <2>3, <2>4
  <1>3. CASE GoBack
    BY <1>0, <1>3 DEF GoBack, Kill
  <1>4. CASE Respawn
    <2> DEFINE kept == IF Last(runs).at = "over" THEN Front(runs) ELSE runs
    <2>1. kept \in Seq(Greenlet)
      <3>1. runs # <<>>
        BY DEF IInv
      <3> QED  BY <1>0, <3>1, Parts
    <2>2. Run(step) \in Greenlet
      BY Scripted DEF IInv, TypeOK
    <2>3. runs' = Append(kept, Run(step))
      BY <1>4 DEF Respawn
    <2> HIDE DEF kept
    <2>4. Len(runs') = Len(kept) + 1 /\ runs'[Len(kept) + 1] = Run(step) /\ Len(kept) \in Nat
      BY <2>1, <2>2, <2>3, AppendProperties
    <2>5. runs'[1] = Run(step)
      BY <2>4
    <2> QED  BY <2>5 DEF Run
  <1>5. CASE UNCHANGED <<runs, last>>
    BY <1>0, <1>5
  <1>6. ASSUME NEW i \in DOMAIN reports, Report(i)
        PROVE  UNCHANGED <<runs, last>>
    BY <1>6 DEF Report
  <1>7. CASE GetWork \/ Fetched \/ Receive \/ Retry \/ User \/ UNCHANGED vars
    BY <1>5, <1>7 DEF GetWork, Fetched, Receive, Retry, User, NextPressed, BackPressed, Reload,
       bot, vars
  <1> QED  BY <1>0, <1>1, <1>2, <1>3, <1>4, <1>5, <1>6, <1>7 DEF Next, BotStep, Serve

\* Every step keeps the invariant.
LEMMA Inductive ==
  ASSUME IInv, [Next]_vars
  PROVE  IInv'
  <1>1. TypeOK'
    BY RunsKept, BotKept, PageKept DEF TypeOK, Greenlet, CallType, PageType
  <1>2. runs' # <<>>
    <2>1. Len(runs') >= 1
      BY RunsKept, EmptySeq DEF IInv, TypeOK
    <2>2. Len(<<>>) = 0
      OBVIOUS
    <2> QED  BY <2>1, <2>2
  <1> QED  BY <1>1, <1>2, RestorableKept DEF IInv

\* The invariant holds in every state.
LEMMA Invariant == Spec => []IInv
  <1>1. Init => IInv
    BY TypeInit DEF IInv
  <1>2. IInv /\ [Next]_vars => IInv'
    BY Inductive
  <1> QED  BY <1>1, <1>2, PTL DEF Spec

\* Every variable keeps its type in every chatflow: go_back never leaves the
\* first step for the one before it, and the steps never run past the last.
THEOREM TypeCorrect == Spec => []TypeOK
  <1>1. IInv => TypeOK
    BY DEF IInv
  <1> QED  BY <1>1, Invariant, PTL

\* _last_output is the question that waits, so get_work with restore gives it to
\* a page that comes back.
THEOREM ComesBack == Spec => []Restorable
  <1>1. IInv => Restorable
    BY DEF IInv
  <1> QED  BY <1>1, Invariant, PTL

------------------------------------------------------------------------------
(* The turn. *)

\* A session begins with one turn.
LEMMA TurnsInit == Init => Turns
  <1> SUFFICES ASSUME Init PROVE OneTurn
    BY DEF Turns
  <1>1. runs = <<Run(1)>> /\ runs[1].at = "runs" /\ Len(runs) = 1
    BY DEF Init, Run
  <1>2. ~page.restore /\ \A i \in DOMAIN calls : ~calls[i].restore
    BY DEF Init, NewPage
  <1>3. page.work.kind = "none"
    BY DEF Init, NewPage, None
  <1>4. TurnOf("greenlet")
    BY <1>1, <1>3 DEF Init, TurnOf
  <1> QED  BY <1>1, <1>2, <1>4 DEF OneTurn, Holder

\* Whatever a step does, the turn goes to one place, as long as each question is
\* answered once.
LEMMA TurnsKept ==
  ASSUME IInv, MaxPresses = 1, Turns, [Next]_vars
  PROVE  Turns'
  <1>1. /\ runs \in Seq(Greenlet) /\ qout \in Seq(Output) /\ qin \in Seq(Output)
        /\ reports \in Seq(Output) /\ calls \in Seq(CallType) /\ reply \subseteq Output
        /\ backs \in Nat /\ respawns \in Nat
    BY DEF IInv, TypeOK, Greenlet, CallType
  <1>2. page \in PageType /\ page.loads \in Nat /\ page.loads >= 1 /\ page.presses \in 0..1
    BY ChatAssumption DEF IInv, TypeOK, PageType, ChatAssumption
  <1>3. page'.loads = 1 => page.loads = 1 /\ ~Reload
    <2>1. Reload => page'.loads = page.loads + 1
      BY DEF Reload, NewPage
    <2>2. ASSUME UNCHANGED page PROVE page'.loads = page.loads
      BY <2>2
    <2>3. ASSUME Receive PROVE page'.loads = page.loads
      <3>1. PICK out \in reply : page' = [page EXCEPT
                  !.loading = FALSE, !.restore = FALSE,
                  !.awaits = (out.kind # "end"), !.ended = (out.kind = "end"),
                  !.work = IF out.kind \in {"end", "user"} THEN @ ELSE out,
                  !.presses = IF out.kind \in {"end", "user"} THEN @ ELSE 0]
        BY <2>3 DEF Receive
      <3> QED  BY <1>2, <3>1 DEF PageType
    <2>4. ASSUME Retry \/ NextPressed \/ BackPressed PROVE page'.loads = page.loads
      BY <1>2, <2>4 DEF Retry, NextPressed, BackPressed, PageType
    <2>5. ASSUME NEW i \in DOMAIN reports, Report(i)
          PROVE  UNCHANGED page
      BY <2>5 DEF Report
    <2>6. ASSUME BotStep \/ GoBack \/ Respawn \/ GetWork \/ Fetched \/ UNCHANGED vars
          PROVE  page'.loads = page.loads
      BY <2>6 DEF BotStep, Send, Take, StepEnds, Raise, GoBack, Respawn, GetWork, Fetched, vars
    <2>7. Reload \/ page'.loads = page.loads
      BY <2>2, <2>3, <2>4, <2>5, <2>6 DEF Next, Serve, User
    <2> QED  BY <1>2, <2>1, <2>7
  <1> SUFFICES ASSUME page'.loads = 1 PROVE OneTurn'
    BY DEF Turns
  <1>4. /\ Len(runs) = 1 /\ DOMAIN runs = {1} /\ runs[1] \in Greenlet
        /\ ~page.restore /\ \A i \in DOMAIN calls : ~calls[i].restore
    <2>1. OneTurn
      BY <1>3 DEF Turns
    <2>2. DOMAIN runs = {1} /\ runs[1] \in Greenlet
      BY <1>1, <2>1, ElementOfSeq DEF OneTurn
    <2> QED  BY <2>1, <2>2 DEF OneTurn
  <1>5. PICK h \in Holder : TurnOf(h)
    BY <1>3 DEF Turns, OneTurn
  <1>6. ASSUME NEW r \in DOMAIN runs, Send(r) PROVE OneTurn'
    <2>1. r = 1
      BY <1>4
    <2> DEFINE kind == Head(runs[1].todo)
               out == OutputOf(kind)
               x == [todo |-> Tail(runs[1].todo),
                     at |-> IF Waits(kind) THEN "waits" ELSE IF kind = "end" THEN "over" ELSE "runs",
                     asks |-> IF Waits(kind) THEN out ELSE None]
               g == IF Waits(kind) THEN "queue" ELSE "greenlet"
    <2>2. /\ runs' = [runs EXCEPT ![1] = x] /\ qout' = Append(qout, out)
          /\ UNCHANGED <<respawns, qin, net, page>> /\ runs[1].at = "runs"
      BY <1>6, <2>1 DEF Send, SendData
    <2>3. out.kind = kind /\ out \in Output
      <3>1. runs[1].todo \in Seq(Kind) /\ runs[1].todo # <<>>
        BY <1>4, <1>6, <2>1 DEF Send, Greenlet
      <3>2. kind \in Kind
        BY <3>1, Parts
      <3> QED  BY <3>2, OutputTyped DEF IInv, OutputOf
    <2>4. /\ x.at = "waits" => x.asks = out
          /\ x.at = "runs" => g = "greenlet"
          /\ kind \in Answered => g = "queue"
      BY DEF Waits, Answered
    <2> HIDE DEF kind, out, x, g
    <2>5. Len(runs') = 1 /\ runs'[1] = x
      BY <1>1, <1>4, <2>2
    <2>6. Len(qout') = Len(qout) + 1 /\ Len(qout) \in Nat /\ qout'[Len(qout) + 1] = out
          /\ \A i \in 1..Len(qout) : qout'[i] = qout[i]
      BY <1>1, <2>2, <2>3, AppendProperties
    <2>7. h = "greenlet" /\ \A i \in DOMAIN qout : qout[i].kind \notin Answered
      BY <1>5, <2>2 DEF TurnOf
    <2>8. DOMAIN qout = 1..Len(qout) /\ DOMAIN qout' = 1..(Len(qout) + 1)
      BY <1>1, <2>2, <2>3, <2>6
    <2>9. \A i \in DOMAIN qout' : qout'[i].kind \in Answered =>
             i = Len(qout) + 1 /\ qout'[i] = out /\ g = "queue"
      BY <2>3, <2>4, <2>6, <2>7, <2>8
    <2>10. PICK k \in Holder : k = g
      BY DEF g, Holder
    <2>11. TurnOf(k)'
      <3>1. /\ x.at = "waits" => x.asks = out
            /\ x.at = "runs" => k = "greenlet"
            /\ \A i \in DOMAIN qout' : qout'[i].kind \in Answered =>
                 i = Len(qout) + 1 /\ qout'[i] = out /\ k = "queue"
        BY <2>4, <2>9, <2>10
      <3>2. runs'[1].at = "runs" => k = "greenlet"
        BY <2>5, <3>1
      <3>3. \A i \in DOMAIN qout' : qout'[i].kind \in Answered =>
               /\ k = "queue" /\ Asks(qout[i])'
               /\ \A j \in DOMAIN qout' : qout'[j].kind \in Answered => i = j
        BY <2>5, <3>1 DEF Asks
      <3> QED  BY <1>5, <2>2, <2>7, <3>2, <3>3 DEF TurnOf, net
    <2> QED  BY <1>4, <2>2, <2>5, <2>11 DEF OneTurn, net
  <1>7. ASSUME NEW r \in DOMAIN runs, Take(r) PROVE OneTurn'
    <2>1. r = 1
      BY <1>4
    <2>2. /\ runs' = [runs EXCEPT ![1] = [runs[1] EXCEPT !.at = "runs", !.asks = None]]
          /\ qin # <<>> /\ qin' = Tail(qin) /\ UNCHANGED <<respawns, qout, net, page>>
      BY <1>7, <2>1 DEF Take
    <2>3. Len(runs') = 1 /\ runs'[1].at = "runs"
      BY <1>1, <1>4, <2>2 DEF Greenlet
    <2>4. h = "answer" /\ Len(qin) = 1
      BY <1>5, <2>2 DEF TurnOf
    <2>5. qin' = <<>>
      BY <1>1, <2>2, <2>4
    <2>6. TurnOf("greenlet")'
      BY <1>5, <2>2, <2>3, <2>4, <2>5 DEF TurnOf, Asks, net
    <2> QED  BY <1>4, <2>2, <2>3, <2>6 DEF OneTurn, net, Holder
  <1>8. ASSUME NEW r \in DOMAIN runs, StepEnds(r) PROVE OneTurn'
    <2>1. r = 1 /\ runs[1].at = "runs"
      BY <1>4, <1>8 DEF StepEnds
    <2>2. h = "greenlet"
      BY <1>5, <2>1 DEF TurnOf
    <2>3. UNCHANGED <<respawns, qin, net, page>>
      BY <1>8 DEF StepEnds
    <2>4. CASE LastStep
      <3> DEFINE out == OutputOf("end")
      <3>1. qout' = Append(qout, out) /\ runs' = [runs EXCEPT ![1] = [runs[1] EXCEPT !.at = "over"]]
        BY <1>8, <2>1, <2>4 DEF StepEnds, SendData
      <3>2. out.kind \notin Answered /\ out \in Output
        BY OutputTyped DEF OutputOf, Kind, IInv, Answered
      <3> HIDE DEF out
      <3>3. Len(runs') = 1 /\ runs'[1].at = "over"
        BY <1>1, <1>4, <3>1 DEF Greenlet
      <3>4. Len(qout') = Len(qout) + 1 /\ Len(qout) \in Nat /\ qout'[Len(qout) + 1] = out
            /\ \A i \in 1..Len(qout) : qout'[i] = qout[i]
        BY <1>1, <3>1, <3>2, AppendProperties
      <3>5. DOMAIN qout = 1..Len(qout) /\ DOMAIN qout' = 1..(Len(qout) + 1)
        BY <1>1, <3>1, <3>2, <3>4
      <3>6. \A i \in DOMAIN qout : qout[i].kind \notin Answered
        BY <1>5, <2>2 DEF TurnOf
      <3>7. \A i \in DOMAIN qout' : qout'[i].kind \notin Answered
        BY <3>2, <3>4, <3>5, <3>6
      <3>8. TurnOf(h)'
        BY <1>5, <2>2, <2>3, <3>3, <3>7 DEF TurnOf, Asks, net
      <3> QED  BY <1>4, <1>5, <2>3, <3>3, <3>8 DEF OneTurn, net
    <2>5. CASE ~LastStep
      <3>1. runs' = [runs EXCEPT ![1] = Run(step + 1)] /\ UNCHANGED qout
        BY <1>8, <2>1, <2>5 DEF StepEnds
      <3>2. Len(runs') = 1 /\ runs'[1].at = "runs"
        BY <1>1, <1>4, <3>1 DEF Run
      <3>3. TurnOf(h)'
        BY <1>5, <2>2, <2>3, <3>1, <3>2 DEF TurnOf, Asks, net
      <3> QED  BY <1>4, <1>5, <2>3, <3>2, <3>3 DEF OneTurn, net
    <2> QED  BY <2>4, <2>5
  <1>9. ASSUME NEW r \in DOMAIN runs, Raise(r) PROVE OneTurn'
    <2>1. r = 1 /\ runs[1].at = "runs" /\ UNCHANGED <<respawns, qout, qin, net, page>>
      BY <1>4, <1>9 DEF Raise
    <2>2. PICK todo : runs' = [runs EXCEPT ![1] = [runs[1] EXCEPT !.todo = todo]]
      BY <1>9, <2>1 DEF Raise
    <2>3. Len(runs') = 1 /\ runs'[1].at = "runs"
      BY <1>1, <1>4, <2>1, <2>2 DEF Greenlet
    <2>4. h = "greenlet"
      BY <1>5, <2>1 DEF TurnOf
    <2>5. TurnOf(h)'
      BY <1>5, <2>1, <2>3, <2>4 DEF TurnOf, Asks, net
    <2> QED  BY <1>4, <1>5, <2>1, <2>3, <2>5 DEF OneTurn, net
  <1>10. CASE GoBack
    <2>1. /\ backs > 0 /\ backs' = backs - 1
          /\ UNCHANGED <<slide, last, qout, qin, fetch, calls, reply, reports, page, faults>>
      BY <1>10 DEF GoBack
    <2>2. h = "back" /\ backs' = 0 /\ respawns = 0
      BY <1>1, <1>5, <2>1 DEF TurnOf
    <2>3. CASE UNCHANGED <<runs, respawns>>
      <3>1. TurnOf(h)'
        BY <1>5, <2>1, <2>2, <2>3 DEF TurnOf, Asks
      <3> QED  BY <1>4, <1>5, <2>1, <2>3, <3>1 DEF OneTurn
    <2>4. CASE runs' = Kill(runs) /\ respawns' = respawns + 1
      <3>1. Len(runs') = 1 /\ runs'[1].at = "over"
        BY <1>1, <1>4, <2>4 DEF Kill
      <3>2. TurnOf("respawn")'
        BY <1>5, <2>1, <2>2, <2>4, <3>1 DEF TurnOf, Asks
      <3> QED  BY <1>4, <2>1, <3>1, <3>2 DEF OneTurn, Holder
    <2>5. UNCHANGED <<runs, respawns>> \/ (runs' = Kill(runs) /\ respawns' = respawns + 1)
      BY <1>10 DEF GoBack
    <2> QED  BY <2>3, <2>4, <2>5
  <1>11. CASE Respawn
    <2>1. /\ respawns > 0 /\ respawns' = respawns - 1
          /\ runs' = Append(IF Last(runs).at = "over" THEN Front(runs) ELSE runs, Run(step))
          /\ UNCHANGED <<qout, qin, net, page>>
      BY <1>11 DEF Respawn
    <2>2. h = "respawn" /\ respawns' = 0 /\ runs[1].at = "over"
      BY <1>1, <1>5, <2>1 DEF TurnOf
    <2>3. runs' = <<Run(step)>>
      <3>1. runs # <<>>
        BY DEF IInv
      <3>2. Last(runs) = runs[1] /\ Front(runs) \in Seq(Greenlet) /\ Len(Front(runs)) = 0
        <4>1. /\ Last(runs) = runs[Len(runs)] /\ Front(runs) \in Seq(Greenlet)
              /\ Len(Front(runs)) = Len(runs) - 1
          BY <1>1, <3>1, Parts
        <4> QED  BY <1>4, <4>1
      <3>3. Front(runs) = <<>>
        BY <3>2, EmptySeq
      <3> QED  BY <2>1, <2>2, <3>2, <3>3
    <2>4. Len(runs') = 1 /\ runs'[1].at = "runs"
      BY <2>3 DEF Run
    <2>5. TurnOf("greenlet")'
      BY <1>5, <2>1, <2>2, <2>4 DEF TurnOf, Asks, net
    <2> QED  BY <1>4, <2>1, <2>4, <2>5 DEF OneTurn, net, Holder
  <1>12. ASSUME NEW i \in DOMAIN reports, Report(i) PROVE OneTurn'
    <2>1. /\ qin' = Append(qin, reports[i]) /\ reports' = RemoveAt(reports, i)
          /\ UNCHANGED <<runs, respawns, qout, calls, reply, backs, page>>
      BY <1>12 DEF Report
    <2>2. h = "report" /\ Len(reports) = 1 /\ Asks(reports[1]) /\ qin = <<>> /\ i = 1
      <3>1. reports # <<>>
        BY <1>12
      <3> QED  BY <1>1, <1>5, <1>12, <3>1 DEF TurnOf
    <2>3. reports' = <<>>
      <3>1. reports' \in Seq(Output) /\ Len(reports') = 0
        <4>1. /\ RemoveAt(reports, i) \in Seq(Output)
              /\ Len(RemoveAt(reports, i)) = Len(reports) - 1
          BY <1>1, <1>12, Removed
        <4> QED  BY <2>1, <2>2, <4>1
      <3> QED  BY <3>1, EmptySeq
    <2>4. qin' = <<reports[1]>> /\ Len(qin') = 1 /\ qin'[1] = reports[1]
      BY <2>1, <2>2
    <2>5. TurnOf("answer")'
      BY <1>5, <2>1, <2>2, <2>3, <2>4 DEF TurnOf, Asks
    <2> QED  BY <1>4, <2>1, <2>5 DEF OneTurn, Holder
  <1>13. CASE GetWork
    <2>1. calls # <<>> /\ calls' = Tail(calls) /\ UNCHANGED <<bot, reports, backs, page>>
      BY <1>13 DEF GetWork
    <2>2. Head(calls) = calls[1] /\ 1 \in DOMAIN calls
      BY <1>1, <2>1, Parts
    <2>3. UNCHANGED reply
      BY <1>4, <1>13, <2>2 DEF GetWork
    <2>4. \A i \in DOMAIN calls' : ~calls'[i].restore
      BY <1>1, <1>4, <2>1
    <2>5. TurnOf(h)'
      BY <1>5, <2>1, <2>3 DEF TurnOf, Asks, bot
    <2> QED  BY <1>4, <1>5, <2>1, <2>4, <2>5 DEF OneTurn, bot
  <1>14. CASE Fetched
    <2>1. /\ qout # <<>> /\ qout' = Tail(qout)
          /\ reply' = {Head(qout)} \/ UNCHANGED reply
          /\ UNCHANGED <<runs, respawns, qin, calls, reports, backs, page>>
      BY <1>14 DEF Fetched
    <2>2. Head(qout) = qout[1] /\ 1 \in DOMAIN qout
      BY <1>1, <2>1, Parts
    <2>3. /\ \A i \in DOMAIN qout' : i \in Nat /\ i + 1 \in DOMAIN qout /\ i + 1 # 1
                                    /\ qout'[i] = qout[i + 1]
          /\ \A i, j \in DOMAIN qout' : i + 1 = j + 1 => i = j
      BY <1>1, <2>1
    <2>4. CASE qout[1].kind \in Answered
      <3>1. h = "queue" /\ Asks(qout[1])
            /\ \A j \in DOMAIN qout : qout[j].kind \in Answered => j = 1
        BY <1>5, <2>2, <2>4 DEF TurnOf
      <3>2. \A i \in DOMAIN qout' : qout'[i].kind \notin Answered
        BY <2>3, <3>1
      <3>3. TurnOf("reply")'
        BY <1>5, <2>1, <2>2, <3>1, <3>2 DEF TurnOf, Asks
      <3> QED  BY <1>4, <2>1, <3>3 DEF OneTurn, Holder
    <2>5. CASE qout[1].kind \notin Answered
      <3>1. \A out \in reply' : out.kind \in Answered =>
               h = "reply" /\ Asks(out)' /\ (\A x \in reply' : x = out)
        BY <1>5, <2>1, <2>2, <2>5 DEF TurnOf, Asks
      <3>2. \A i \in DOMAIN qout' : qout'[i].kind \in Answered =>
               /\ h = "queue" /\ Asks(qout'[i])
               /\ \A j \in DOMAIN qout' : qout'[j].kind \in Answered => i = j
        BY <1>5, <2>3 DEF TurnOf
      <3>3. TurnOf(h)'
        BY <1>5, <2>1, <3>1, <3>2 DEF TurnOf, Asks
      <3> QED  BY <1>4, <1>5, <2>1, <3>3 DEF OneTurn
    <2> QED  BY <2>4, <2>5
  <1>15. CASE Receive
    <2>1. PICK out \in reply :
             /\ reply' = {}
             /\ page' = [page EXCEPT
                  !.loading = FALSE, !.restore = FALSE,
                  !.awaits = (out.kind # "end"), !.ended = (out.kind = "end"),
                  !.work = IF out.kind \in {"end", "user"} THEN @ ELSE out,
                  !.presses = IF out.kind \in {"end", "user"} THEN @ ELSE 0]
             /\ reports' = IF out.kind = "user" THEN Append(reports, out) ELSE reports
             /\ calls' = IF out.kind = "end" THEN calls ELSE Append(calls, Call(FALSE))
             /\ UNCHANGED <<bot, backs>>
      BY <1>15 DEF Receive
    <2>2. /\ ~page'.restore
          /\ page'.work = IF out.kind \in {"end", "user"} THEN page.work ELSE out
          /\ page'.presses = IF out.kind \in {"end", "user"} THEN page.presses ELSE 0
      BY <1>2, <2>1 DEF PageType
    <2>3. \A i \in DOMAIN calls' : ~calls'[i].restore
      <3>1. CASE out.kind = "end"
        BY <1>4, <2>1, <3>1
      <3>2. CASE out.kind # "end"
        <4> DEFINE c == Call(FALSE)
        <4>1. c \in CallType /\ ~c.restore
          BY DEF Call, CallType
        <4>2. calls' = Append(calls, c)
          BY <2>1, <3>2
        <4> HIDE DEF c
        <4> QED  BY <1>1, <1>4, <4>1, <4>2
      <3> QED  BY <3>1, <3>2
    <2>4. CASE out.kind = "user"
      <3>1. h = "reply" /\ Asks(out) /\ reports = <<>>
        BY <1>5, <2>4 DEF TurnOf, Answered
      <3>2. reports' = <<out>> /\ Len(reports') = 1 /\ reports'[1] = out
        BY <2>1, <2>4, <3>1
      <3>3. page'.work = page.work /\ page'.presses = page.presses
        BY <2>2, <2>4
      <3>4. TurnOf("report")'
        BY <1>5, <2>1, <3>1, <3>2, <3>3 DEF TurnOf, Asks, bot
      <3> QED  BY <1>4, <2>1, <2>2, <2>3, <3>4 DEF OneTurn, Holder, bot
    <2>5. CASE out.kind = "ask"
      <3>1. h = "reply" /\ Asks(out)
        BY <1>5, <2>5 DEF TurnOf, Answered
      <3>2. page'.work = out /\ reports' = reports
        BY <2>1, <2>2, <2>5
      <3>3. TurnOf("page")'
        BY <1>5, <2>1, <3>1, <3>2 DEF TurnOf, Asks, bot
      <3> QED  BY <1>4, <2>1, <2>2, <2>3, <3>3 DEF OneTurn, Holder, bot
    <2>6. CASE out.kind \notin {"user", "ask"}
      <3>1. reports' = reports
        BY <2>1, <2>6
      <3>2. page'.work.kind = "ask" /\ page'.presses = 0 =>
               page'.work = page.work /\ page.work.kind = "ask" /\ page.presses = 0
        BY <2>2, <2>6
      <3>3. TurnOf(h)'
        BY <1>5, <2>1, <3>1, <3>2 DEF TurnOf, Asks, bot
      <3> QED  BY <1>4, <1>5, <2>1, <2>2, <2>3, <3>3 DEF OneTurn, bot
    <2> QED  BY <2>4, <2>5, <2>6
  <1>16. CASE Retry
    <2>1. /\ reply' = {} /\ page' = [page EXCEPT !.lossy = TRUE]
          /\ calls' = Append(Forsaken, Call(page.restore)) /\ UNCHANGED <<bot, reports, backs>>
      BY <1>16 DEF Retry, Forsake
    <2>2. page'.restore = page.restore /\ page'.work = page.work /\ page'.presses = page.presses
      BY <1>2, <2>1 DEF PageType
    <2>3. \A i \in DOMAIN calls' : ~calls'[i].restore
      <3> DEFINE c == Call(page.restore)
      <3>1. c \in CallType /\ ~c.restore
        BY <1>2, <1>4 DEF Call, CallType, PageType
      <3>2. calls' = Append(Forsaken, c)
        BY <2>1
      <3> HIDE DEF c
      <3>3. /\ Forsaken \in Seq(CallType)
            /\ \A i \in DOMAIN Forsaken : ~Forsaken[i].restore
        BY <1>1, <1>4, ForsakenTyped
      <3> QED  BY <3>1, <3>2, <3>3
    <2>4. TurnOf(h)'
      BY <1>5, <2>1, <2>2 DEF TurnOf, Asks, bot
    <2> QED  BY <1>4, <1>5, <2>1, <2>2, <2>3, <2>4 DEF OneTurn, bot
  <1>17. CASE NextPressed
    <2>1. /\ page.work.kind = "ask" /\ page.presses < MaxPresses
          /\ reports' = Append(reports, page.work)
          /\ page' = [page EXCEPT !.presses = @ + 1, !.loading = TRUE]
          /\ UNCHANGED <<bot, calls, reply, backs>>
      BY <1>17 DEF NextPressed
    <2>2. h = "page" /\ Asks(page.work) /\ reports = <<>>
      BY <1>2, <1>5, <2>1 DEF TurnOf
    <2>3. page'.restore = page.restore /\ page'.presses # 0
      BY <1>2, <2>1 DEF PageType
    <2>4. reports' = <<page.work>> /\ Len(reports') = 1 /\ reports'[1] = page.work
      BY <2>1, <2>2
    <2>5. TurnOf("report")'
      BY <1>5, <2>1, <2>2, <2>3, <2>4 DEF TurnOf, Asks, bot
    <2> QED  BY <1>4, <2>1, <2>3, <2>5 DEF OneTurn, Holder, bot
  <1>18. CASE BackPressed
    <2>1. /\ page.work.kind = "ask" /\ page.presses < MaxPresses
          /\ backs' = backs + 1
          /\ page' = [page EXCEPT !.presses = @ + 1, !.backs = @ + 1]
          /\ UNCHANGED <<bot, calls, reply, reports>>
      BY <1>18 DEF BackPressed
    <2>2. h = "page" /\ backs' = 1
      BY <1>1, <1>2, <1>5, <2>1 DEF TurnOf
    <2>3. page'.restore = page.restore /\ page'.presses # 0
      BY <1>2, <2>1 DEF PageType
    <2>4. TurnOf("back")'
      BY <1>5, <2>1, <2>2, <2>3 DEF TurnOf, Asks, bot
    <2> QED  BY <1>4, <2>1, <2>3, <2>4 DEF OneTurn, Holder, bot
  <1>19. CASE UNCHANGED vars
    <2>1. TurnOf(h)'
      BY <1>5, <1>19 DEF TurnOf, Asks, vars, bot, net
    <2> QED  BY <1>4, <1>5, <1>19, <2>1 DEF OneTurn, vars, bot, net
  <1> QED  BY <1>3, <1>6, <1>7, <1>8, <1>9, <1>10, <1>11, <1>12, <1>13, <1>14, <1>15, <1>16, <1>17,
              <1>18, <1>19 DEF Next, BotStep, Serve, User

\* The invariant holds in every state, and for a user who presses once so do the turns.
LEMMA TurnsAlways == MaxPresses = 1 /\ Spec => [](IInv /\ Turns)
  <1> DEFINE J == MaxPresses = 1 /\ IInv /\ Turns
  <1>1. MaxPresses = 1 /\ Init => J
    BY TypeInit, TurnsInit DEF IInv
  <1>2. J /\ [Next]_vars => J'
    BY Inductive, TurnsKept
  <1>3. J => IInv /\ Turns
    OBVIOUS
  <1> QED  BY <1>1, <1>2, <1>3, PTL DEF Spec

\* A user who presses one button for each question has one greenlet that runs the
\* steps, however the calls overtake each other: go_back never starts a greenlet
\* beside one that was not killed.
THEOREM OneAtATime == MaxPresses = 1 /\ Spec => []Alone
  <1>1. Turns => Alone
    BY DEF Turns, OneTurn, Alone, AtMostOne
  <1> QED  BY <1>1, TurnsAlways, PTL

\* And each question gets the answer that was typed for it, though answers go
\* through a queue that does not know the questions.
THEOREM RightAnswers == MaxPresses = 1 /\ Spec => AnswersMatch
  <1> DEFINE A == page.loads = 1 =>
                    \A r \in Waiting : r \in DOMAIN runs' /\ runs'[r].at = "runs" /\ qin' # qin
                                         => Head(qin) = runs[r].asks
  <1>1. IInv /\ Turns /\ [Next]_vars => [A]_vars
    <2> SUFFICES ASSUME IInv, Turns, Next, page.loads = 1,
                        NEW r \in Waiting, r \in DOMAIN runs', runs'[r].at = "runs", qin' # qin
                 PROVE  Head(qin) = runs[r].asks
      OBVIOUS
    <2>1. Len(runs) = 1 /\ r = 1 /\ runs[1].at = "waits"
      BY DEF IInv, TypeOK, Turns, OneTurn, Waiting
    <2>2. qin # <<>>
      <3>1. ASSUME NEW i \in DOMAIN reports, Report(i) PROVE FALSE
        BY <2>1, <3>1 DEF Report
      <3>2. \A q \in DOMAIN runs : q = 1
        BY <2>1 DEF IInv, TypeOK
      <3>3. PICK q \in DOMAIN runs : Take(q)
        BY <2>1, <3>1 DEF Next, BotStep, Serve, User, Send, StepEnds, Raise, GoBack, Respawn, GetWork,
           Fetched, Receive, Retry, NextPressed, BackPressed, Reload, bot
      <3> QED  BY <3>3 DEF Take
    <2>3. qin[1] = runs[1].asks
      BY <2>1, <2>2 DEF Turns, OneTurn, TurnOf, Asks
    <2>4. Head(qin) = qin[1]
      BY <2>2, Parts DEF IInv, TypeOK
    <2> QED  BY <2>1, <2>3, <2>4
  <1> QED  BY <1>1, TurnsAlways, PTL DEF Spec, AnswersMatch
=============================================================================
