--------------------------- MODULE PipelineProofs ---------------------------
(***************************************************************************)
(* Proofs about Pipeline, for every router, every request and every code   *)
(* of an error: handle() keeps the promise of Exchange.                    *)
(***************************************************************************)
EXTENDS Pipeline, TLAPS

Setup == {"new", "broken", "idle"}
Locating == {"lookup", "walk", "select"}

(* What the answer depends on, by the place handle() stands at: nothing is  *)
(* decided before "result", nothing goes out before "over", and nothing is  *)
(* left of the last request when the next one comes.                        *)
PInv ==
  /\ PipeTypeOK /\ router \in Routers
  /\ at \in Setup \cup Locating \cup Answered
  /\ stage \in {"off", "controller", "after"} => result = Nil
  /\ stage # "over" => out = Nil
  /\ stage = "result" => result # Nil
  /\ stage = "off" /\ at # "found" => told = FALSE

-----------------------------------------------------------------------------
(* Building the router moves it towards "idle" and touches nothing else. *)
LEMMA BuildMoves ==
  ASSUME BuildStep
  PROVE  at = "new" /\ at' \in Setup /\ UNCHANGED router
  BY DEF BuildStep, OmittedVar, Plant, Fill, SetFill, LinkPanics, Link, Close, Ready,
         Building, Grown, built, Setup

(* locate() moves a request towards one of the answers. *)
LEMMA StepMoves ==
  ASSUME Step
  PROVE  at \in Locating /\ at' \in Locating \cup Answered /\ UNCHANGED router
<1>1. Lookup => at \in Locating /\ at' \in Locating \cup Answered /\ UNCHANGED router
  BY DEF Lookup, built, Locating, Answered
<1>2. \A b, f, s : Target(b, f, s) => at' \in Locating \cup Answered /\ UNCHANGED router
  BY DEF Target, built, Locating, Answered
<1>3. Finish \/ TakeRest => at \in Locating /\ at' \in Locating \cup Answered /\ UNCHANGED router
  BY <1>2 DEF Finish, TakeRest, Walking, Locating
<1>4. Descend \/ OutOfBounds \/ BranchOut \/ NotFound
        => at \in Locating /\ at' \in Locating \cup Answered /\ UNCHANGED router
  BY DEF Descend, OutOfBounds, BranchOut, NotFound, Walking, built, Locating, Answered
<1>5. Select => at \in Locating /\ at' \in Locating \cup Answered /\ UNCHANGED router
  BY DEF Select, built, Locating, Answered
<1>6. QED  BY <1>1, <1>3, <1>4, <1>5 DEF Step

(* So does a request that arrives. *)
LEMMA ReceiveMoves ==
  ASSUME NEW raw, Receive(raw)
  PROVE  /\ at = "idle" /\ at' \in (Locating \cup Answered) \ {"panic"}
         /\ held' = TRUE
         /\ UNCHANGED <<router, stage, told, resp, seen, result, out>>
  BY DEF Receive, Locate, LocateId, built, Locating, Answered

LEMMA AnswersHaveForm ==
  ASSUME PInv, stage = "result", HandleResult
  PROVE  IF Responds THEN out' \in Answers ELSE out' = Nil
<1> USE DEF PInv, PipeTypeOK
<1>1. \A h \in {"none", "dto", "raw", "message", "unavailable"} : Into(h) \in Answers
  <2>1. proto \in {"http", "framed", "cli"}
    BY ProtosKnown DEF proto
  <2>2. \A h \in {"none", "dto", "raw", "message", "unavailable"} :
          IntoHttp(h) \in Answers /\ IntoMessage(h) \in Answers /\ IntoText(h) \in Answers
    BY DEF IntoHttp, IntoMessage, IntoText, Answers
  <2> QED  BY <2>1, <2>2 DEF Into
<1>2. \A h \in {"message", "unavailable"} : [Into(h) EXCEPT !.status = Status(result)] \in Answers
  <2>1. Status(result) \in 100..999
    BY DEF Status
  <2> QED  BY <1>1, <2>1 DEF Answers
<1>3. ToResponsible(result) \in {"message", "unavailable"}
  BY DEF ToResponsible
<1> QED  BY <1>1, <1>2, <1>3 DEF HandleResult

-----------------------------------------------------------------------------
LEMMA PInvInit == PipeInit => PInv
  BY DEF PipeInit, Init, BuildInit, PInv, PipeTypeOK, Setup

LEMMA PInvStep == PInv /\ [PipeNext]_pipeVars => PInv'
<1> SUFFICES ASSUME PInv, [PipeNext]_pipeVars  PROVE PInv'
  OBVIOUS
<1> USE DEF PInv, PipeTypeOK
<1>1. CASE Route
  <2>1. /\ at \in {"new"} \cup Locating /\ at' \in Setup \cup Locating \cup Answered
        /\ UNCHANGED router
    BY <1>1, BuildMoves, StepMoves DEF Route, Build
  <2>2. stage = "off"
    BY <2>1 DEF Locating
  <2> QED  BY <1>1, <2>1, <2>2 DEF Route, handleVars, Locating, Setup, Answered
<1>2. CASE NotRouted
  BY <1>2, NilIsApart DEF NotRouted, Fail, vars, built
<1>3. CASE Before
  BY <1>3, NilIsApart DEF Before, Fail, vars, built
<1>4. CASE ReadBody
  <2>1. /\ stage = "controller" /\ held' = FALSE /\ UNCHANGED <<at, router, told, resp, out>>
        /\ \/ UNCHANGED <<stage, result>>
           \/ stage' = "result" /\ result' = Closed
    BY <1>4 DEF ReadBody, Controls, Fail, vars, built
  <2>2. Closed \in Errors /\ Closed # Nil
    BY NilIsApart DEF Errors
  <2>3. CASE UNCHANGED <<stage, result>>
    BY <2>1, <2>3
  <2>4. CASE stage' = "result" /\ result' = Closed
    BY <2>1, <2>2, <2>4
  <2> QED  BY <2>1, <2>3, <2>4
<1>5. CASE ReadBodyPanics
  BY <1>5 DEF ReadBodyPanics, Controls, vars, built, handleVars
<1>6. CASE ReadSuffix
  BY <1>6 DEF ReadSuffix, Controls, vars, built
<1>7. CASE SetSid
  BY <1>7 DEF SetSid, Controls, vars, built
<1>8. CASE Return
  <2>1. /\ stage = "controller" /\ UNCHANGED <<at, router, held, told, out>>
        /\ \/ stage' = "after" /\ result' = result /\ resp' \in {Nil, "dto", "raw"}
           \/ stage' = "result" /\ result' = Closed /\ resp' = resp
    BY <1>8 DEF Return, Controls, Fail, vars, built
  <2>2. Closed \in Errors /\ Closed # Nil
    BY NilIsApart DEF Errors
  <2> QED  BY <2>1, <2>2
<1>9. CASE Raise
  BY <1>9, NilIsApart DEF Raise, Controls, Fail, vars, built
<1>10. CASE After
  BY <1>10, NilIsApart DEF After, Fail, vars, built
<1>11. CASE HandleResult
  BY <1>11, AnswersHaveForm DEF HandleResult, vars, built
<1>12. CASE Done
  BY <1>12 DEF Done, Respond, built, Setup
<1>13. CASE \E raw \in Raws[proto] : Receive(raw)
  BY <1>13, ReceiveMoves DEF Locating, Answered
<1>14. CASE \E raw \in Raws[proto] : ReceivePanics(raw)
  BY <1>14 DEF ReceivePanics, built, handleVars, Answered
<1>15. CASE UNCHANGED pipeVars
  BY <1>15 DEF pipeVars, vars, built, handleVars
<1>16. CASE ReadDto
  <2>1. /\ stage = "controller" /\ held' = FALSE /\ UNCHANGED <<at, router, told, resp, out>>
        /\ \/ stage' \in {"controller", "over"} /\ result' = result
           \/ stage' = "result" /\ result' = Closed
    BY <1>16 DEF ReadDto, Controls, Fail, vars, built
  <2>2. Closed \in Errors /\ Closed # Nil
    BY NilIsApart DEF Errors
  <2>3. CASE stage' \in {"controller", "over"} /\ result' = result
    BY <2>1, <2>3
  <2>4. CASE stage' = "result" /\ result' = Closed
    BY <2>1, <2>2, <2>4
  <2> QED  BY <2>1, <2>3, <2>4
<1> QED
  BY <1>1, <1>2, <1>3, <1>4, <1>5, <1>6, <1>7, <1>8, <1>9, <1>10, <1>11, <1>12, <1>13, <1>14,
     <1>15, <1>16 DEF PipeNext, Serve

(***************************************************************************)
(* The stages, the response and the answer of handle() stay in their       *)
(* types, and whatever has a stage has been located.                       *)
(***************************************************************************)
THEOREM PipelineTypes == Spec => []PipeTypeOK
<1>1. PInv => PipeTypeOK
  BY DEF PInv
<1> QED  BY <1>1, PInvInit, PInvStep, PTL DEF Spec

-----------------------------------------------------------------------------
LEMMA PromiseInit == PipeInit => Promise!Init
  BY DEF PipeInit, Init, BuildInit, Promise!Init, Phase, Outcome

LEMMA PromiseStep ==
  PInv /\ PInv' /\ [PipeNext]_pipeVars => [Promise!Next]_(Promise!vars)
<1> SUFFICES ASSUME PInv, PInv', [PipeNext]_pipeVars
             PROVE  Promise!Next \/ UNCHANGED Promise!vars
  OBVIOUS
<1> USE DEF PInv, PipeTypeOK, proto
<1>1. CASE Route
  <2>1. CASE Build
    <3>1. at = "new" /\ at' \in Setup /\ UNCHANGED router
      BY <2>1, BuildMoves DEF Build
    <3>2. stage = "off" /\ UNCHANGED <<stage, told, result, out>>
      BY <1>1, <3>1 DEF Route, handleVars
    <3> QED  BY <3>1, <3>2 DEF Promise!vars, Phase, Outcome, Setup
  <2>2. CASE Step
    <3>1. at \in Locating /\ at' \in Locating \cup Answered /\ UNCHANGED router
      BY <2>2, StepMoves
    <3>2. stage = "off" /\ UNCHANGED <<stage, told, result, out>>
      BY <1>1, <3>1 DEF Route, handleVars, Locating
    <3>3. CASE at' = "panic"
      BY <3>1, <3>2, <3>3 DEF Promise!Next, Promise!Crash, Phase, Outcome, Locating
    <3>4. CASE at' # "panic"
      BY <3>1, <3>2, <3>4 DEF Promise!vars, Phase, Outcome, Locating, Answered
    <3> QED  BY <3>3, <3>4
  <2> QED  BY <1>1, <2>1, <2>2 DEF Route
<1>2. ASSUME stage' = "result", result' # Nil, at \in {"found", "404"},
             stage \in {"off", "controller", "after"}, UNCHANGED <<at, router, told, out>>
      PROVE  Promise!Decide
  <2>1. Outcome' \in {"ok", "open", "closed"}
    BY <1>2 DEF Outcome
  <2> QED  BY <1>2, <2>1 DEF Promise!Decide, Phase
<1>3. CASE NotRouted
  BY <1>2, <1>3 DEF NotRouted, Fail, vars, built, Promise!Next
<1>4. ASSUME UNCHANGED <<at, router, told, result, out>>, at \in {"found", "404"},
             stage \in {"off", "controller"}, stage' \in {"off", "controller", "after"}
      PROVE  UNCHANGED Promise!vars
  BY <1>4 DEF Promise!vars, Phase, Outcome
<1>5. CASE Before
  <2>1. CASE stage' = "result"
    BY <1>2, <1>5, <2>1 DEF Before, vars, built, Promise!Next
  <2>2. CASE stage' # "result"
    BY <1>4, <1>5, <2>2 DEF Before, Fail, vars, built
  <2> QED  BY <2>1, <2>2
<1>6. CASE ReadBody
  <2>0. stage = "controller" /\ UNCHANGED <<at, router, told, out>>
    BY <1>6 DEF ReadBody, Controls, vars, built
  <2>1. CASE stage' = "result"
    BY <1>2, <2>0, <2>1 DEF Promise!Next
  <2>2. CASE stage' # "result"
    <3>1. UNCHANGED <<stage, result>>
      BY <1>6, <2>2 DEF ReadBody, Fail
    <3> QED  BY <1>4, <2>0, <3>1
  <2> QED  BY <2>1, <2>2
<1>7. CASE ReadBodyPanics
  BY <1>7 DEF ReadBodyPanics, Controls, vars, built, handleVars, Promise!Next, Promise!Crash,
     Phase, Outcome
<1>8. CASE ReadSuffix
  BY <1>4, <1>8 DEF ReadSuffix, Controls, vars, built
<1>9. CASE SetSid
  BY <1>9 DEF SetSid, Controls, vars, built, Promise!Next, Promise!Issue, Phase, Outcome
<1>10. CASE Return
  <2>1. /\ stage = "controller" /\ UNCHANGED <<at, router, told, out>>
        /\ \/ stage' = "after" /\ result' = result
           \/ stage' = "result" /\ result' # Nil
    BY <1>10, NilIsApart DEF Return, Controls, Fail, Errors, vars, built
  <2>2. CASE stage' = "after"
    BY <1>4, <2>1, <2>2
  <2>3. CASE stage' = "result"
    BY <1>2, <2>1, <2>3 DEF Promise!Next
  <2> QED  BY <2>1, <2>2, <2>3
<1>11. CASE Raise
  BY <1>2, <1>11 DEF Raise, Controls, Fail, vars, built, Promise!Next
<1>12. CASE After
  BY <1>2, <1>12 DEF After, Fail, vars, built, Promise!Next
<1>13. CASE HandleResult
  <2>1. /\ stage = "result" /\ stage' = "over" /\ at \in {"found", "404"} /\ out = Nil
        /\ UNCHANGED <<at, router, told, result>>
    BY <1>13 DEF HandleResult, vars, built
  <2>2. CASE ~ Responds
    <3>1. proto # "http"
      BY <2>2 DEF Responds
    <3>2. out' = Nil
      BY <1>13, <2>2 DEF HandleResult
    <3> QED  BY <2>1, <3>1, <3>2 DEF Promise!Next, Promise!Silence, Phase, Outcome
  <2>3. CASE Responds
    <3> DEFINE body == IF result.ok THEN IF resp = Nil THEN "none" ELSE resp
                       ELSE ToResponsible(result)
    <3>1. out'.body = body /\ out'.sid \in BOOLEAN /\ (out'.sid => told)
          /\ (proto = "http" => out'.sid = told)
      <4>1. proto \in {"http", "framed", "cli"}
        BY ProtosKnown
      <4>2. \A h : LET a == Into(h) IN
              /\ a.body = h /\ a.sid \in BOOLEAN /\ (a.sid => told)
              /\ (proto = "http" => a.sid = told)
        BY <4>1 DEF Into, IntoHttp, IntoMessage, IntoText
      <4>3. \A h : [Into(h) EXCEPT !.status = Status(result)].body = Into(h).body
              /\ [Into(h) EXCEPT !.status = Status(result)].sid = Into(h).sid
        BY <4>1 DEF Into, IntoHttp, IntoMessage, IntoText
      <4> QED  BY <1>13, <2>3, <4>2, <4>3 DEF HandleResult
    <3>2. out' # Nil
      BY <1>13, <2>1, <2>3, NilIsApart, AnswersHaveForm
    <3>3. body \in Promise!Bodies
      BY <2>1 DEF Promise!Bodies, Outcome, ToResponsible, Fine, Openly, Closed, Errors
    <3> QED
      BY <2>1, <3>1, <3>2, <3>3 DEF Promise!Next, Promise!Answer, Phase, Outcome
  <2> QED  BY <2>2, <2>3
<1>14. CASE Done
  BY <1>14 DEF Done, Respond, built, Promise!Next, Promise!End, Phase, Outcome, Answered
<1>15. CASE \E raw \in Raws[proto] : Receive(raw)
  BY <1>15, ReceiveMoves DEF Promise!Next, Promise!Begin, Phase, Outcome, Locating, Answered
<1>16. CASE \E raw \in Raws[proto] : ReceivePanics(raw)
  BY <1>16 DEF ReceivePanics, built, handleVars, Promise!Next, Promise!Crash, Phase, Outcome
<1>17. CASE UNCHANGED pipeVars
  BY <1>17 DEF pipeVars, vars, built, handleVars, Promise!vars, Phase, Outcome
<1>18. CASE ReadDto
  <2>1. /\ stage = "controller" /\ UNCHANGED <<at, router, told, out>>
        /\ \/ stage' \in {"controller", "over"} /\ result' = result
           \/ stage' = "result" /\ result' # Nil
    BY <1>18, NilIsApart DEF ReadDto, Controls, Fail, Errors, vars, built
  <2>2. CASE stage' = "controller"
    BY <1>4, <2>1, <2>2
  <2>3. CASE stage' = "over"
    BY <2>1, <2>3 DEF Promise!Next, Promise!Crash, Phase, Outcome
  <2>4. CASE stage' = "result"
    BY <1>2, <2>1, <2>4 DEF Promise!Next
  <2> QED  BY <2>1, <2>2, <2>3, <2>4
<1> QED
  BY <1>1, <1>3, <1>5, <1>6, <1>7, <1>8, <1>9, <1>10, <1>11, <1>12, <1>13, <1>14, <1>15, <1>16,
     <1>17, <1>18 DEF PipeNext, Serve

(***************************************************************************)
(* handle() keeps the promise of Exchange for every router, request and    *)
(* error: over HTTP each request that is decided is answered and takes the *)
(* new session id along, whatever fails after it was issued, an answer     *)
(* tells of an openly error its message and of a closed one nothing, and   *)
(* nothing of one request reaches the answer of the next.                  *)
(***************************************************************************)
THEOREM PipelineKeepsPromise == Spec => ImplementsExchange
<1> QED
  BY PInvInit, PInvStep, PromiseInit, PromiseStep, PTL
  DEF Spec, ImplementsExchange, Promise!Spec
=============================================================================
