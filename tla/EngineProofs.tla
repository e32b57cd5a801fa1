---------------------------- MODULE EngineProofs ----------------------------
(***************************************************************************)
(* Proofs about Engine and the journal kept of it: for any ritual, any     *)
(* number of branches, and however often the disk refuses, the daemon ends *)
(* or the cast is resumed.                                                 *)
(***************************************************************************)
EXTENDS Engine, SequenceTheorems, FiniteSetTheorems, WellFoundedInduction, TLAPS

Said == DOMAIN grimoire
OfStep(i) == grimoire[i].event = "began" /\ grimoire[i].of[3] = 0
HasEnded(id) == \E i \in Said : grimoire[i].event = "ended" /\ grimoire[i].rite = id
InCall(b) == doing[b] \in {"live", "replayed"}

EngineTypes ==
    /\ steps \in Nat /\ counter \in Nat
    /\ doing \in [Branches -> Status]
    /\ got = [b \in Branches |-> [result |-> got[b].result, rite |-> got[b].rite]]
    /\ grimoire \in Seq(Range(grimoire))
    /\ \A i \in Said : grimoire[i].event \in {"began", "ended"} /\ grimoire[i].rite \in 1..counter

(* A rite begins once and ends once at most.                               *)
SaidOnce ==
    \A i, j \in Said :
        grimoire[i].event = grimoire[j].event /\ grimoire[i].rite = grimoire[j].rite => i = j

(* The rites of the calls not over yet are told apart, and not ended.      *)
CallsOpen ==
    \A b \in Branches : InCall(b) =>
        /\ got[b].rite \in 1..counter /\ ~HasEnded(got[b].rite)
        /\ \A a \in Branches : InCall(a) /\ got[a].rite = got[b].rite => a = b

(* Each step entered has a rite of its own; that of a body is not ended,   *)
(* and is no call's.                                                       *)
StepsApart ==
    \A i, j \in Said : OfStep(i) =>
        /\ grimoire[i].of[2] \in 1..steps
        /\ OfStep(j) /\ grimoire[i].of[2] = grimoire[j].of[2] => i = j

StepOpen ==
    phase = "body" => \E i \in Said :
        /\ OfStep(i) /\ grimoire[i].of = <<payload, steps, 0, 0>>
        /\ ~HasEnded(grimoire[i].rite)
        /\ \A b \in Branches : InCall(b) => got[b].rite # grimoire[i].rite

(* The log is a prefix of the grimoire, and all of it while a daemon hears *)
(* of it that knows of no gap.                                             *)
LogIsPrefix ==
    \E n \in 0..Len(grimoire) :
        /\ log \ {Hello} = {grimoire[i] : i \in 1..n}
        /\ attached /\ ~gapped => n = Len(grimoire)

(* The inductive invariant of NoHole: that nothing is logged past what is  *)
(* missing rests on no two events being the same.                          *)
Rites == EngineTypes /\ SaidOnce /\ CallsOpen /\ StepsApart /\ StepOpen
EngineInv == Rites /\ LogIsPrefix

-----------------------------------------------------------------------------
(* Sequences.                                                              *)

LEMMA OwnRange ==
    ASSUME NEW S, NEW s \in Seq(S)
    PROVE  /\ s \in Seq(Range(s)) /\ Len(s) \in Nat /\ DOMAIN s = 1..Len(s)
           /\ Range(s) = {s[i] : i \in 1..Len(s)}
<1>1. Len(s) \in Nat /\ DOMAIN s = 1..Len(s) /\ s \in [1..Len(s) -> S]
  BY LenProperties
<1>2. Range(s) = {s[i] : i \in 1..Len(s)}
  BY <1>1 DEF Range
<1>3. s \in [1..Len(s) -> Range(s)]
  BY <1>1, <1>2
<1> QED BY <1>1, <1>2, <1>3, SeqDef

LEMMA OneMore ==
    ASSUME NEW s, s \in Seq(Range(s)), NEW e
    PROVE  /\ Append(s, e) \in Seq(Range(Append(s, e)))
           /\ Len(s) \in Nat /\ Len(Append(s, e)) = Len(s) + 1
           /\ DOMAIN s = 1..Len(s) /\ DOMAIN Append(s, e) = 1..Len(s) + 1
           /\ \A i \in 1..Len(s) : Append(s, e)[i] = s[i]
           /\ Append(s, e)[Len(s) + 1] = e
<1> DEFINE S == Range(s) \cup {e}
<1>1. s \in Seq(S)
  BY SeqMonotonic
<1>2. /\ Append(s, e) \in Seq(S) /\ Len(Append(s, e)) = Len(s) + 1
      /\ \A i \in 1..Len(s) : Append(s, e)[i] = s[i]
      /\ Append(s, e)[Len(s) + 1] = e
  BY <1>1, AppendProperties
<1> QED BY <1>1, <1>2, OwnRange

LEMMA RangeOfPrefix ==
    ASSUME NEW S, NEW s \in Seq(S), NEW n \in 0..Len(s)
    PROVE  Range(SubSeq(s, 1, n)) = {s[i] : i \in 1..n}
<1>1. Len(s) \in Nat /\ s \in [1..Len(s) -> S]
  BY LenProperties
<1>2. n \in Nat /\ \A i \in 1..n : s[i] \in S
  BY <1>1
<1>3. /\ SubSeq(s, 1, n) \in Seq(S)
      /\ Len(SubSeq(s, 1, n)) = n
      /\ \A i \in 1..n : SubSeq(s, 1, n)[i] = s[i]
  BY <1>2, SubSeqProperties
<1>4. Range(SubSeq(s, 1, n)) = {SubSeq(s, 1, n)[i] : i \in 1..n}
  BY <1>3, OwnRange
<1> QED BY <1>3, <1>4

-----------------------------------------------------------------------------
(* The log.                                                                *)

Prefix(n) == {grimoire[i] : i \in 1..n}

LEMMA PrefixesTogether ==
    ASSUME NEW n \in Nat, NEW m \in 0..n
    PROVE  Prefix(m) \cup Prefix(n) = Prefix(n)
<1>1. 1..m \subseteq 1..n
  OBVIOUS
<1> QED BY <1>1 DEF Prefix

(* An event is journaled after all that came before it, or not at all.     *)
LEMMA RiteLogged ==
    ASSUME EngineTypes, LogIsPrefix, NEW e, e # Hello, Emit(e), UNCHANGED attached
    PROVE  LogIsPrefix'
<1>1. /\ Len(grimoire) \in Nat /\ Len(grimoire') = Len(grimoire) + 1
      /\ \A i \in 1..Len(grimoire) : grimoire'[i] = grimoire[i]
      /\ grimoire'[Len(grimoire) + 1] = e
  BY OneMore DEF EngineTypes, Emit
<1>2. PICK n \in 0..Len(grimoire) :
        /\ log \ {Hello} = {grimoire[i] : i \in 1..n}
        /\ attached /\ ~gapped => n = Len(grimoire)
  BY DEF LogIsPrefix
<1>3. {grimoire[i] : i \in 1..n} = {grimoire'[i] : i \in 1..n}
  BY <1>1
<1>4. ASSUME log' = log, ~(attached' /\ ~gapped') PROVE LogIsPrefix'
  <2>1. log' \ {Hello} = {grimoire'[i] : i \in 1..n}
    BY <1>2, <1>3, <1>4
  <2>2. n \in 0..Len(grimoire')
    BY <1>1
  <2> QED BY <2>1, <2>2, <1>4 DEF LogIsPrefix, Hello
<1>5. CASE attached /\ ~gapped /\ log' = log \cup {e}
  <2>1. {grimoire'[i] : i \in 1..Len(grimoire')} = {grimoire[i] : i \in 1..n} \cup {e}
    BY <1>1, <1>2, <1>5
  <2>2. log' \ {Hello} = {grimoire'[i] : i \in 1..Len(grimoire')}
    BY <1>2, <1>5, <2>1
  <2> QED BY <1>1, <2>2 DEF LogIsPrefix, Hello
<1>6. <<e>> \in Seq({e}) /\ Len(<<e>>) = 1 /\ Range(<<e>>) = {e}
  BY DEF Range
<1>7. ASSUME attached PROVE \/ log' = log /\ gapped'
                            \/ ~gapped /\ log' = log \cup {e}
  <2>1. Appends(record, <<e>>, 0)
    BY <1>7 DEF Emit, RecordsRite
  <2>2. \A k \in 0..Len(<<e>>) - 1 : Range(SubSeq(<<e>>, 1, k)) = {}
    <3>1. 0 \in 0..Len(<<e>>)
      BY <1>6
    <3>2. Range(SubSeq(<<e>>, 1, 0)) = {<<e>>[i] : i \in 1..0}
      BY <1>6, <3>1, RangeOfPrefix
    <3>3. 1..0 = {}
      OBVIOUS
    <3> QED BY <1>6, <3>2, <3>3
  <2>3. CASE ~gapped /\ log' = log \cup Range(<<e>>)
    BY <2>3, <1>6
  <2>4. CASE gapped' /\ \E k \in 0..Len(<<e>>) - 1 : log' = log \cup Range(SubSeq(<<e>>, 1, k))
    BY <2>2, <2>4
  <2>5. CASE gapped /\ UNCHANGED <<log, gapped>>
    BY <2>5
  <2> QED BY <2>1, <2>3, <2>4, <2>5 DEF Appends
<1> QED BY <1>4, <1>5, <1>7 DEF Emit, journal

(* A hello brings all that was missed: a log that was a prefix is one,     *)
(* wherever the disk refuses.                                              *)
LEMMA HelloLogged ==
    ASSUME EngineTypes, LogIsPrefix, RecordsHello(Hello, grimoire), UNCHANGED grimoire
    PROVE  LogIsPrefix'
<1>1. PICK n \in 0..Len(grimoire) :
        /\ log \ {Hello} = {grimoire[i] : i \in 1..n}
        /\ attached /\ ~gapped => n = Len(grimoire)
  BY DEF LogIsPrefix
<1>2. /\ Len(grimoire) \in Nat /\ DOMAIN grimoire = 1..Len(grimoire)
      /\ Range(grimoire) = Prefix(Len(grimoire))
  BY OwnRange DEF EngineTypes, Prefix
<1>3. Hello \notin Range(grimoire)
  <2>1. \A i \in 1..Len(grimoire) : grimoire[i].event # "hello"
    BY <1>2 DEF EngineTypes, Said
  <2>2. Hello.event = "hello"
    BY DEF Hello
  <2> QED BY <1>2, <2>1, <2>2 DEF Prefix
<1>4. ASSUME NEW m \in 0..Len(grimoire), log' \ {Hello} = Prefix(m),
             m = Len(grimoire) \/ gapped'
      PROVE  LogIsPrefix'
  <2>1. Prefix(m) = {grimoire'[i] : i \in 1..m} /\ Len(grimoire') = Len(grimoire)
    BY DEF Prefix
  <2> QED BY <1>4, <2>1 DEF LogIsPrefix, Hello
(* Frames of which each beginning holds a prefix of the grimoire.          *)
<1>5. ASSUME NEW frames, NEW record0, NEW lost,
             Len(frames) \in Nat, Appends(record0, frames, lost),
             Range(frames) \ {Hello} = Prefix(Len(grimoire)),
             \A k \in 0..Len(frames) - 1 : \E m \in 0..Len(grimoire) :
                Range(SubSeq(frames, 1, k)) \ {Hello} = Prefix(m)
      PROVE  LogIsPrefix'
  <2>1. CASE ~gapped /\ log' = log \cup Range(frames)
    <3>1. log' \ {Hello} = Prefix(n) \cup Prefix(Len(grimoire))
      BY <1>1, <1>5, <2>1 DEF Prefix
    <3>2. Prefix(n) \cup Prefix(Len(grimoire)) = Prefix(Len(grimoire))
      BY <1>2, PrefixesTogether
    <3>3. Len(grimoire) \in 0..Len(grimoire)
      BY <1>2
    <3> QED BY <3>1, <3>2, <3>3, <1>4
  <2>2. CASE /\ gapped'
             /\ \E k \in 0..Len(frames) - 1 : log' = log \cup Range(SubSeq(frames, 1, k))
    <3>1. PICK k \in 0..Len(frames) - 1 : log' = log \cup Range(SubSeq(frames, 1, k))
      BY <2>2
    <3>2. PICK m \in 0..Len(grimoire) : Range(SubSeq(frames, 1, k)) \ {Hello} = Prefix(m)
      BY <1>5
    <3>3. log' \ {Hello} = Prefix(n) \cup Prefix(m)
      BY <1>1, <3>1, <3>2 DEF Prefix
    <3>4. m \in Nat /\ n \in Nat
      BY <1>2
    <3>5. CASE n <= m
      <4>1. n \in 0..m
        BY <3>4, <3>5
      <4> QED BY <3>3, <3>4, <4>1, <2>2, <1>4, PrefixesTogether
    <3>6. CASE m <= n
      <4>1. m \in 0..n
        BY <3>4, <3>6
      <4>2. Prefix(n) \cup Prefix(m) = Prefix(n)
        BY <3>4, <4>1, PrefixesTogether
      <4> QED BY <3>3, <4>2, <2>2, <1>4
    <3> QED BY <3>4, <3>5, <3>6
  <2>3. CASE gapped /\ UNCHANGED <<log, gapped>>
    BY <1>1, <2>3 DEF LogIsPrefix, Hello
  <2> QED BY <1>5, <2>1, <2>2, <2>3 DEF Appends
<1>6. ASSUME Appends([status |-> "running", gapped |-> FALSE], <<Hello>> \o grimoire, 0)
      PROVE  LogIsPrefix'
  <2> DEFINE frames == <<Hello>> \o grimoire
             S == Range(grimoire) \cup {Hello}
  <2>1. /\ frames \in Seq(S) /\ Len(frames) = Len(grimoire) + 1
        /\ frames[1] = Hello
        /\ \A i \in 2..Len(grimoire) + 1 : frames[i] = grimoire[i - 1]
    <3>1. <<Hello>> \in Seq(S) /\ Len(<<Hello>>) = 1 /\ grimoire \in Seq(S)
      BY SeqMonotonic DEF EngineTypes
    <3>2. /\ frames \in Seq(S) /\ Len(frames) = 1 + Len(grimoire)
          /\ \A i \in 1..1 + Len(grimoire) :
                frames[i] = IF i <= 1 THEN <<Hello>>[i] ELSE grimoire[i - 1]
      BY <3>1, ConcatProperties
    <3> QED BY <3>2, <1>2
  <2> HIDE DEF frames
  <2>2. ASSUME NEW k \in 1..Len(grimoire) + 1
        PROVE  {frames[i] : i \in 1..k} = {Hello} \cup Prefix(k - 1)
    <3>1. ASSUME NEW i \in 1..k - 1 PROVE \E j \in 1..k : grimoire[i] = frames[j]
      <4>1. i + 1 \in 2..Len(grimoire) + 1 /\ i + 1 \in 1..k /\ (i + 1) - 1 = i
        BY <1>2
      <4> QED BY <4>1, <2>1
    <3>2. ASSUME NEW i \in 1..k, i # 1 PROVE \E j \in 1..k - 1 : frames[i] = grimoire[j]
      <4>1. i \in 2..Len(grimoire) + 1 /\ i - 1 \in 1..k - 1
        BY <1>2, <3>2
      <4> QED BY <4>1, <2>1
    <3>3. 1 \in 1..k
      BY <1>2
    <3>4. \A x \in Prefix(k - 1) : x \in {frames[i] : i \in 1..k}
      BY <3>1 DEF Prefix
    <3>5. ASSUME NEW i \in 1..k PROVE frames[i] \in {Hello} \cup Prefix(k - 1)
      <4>1. CASE i = 1
        BY <4>1, <2>1
      <4>2. CASE i # 1
        <5>1. PICK j \in 1..k - 1 : frames[i] = grimoire[j]
          BY <3>2, <4>2
        <5> QED BY <5>1 DEF Prefix
      <4> QED BY <4>1, <4>2
    <3> QED BY <3>3, <3>4, <3>5, <2>1
  <2>3. ASSUME NEW k \in 0..Len(frames) - 1
        PROVE  \E m \in 0..Len(grimoire) : Range(SubSeq(frames, 1, k)) \ {Hello} = Prefix(m)
    <3>1. Range(SubSeq(frames, 1, k)) = {frames[i] : i \in 1..k}
      BY <2>1, <1>2, RangeOfPrefix
    <3>2. CASE k = 0
      <4>1. 1..0 = {} /\ 0 \in 0..Len(grimoire)
        BY <1>2
      <4>2. Prefix(0) = {} /\ Range(SubSeq(frames, 1, k)) = {}
        BY <3>1, <3>2, <4>1 DEF Prefix
      <4> QED BY <4>1, <4>2
    <3>3. CASE k > 0
      <4>1. k - 1 \in 0..Len(grimoire)
        BY <3>3, <2>1, <1>2
      <4>2. {frames[i] : i \in 1..k} = {Hello} \cup Prefix(k - 1)
        <5>1. k \in 1..Len(grimoire) + 1
          BY <3>3, <2>1, <1>2
        <5> QED BY <5>1, <2>2
      <4>3. Hello \notin Prefix(k - 1)
        BY <1>2, <1>3, <4>1 DEF Prefix
      <4> QED BY <3>1, <4>1, <4>2, <4>3
    <3> QED BY <3>2, <3>3, <2>1, <1>2
  <2>4. Range(frames) \ {Hello} = Prefix(Len(grimoire))
    <3>1. Range(frames) = {frames[i] : i \in 1..Len(grimoire) + 1}
      BY <2>1, OwnRange
    <3>2. /\ Len(grimoire) + 1 \in 1..Len(grimoire) + 1
          /\ (Len(grimoire) + 1) - 1 = Len(grimoire)
      BY <1>2
    <3> QED BY <3>1, <3>2, <2>2, <1>2, <1>3
  <2>5. Len(frames) \in Nat
    BY <2>1, <1>2
  <2> QED BY <1>5, <1>6, <2>3, <2>4, <2>5 DEF frames
<1>7. ASSUME Appends(record, grimoire, 1) PROVE LogIsPrefix'
  <2>1. ASSUME NEW k \in 0..Len(grimoire) - 1
        PROVE  \E m \in 0..Len(grimoire) : Range(SubSeq(grimoire, 1, k)) \ {Hello} = Prefix(m)
    <3>1. k \in 0..Len(grimoire)
      BY <1>2
    <3>2. Range(SubSeq(grimoire, 1, k)) = Prefix(k)
      BY <3>1, RangeOfPrefix DEF EngineTypes, Prefix
    <3>3. Hello \notin Prefix(k)
      BY <1>2, <1>3, <3>1 DEF Prefix
    <3> QED BY <3>1, <3>2, <3>3
  <2>2. Range(grimoire) \ {Hello} = Prefix(Len(grimoire))
    BY <1>2, <1>3
  <2> QED BY <1>2, <1>5, <1>7, <2>1, <2>2
<1>8. ASSUME grimoire = <<>>, UNCHANGED log PROVE LogIsPrefix'
  <2>1. Len(grimoire) = 0
    BY <1>8
  <2> QED BY <1>1, <1>8, <2>1 DEF LogIsPrefix, Hello
<1> QED BY <1>6, <1>7, <1>8 DEF RecordsHello

-----------------------------------------------------------------------------
(* The rites.                                                              *)

(* Nothing said, and no call begun or step entered: what is open stays so. *)
LEMMA NothingSaid ==
    ASSUME Rites, UNCHANGED <<grimoire, steps, counter, doing, got, payload>>,
           phase' = "body" => phase = "body"
    PROVE  Rites'
  BY DEF Rites, EngineTypes, SaidOnce, CallsOpen, StepsApart, StepOpen, Said, OfStep,
    HasEnded, InCall

IsOpenStep(i) == OfStep(i) /\ grimoire[i].of = <<payload, steps, 0, 0>>

(* The rite of the body under way is the only one of its step.             *)
LEMMA OneOpenStep ==
    ASSUME Rites, phase = "body"
    PROVE  \E i \in Said :
             /\ IsOpenStep(i) /\ ~HasEnded(grimoire[i].rite)
             /\ \A b \in Branches : InCall(b) => got[b].rite # grimoire[i].rite
             /\ \A j \in Said : IsOpenStep(j) => j = i
<1>1. PICK i \in Said :
        /\ OfStep(i) /\ grimoire[i].of = <<payload, steps, 0, 0>>
        /\ ~HasEnded(grimoire[i].rite)
        /\ \A b \in Branches : InCall(b) => got[b].rite # grimoire[i].rite
  BY DEF Rites, StepOpen
<1>2. ASSUME NEW j \in Said, IsOpenStep(j) PROVE j = i
  BY <1>1, <1>2 DEF Rites, StepsApart, IsOpenStep
<1> QED BY <1>1, <1>2 DEF IsOpenStep

(* A rite's end, said once: the calls and the step still open are others.  *)
LEMMA EndSaid ==
    ASSUME Rites, NEW id \in 1..counter, ~HasEnded(id), NEW e,
           e.event = "ended", e.rite = id,
           grimoire' = Append(grimoire, e), UNCHANGED <<steps, counter>>,
           doing' \in [Branches -> Status],
           got' = [b \in Branches |-> [result |-> got'[b].result, rite |-> got'[b].rite]],
           \A b \in Branches : InCall(b)' => InCall(b) /\ got'[b].rite = got[b].rite
                                                /\ got[b].rite # id,
           phase' = "body" => phase = "body" /\ payload' = payload
                /\ \A i \in Said : IsOpenStep(i) => grimoire[i].rite # id
    PROVE  Rites'
<1>1. /\ grimoire' \in Seq(Range(grimoire'))
      /\ Len(grimoire) \in Nat /\ Said = 1..Len(grimoire) /\ Said' = 1..Len(grimoire) + 1
      /\ \A i \in 1..Len(grimoire) : grimoire'[i] = grimoire[i]
      /\ grimoire'[Len(grimoire) + 1] = e
  BY OneMore DEF Rites, EngineTypes, Said
<1>2. EngineTypes'
  BY <1>1 DEF Rites, EngineTypes, Said
<1>3. SaidOnce'
  BY <1>1 DEF Rites, SaidOnce, HasEnded
<1>4. CallsOpen'
  BY <1>1 DEF Rites, CallsOpen, HasEnded, InCall
<1>5. StepsApart'
  BY <1>1 DEF Rites, EngineTypes, StepsApart, OfStep
<1>6. StepOpen'
  <2> SUFFICES ASSUME phase' = "body" PROVE StepOpen'
    BY DEF StepOpen
  <2>1. PICK i \in Said :
          /\ OfStep(i) /\ grimoire[i].of = <<payload, steps, 0, 0>>
          /\ ~HasEnded(grimoire[i].rite)
          /\ \A b \in Branches : InCall(b) => got[b].rite # grimoire[i].rite
    BY DEF Rites, StepOpen
  <2>2. i \in Said' /\ grimoire'[i] = grimoire[i] /\ grimoire[i].rite # id
    BY <1>1, <2>1 DEF IsOpenStep
  <2>3. (OfStep(i) /\ ~HasEnded(grimoire[i].rite))'
    BY <1>1, <2>1, <2>2 DEF OfStep, HasEnded
  <2>4. \A b \in Branches : InCall(b)' => got'[b].rite # grimoire[i].rite
    BY <2>1
  <2> QED BY <2>1, <2>2, <2>3, <2>4 DEF StepOpen
<1> QED BY <1>2, <1>3, <1>4, <1>5, <1>6 DEF Rites

(* A branch is no step: branches are numbered from 1.                      *)
LEMMA BranchNumbers ==
    ASSUME EngineAssumption
    PROVE  0 \notin Branches
<1>1. ASSUME NEW p \in Payload PROVE 0 \notin DOMAIN Body[p]
  <2>1. Body[p] \in Seq(Seq(DOMAIN Medium))
    BY DEF EngineAssumption
  <2>2. DOMAIN Body[p] = 1..Len(Body[p])
    BY <2>1, LenProperties
  <2> QED BY <2>2
<1> QED BY <1>1 DEF Branches

(* What is said last is said once, if nothing before it was of its rite.   *)
LEMMA SaidLast ==
    ASSUME SaidOnce, NEW n \in Nat, Said = 1..n, Said' = 1..n + 1,
           \A i \in 1..n : grimoire'[i] = grimoire[i],
           \A i \in 1..n : grimoire[i].rite # grimoire'[n + 1].rite
    PROVE  SaidOnce'
<1> SUFFICES ASSUME NEW i \in 1..n + 1, NEW j \in 1..n + 1,
                    grimoire'[i].event = grimoire'[j].event,
                    grimoire'[i].rite = grimoire'[j].rite
             PROVE  i = j
  BY DEF SaidOnce
<1>1. i \in 1..n \/ i = n + 1
  OBVIOUS
<1>2. j \in 1..n \/ j = n + 1
  OBVIOUS
<1>3. CASE i \in 1..n /\ j \in 1..n
  <2>1. grimoire'[i] = grimoire[i] /\ grimoire'[j] = grimoire[j]
    BY <1>3
  <2> QED BY <1>3, <2>1 DEF SaidOnce
<1>4. CASE i \in 1..n /\ j = n + 1
  BY <1>4
<1>5. CASE i = n + 1 /\ j \in 1..n
  BY <1>5
<1> QED BY <1>1, <1>2, <1>3, <1>4, <1>5

(* A rite begun takes a number no rite has had.                            *)
LEMMA EntersSaid ==
    ASSUME Rites, Enters
    PROVE  Rites'
<1> DEFINE e == Began(counter + 1, StepOf[payload], <<payload, steps + 1, 0, 0>>)
<1>1. /\ grimoire' = Append(grimoire, e) /\ counter' = counter + 1 /\ steps' = steps + 1
      /\ payload' = payload
      /\ doing' = [b \in Branches |-> IF b \in DOMAIN Body[payload] THEN "ready" ELSE "done"]
      /\ got' = [b \in Branches |-> Nothing]
  BY DEF Enters, Emit
<1>2. /\ e.event = "began" /\ e.rite = counter + 1 /\ e.of = <<payload, steps + 1, 0, 0>>
      /\ e.of[2] = steps + 1 /\ e.of[3] = 0
  BY DEF Began
<1> HIDE DEF e
<1>3. /\ grimoire' \in Seq(Range(grimoire'))
      /\ Len(grimoire) \in Nat /\ Said = 1..Len(grimoire) /\ Said' = 1..Len(grimoire) + 1
      /\ \A i \in 1..Len(grimoire) : grimoire'[i] = grimoire[i]
      /\ grimoire'[Len(grimoire) + 1] = e
  BY <1>1, OneMore DEF Rites, EngineTypes, Said
<1>4. \A i \in 1..Len(grimoire) : grimoire[i].rite # counter + 1
  BY <1>3 DEF Rites, EngineTypes
<1>5. EngineTypes'
  BY <1>1, <1>2, <1>3 DEF Rites, EngineTypes, Said, Status, Nothing
<1>6. SaidOnce'
  BY <1>2, <1>3, <1>4, SaidLast DEF Rites
<1>7. CallsOpen' /\ \A b \in Branches : ~InCall(b)'
  BY <1>1 DEF CallsOpen, InCall
<1>8. StepsApart'
  BY <1>1, <1>2, <1>3, SMTT(30) DEF Rites, EngineTypes, StepsApart, OfStep
<1>9. StepOpen'
  <2>1. PICK i \in Said' : i = Len(grimoire) + 1 /\ grimoire'[i] = e
    BY <1>3
  <2>2. (OfStep(i))'
    BY <1>2, <2>1 DEF OfStep
  <2>3. (~HasEnded(grimoire[i].rite))'
    BY <1>2, <1>3, <1>4, <2>1 DEF HasEnded
  <2> QED BY <1>1, <1>2, <1>7, <2>1, <2>2, <2>3 DEF StepOpen
<1> QED BY <1>5, <1>6, <1>7, <1>8, <1>9 DEF Rites

(* So does a call.                                                         *)
LEMMA CallsSaid ==
    ASSUME EngineAssumption, Rites, NEW b \in Branches, Calls(b)
    PROVE  Rites'
<1> DEFINE e == Began(counter + 1, Medium[Call(b)], <<payload, steps, b, pos[b]>>)
<1>1. /\ grimoire' = Append(grimoire, e) /\ counter' = counter + 1
      /\ UNCHANGED <<phase, payload, steps>> /\ phase = "body"
      /\ doing' \in {[doing EXCEPT ![b] = "replayed"], [doing EXCEPT ![b] = "live"]}
      /\ got' = [got EXCEPT ![b] = [result |-> None, rite |-> counter + 1]]
  BY DEF Calls, Emit, walk
<1>2. e.event = "began" /\ e.rite = counter + 1 /\ e.of[3] # 0
  BY BranchNumbers DEF Began
<1> HIDE DEF e
<1>3. /\ grimoire' \in Seq(Range(grimoire'))
      /\ Len(grimoire) \in Nat /\ Said = 1..Len(grimoire) /\ Said' = 1..Len(grimoire) + 1
      /\ \A i \in 1..Len(grimoire) : grimoire'[i] = grimoire[i]
      /\ grimoire'[Len(grimoire) + 1] = e
  BY <1>1, OneMore DEF Rites, EngineTypes, Said
<1>4. counter \in Nat /\ \A i \in 1..Len(grimoire) : grimoire[i].rite \in 1..counter
  BY <1>3 DEF Rites, EngineTypes
<1>5. \A i \in 1..Len(grimoire) : grimoire[i].rite # counter + 1
  BY <1>3 DEF Rites, EngineTypes
<1>6. ASSUME NEW id, HasEnded(id)' PROVE HasEnded(id) /\ id # counter + 1
  <2>1. PICK i \in 1..Len(grimoire) + 1 : grimoire'[i].event = "ended" /\ grimoire'[i].rite = id
    BY <1>6, <1>3 DEF HasEnded
  <2>2. i \in 1..Len(grimoire)
    BY <2>1, <1>2, <1>3
  <2> QED BY <2>1, <2>2, <1>3, <1>5 DEF HasEnded
<1>7. /\ doing' \in [Branches -> Status]
      /\ got' = [a \in Branches |-> [result |-> got'[a].result, rite |-> got'[a].rite]]
      /\ got'[b].rite = counter + 1
      /\ \A a \in Branches \ {b} : got'[a] = got[a] /\ doing'[a] = doing[a]
  <2>1. DOMAIN got = Branches
    BY DEF Rites, EngineTypes
  <2>2. got'[b] = [result |-> None, rite |-> counter + 1]
    BY <1>1, <2>1
  <2>3. \A a \in Branches \ {b} : got'[a] = got[a] /\ doing'[a] = doing[a]
    BY <1>1, <2>1 DEF Rites, EngineTypes
  <2>4. DOMAIN got' = Branches
    BY <1>1, <2>1
  <2>5. doing' \in [Branches -> Status]
    BY <1>1 DEF Rites, EngineTypes, Status
  <2>6. ASSUME NEW a \in Branches
        PROVE  got'[a] = [result |-> got'[a].result, rite |-> got'[a].rite]
    <3>1. CASE a = b
      BY <2>2, <3>1
    <3>2. CASE a # b
      <4>1. got[a] = [result |-> got[a].result, rite |-> got[a].rite]
        BY DEF Rites, EngineTypes
      <4> QED BY <2>3, <3>2, <4>1
    <3> QED BY <3>1, <3>2
  <2>7. got' = [a \in Branches |-> got'[a]]
    BY <1>1, <2>1, <2>4
  <2> QED BY <2>2, <2>3, <2>5, <2>6, <2>7
<1>8. EngineTypes'
  BY <1>1, <1>2, <1>3, <1>7 DEF Rites, EngineTypes, Said
<1>9. SaidOnce'
  BY <1>2, <1>3, <1>5, SaidLast DEF Rites
<1>10. CallsOpen'
  <2>2. ASSUME NEW a \in Branches, InCall(a)'
        PROVE  \/ a = b /\ got'[a].rite = counter + 1
               \/ a # b /\ InCall(a) /\ got'[a].rite = got[a].rite /\ got[a].rite \in 1..counter
    BY <1>7, <2>2 DEF Rites, CallsOpen, InCall
  <2>3. ASSUME NEW a \in Branches, InCall(a)'
        PROVE  (got[a].rite \in 1..counter /\ ~HasEnded(got[a].rite))'
    BY <2>2, <2>3, <1>1, <1>4, <1>6 DEF Rites, CallsOpen
  <2>4. ASSUME NEW a \in Branches, NEW c \in Branches, InCall(a)', InCall(c)',
               got'[a].rite = got'[c].rite
        PROVE  a = c
    <3>1. a = b <=> c = b
      BY <1>4, <2>2, <2>4
    <3> QED BY <2>2, <2>4, <3>1, SMTT(30) DEF Rites, CallsOpen
  <2> QED BY <1>1, <2>3, <2>4 DEF CallsOpen
<1>11. StepsApart'
  BY <1>1, <1>2, <1>3, SMTT(30) DEF Rites, EngineTypes, StepsApart, OfStep
<1>12. StepOpen'
  <2>1. PICK i \in Said :
          /\ OfStep(i) /\ grimoire[i].of = <<payload, steps, 0, 0>>
          /\ ~HasEnded(grimoire[i].rite)
          /\ \A a \in Branches : InCall(a) => got[a].rite # grimoire[i].rite
    BY <1>1 DEF Rites, StepOpen
  <2>2. i \in Said' /\ grimoire'[i] = grimoire[i] /\ grimoire[i].rite \in 1..counter
    BY <1>3, <1>4
  <2>3. (OfStep(i) /\ ~HasEnded(grimoire[i].rite))'
    BY <2>1, <2>2, <1>6 DEF OfStep
  <2>4. ASSUME NEW a \in Branches, InCall(a)'
        PROVE  got'[a].rite # grimoire[i].rite
    <3>1. CASE a = b
      BY <1>4, <1>7, <2>2, <3>1
    <3>2. CASE a # b
      BY <1>7, <2>1, <2>4, <3>2 DEF InCall
    <3> QED BY <3>1, <3>2
  <2> QED BY <1>1, <2>1, <2>2, <2>3, <2>4 DEF StepOpen
<1> QED BY <1>8, <1>9, <1>10, <1>11, <1>12 DEF Rites

(* What ends a call, by returning or not, and what ends a step.            *)
LEMMA ReturnsSaid ==
    ASSUME Rites, NEW b \in Branches, Returns(b)
    PROVE  Rites'
<1>1. PICK e, r :
        /\ e.event = "ended" /\ e.rite = got[b].rite
        /\ grimoire' = Append(grimoire, e)
        /\ got' = [got EXCEPT ![b].result = r]
  <2>1. PICK reply \in Returnable(b) :
            /\ Emit(Ended(got[b].rite, "ok", reply.result, reply.session))
            /\ got' = [got EXCEPT ![b].result = reply.result]
    BY DEF Returns
  <2> QED BY <2>1 DEF Emit, Ended
<1>2. /\ phase = "body" /\ UNCHANGED <<phase, payload, steps, counter>> /\ InCall(b)
      /\ doing' \in {[doing EXCEPT ![b] = "ready"], [doing EXCEPT ![b] = "done"]}
  BY DEF Returns, walk, InCall
<1>3. got[b].rite \in 1..counter /\ ~HasEnded(got[b].rite)
  BY <1>2 DEF Rites, CallsOpen
<1>4. DOMAIN got = Branches /\ \A a \in Branches : got[a] = [result |-> got[a].result, rite |-> got[a].rite]
  BY DEF Rites, EngineTypes
<1>5. \A a \in Branches : got'[a].rite = got[a].rite /\ got'[a] = [result |-> got'[a].result, rite |-> got'[a].rite]
  BY <1>1, <1>4
<1>6. got' = [a \in Branches |-> [result |-> got'[a].result, rite |-> got'[a].rite]]
  BY <1>1, <1>4, <1>5
<1>7. /\ doing' \in [Branches -> Status]
      /\ \A a \in Branches : InCall(a)' => InCall(a) /\ a # b
  BY <1>2 DEF Rites, EngineTypes, Status, InCall
<1>8. \A a \in Branches : InCall(a)' => InCall(a) /\ got'[a].rite = got[a].rite /\ got[a].rite # got[b].rite
  BY <1>2, <1>5, <1>7 DEF Rites, CallsOpen
<1>9. \A i \in Said : IsOpenStep(i) => grimoire[i].rite # got[b].rite
  BY <1>2, OneOpenStep
<1> QED BY <1>1, <1>2, <1>3, <1>6, <1>7, <1>8, <1>9, EndSaid

LEMMA FailsSaid ==
    ASSUME Rites, NEW b \in Branches, Fails(b)
    PROVE  Rites'
<1>1. PICK e :
        /\ e.event = "ended" /\ e.rite = got[b].rite
        /\ grimoire' = Append(grimoire, e)
  BY DEF Fails, Emit, Ended
<1>2. /\ phase = "body" /\ UNCHANGED <<phase, payload, steps, counter, got>> /\ InCall(b)
      /\ doing' \in {[doing EXCEPT ![b] = "cut"], [doing EXCEPT ![b] = "failed"]}
  BY DEF Fails, walk, InCall
<1>3. got[b].rite \in 1..counter /\ ~HasEnded(got[b].rite)
  BY <1>2 DEF Rites, CallsOpen
<1>4. got' = [a \in Branches |-> [result |-> got'[a].result, rite |-> got'[a].rite]]
  BY <1>2 DEF Rites, EngineTypes
<1>5. /\ doing' \in [Branches -> Status]
      /\ \A a \in Branches : InCall(a)' => InCall(a) /\ a # b
  BY <1>2 DEF Rites, EngineTypes, Status, InCall
<1>6. \A a \in Branches : InCall(a)' => InCall(a) /\ got'[a].rite = got[a].rite /\ got[a].rite # got[b].rite
  BY <1>2, <1>5 DEF Rites, CallsOpen
<1>7. \A i \in Said : IsOpenStep(i) => grimoire[i].rite # got[b].rite
  BY <1>2, OneOpenStep
<1> QED BY <1>1, <1>2, <1>3, <1>4, <1>5, <1>6, <1>7, EndSaid

LEMMA LeavesSaid ==
    ASSUME Rites, Leaves
    PROVE  Rites'
<1> DEFINE Opened(id) == \E i \in DOMAIN grimoire :
                grimoire[i].event = "began" /\ grimoire[i].rite = id
                    /\ grimoire[i].of = <<payload, steps, 0, 0>>
           rite == CHOOSE id \in 1..counter : Opened(id)
<1>1. /\ phase = "body" /\ phase' # "body" /\ UNCHANGED <<steps, counter, got>>
      /\ doing' = Idle
  BY DEF Leaves
<1>2. PICK e : e.event = "ended" /\ e.rite = rite /\ grimoire' = Append(grimoire, e)
  BY DEF Leaves, Emit, Ended
<1>3. PICK i \in Said :
        /\ IsOpenStep(i) /\ ~HasEnded(grimoire[i].rite)
        /\ \A j \in Said : IsOpenStep(j) => j = i
  BY <1>1, OneOpenStep
<1>4. grimoire[i].rite \in 1..counter /\ Opened(grimoire[i].rite)
  BY <1>3 DEF Rites, EngineTypes, IsOpenStep, OfStep, Said
<1>5. rite \in 1..counter /\ Opened(rite)
  BY <1>4
<1> HIDE DEF rite
<1>6. rite = grimoire[i].rite
  BY <1>3, <1>5 DEF IsOpenStep, OfStep, Said
<1>7. /\ doing' \in [Branches -> Status] /\ \A b \in Branches : ~InCall(b)'
      /\ got' = [b \in Branches |-> [result |-> got'[b].result, rite |-> got'[b].rite]]
  BY <1>1 DEF Rites, EngineTypes, Idle, Status, InCall
<1> QED BY <1>1, <1>2, <1>3, <1>5, <1>6, <1>7, EndSaid

-----------------------------------------------------------------------------

LEMMA InitEstablishes ==
    ASSUME Init
    PROVE  EngineInv
<1>1. grimoire = <<>> /\ Len(grimoire) = 0 /\ DOMAIN grimoire = {} /\ log = {}
  BY DEF Init, JournalInit
<1>2. grimoire \in Seq(Range(grimoire))
  BY <1>1
<1>3. EngineTypes
  BY <1>1, <1>2 DEF Init, EngineTypes, Idle, Nothing, Status, Said
<1>4. CallsOpen
  BY DEF Init, Idle, CallsOpen, InCall
<1>5. SaidOnce /\ StepsApart /\ StepOpen
  BY <1>1 DEF Init, SaidOnce, StepsApart, StepOpen, Said
<1>6. LogIsPrefix
  <2>1. 0 \in 0..Len(grimoire) /\ {grimoire[i] : i \in 1..0} = {}
    BY <1>1
  <2> QED BY <1>1, <2>1 DEF LogIsPrefix
<1> QED BY <1>3, <1>4, <1>5, <1>6 DEF EngineInv, Rites

(* A step that says nothing and leaves the log to what it was is one that  *)
(* keeps it a prefix, if it ends the connection or leaves the gap known.   *)
LEMMA LogKept ==
    ASSUME LogIsPrefix, UNCHANGED <<grimoire, log>>,
           ~attached' \/ UNCHANGED <<attached, gapped>>
    PROVE  LogIsPrefix'
  BY DEF LogIsPrefix, Hello

LEMMA EngineStep ==
    ASSUME EngineAssumption, EngineInv, [Next]_vars
    PROVE  EngineInv'
<1> USE DEF EngineInv
<1>1. ASSUME NEW e, e.event # "hello", Emit(e), UNCHANGED attached PROVE LogIsPrefix'
  <2>1. e # Hello
    BY <1>1 DEF Hello
  <2> QED BY <1>1, <2>1, RiteLogged DEF Rites
<1>2. CASE Enters
  BY <1>1, <1>2, EntersSaid DEF Enters, Began
<1>3. ASSUME NEW b \in Branches, Calls(b) PROVE EngineInv'
  BY <1>1, <1>3, CallsSaid DEF Calls, Began
<1>4. ASSUME NEW b \in Branches, Returns(b) PROVE EngineInv'
  BY <1>1, <1>4, ReturnsSaid DEF Returns, Ended
<1>5. ASSUME NEW b \in Branches, Fails(b) PROVE EngineInv'
  BY <1>1, <1>5, FailsSaid DEF Fails, Ended
<1>6. CASE Leaves
  BY <1>1, <1>6, LeavesSaid DEF Leaves, Ended
<1>7. CASE Attaches
  BY <1>7, NothingSaid, HelloLogged DEF Attaches, Backlog, Rites, walk, tasks
<1>8. CASE Restarts
  <2>1. Rites'
    BY <1>8, NothingSaid DEF Restarts, walk, tasks
  <2>2. CASE UNCHANGED log
    BY <1>8, <2>1, <2>2, LogKept DEF Restarts
  <2>3. CASE log' = {}
    <3>1. Len(grimoire) \in Nat /\ grimoire' = grimoire /\ ~attached'
      BY <1>8, OwnRange DEF Rites, EngineTypes, Restarts
    <3>2. 0 \in 0..Len(grimoire') /\ {grimoire'[i] : i \in 1..0} = {}
      BY <3>1
    <3> QED BY <2>1, <2>3, <3>1, <3>2 DEF LogIsPrefix
  <2> QED BY <1>8, <2>2, <2>3 DEF Restarts, Restarted
<1>9. CASE Drops
  BY <1>9, NothingSaid, LogKept DEF Drops, RecordsGoodbye, journal, walk, tasks
<1>10. ASSUME NEW how, how # "body", Finishes(how),
              UNCHANGED <<walk, counter, grimoire, tasks, memory, daemons>>
       PROVE  EngineInv'
  BY <1>10, NothingSaid, LogKept DEF Finishes, RecordsGoodbye, journal, walk, tasks
<1>11. CASE Ends
  BY <1>10, <1>11 DEF Ends
<1>12. CASE Raises
  BY <1>10, <1>12 DEF Raises
<1>13. CASE Dies
  BY <1>13, NothingSaid, LogKept DEF Dies, RecordsGoodbye, journal, walk, tasks
<1>14. CASE Cuts
  BY <1>14, NothingSaid, LogKept DEF Cuts, journal, walk
<1>15. CASE Resumes
  <2>1. grimoire' = <<>> /\ Len(grimoire') = 0 /\ DOMAIN grimoire' = {} /\ log' = {}
    BY <1>15 DEF Resumes
  <2>2. (grimoire \in Seq(Range(grimoire)))'
    BY <2>1
  <2>3. EngineTypes'
    BY <1>15, <2>1, <2>2 DEF Resumes, EngineTypes, Idle, Nothing, Status, Said
  <2>4. CallsOpen'
    BY <1>15 DEF Resumes, Idle, CallsOpen, InCall
  <2>5. SaidOnce' /\ StepsApart' /\ StepOpen'
    BY <1>15, <2>1 DEF Resumes, SaidOnce, StepsApart, StepOpen, Said
  <2>6. LogIsPrefix'
    <3>1. 0 \in 0..Len(grimoire') /\ {grimoire'[i] : i \in 1..0} = {}
      BY <2>1
    <3> QED BY <2>1, <3>1 DEF LogIsPrefix
  <2> QED BY <2>3, <2>4, <2>5, <2>6 DEF Rites
<1>16. CASE UNCHANGED vars
  BY <1>16, NothingSaid, LogKept DEF vars
<1> QED
  BY <1>2, <1>3, <1>4, <1>5, <1>6, <1>7, <1>8, <1>9, <1>11, <1>12, <1>13, <1>14, <1>15,
    <1>16 DEF Next, Work

(* A log that is a prefix of events none of which is another's like has no *)
(* hole.                                                                   *)
LEMMA PrefixHasNoHole ==
    ASSUME EngineInv
    PROVE  NoHole
<1>1. PICK n \in 0..Len(grimoire) : log \ {Hello} = {grimoire[i] : i \in 1..n}
  BY DEF EngineInv, LogIsPrefix
<1>2. Len(grimoire) \in Nat /\ Said = 1..Len(grimoire)
  BY OwnRange DEF EngineInv, Rites, EngineTypes, Said
<1>3. ASSUME NEW j \in Said, Logged(j) PROVE j \in 1..n
  <2>1. grimoire[j] # Hello
    BY DEF Hello, EngineInv, Rites, EngineTypes
  <2>2. PICK k \in 1..n : grimoire[k] = grimoire[j]
    BY <1>1, <1>3, <2>1 DEF Logged
  <2>3. k \in Said
    BY <1>2
  <2> QED BY <2>2, <2>3 DEF EngineInv, Rites, SaidOnce
<1>4. ASSUME NEW i \in Said, NEW j \in Said, i < j, Logged(j) PROVE Logged(i)
  <2>1. i \in 1..n
    BY <1>2, <1>3, <1>4
  <2> QED BY <1>1, <2>1 DEF Logged
<1> QED BY <1>4 DEF NoHole, Said

(* The log of a cast is a prefix of what it did: a resume never finds a    *)
(* rite recorded past one that is missing (links/journal.py, resume.py).   *)
THEOREM NoHoleCorrect == Spec => []NoHole
<1>1. EngineInv /\ [Next]_vars => EngineInv'
  BY EngineStep, EngineAssumption
<1> QED BY <1>1, InitEstablishes, PrefixHasNoHole, PTL DEF Spec

-----------------------------------------------------------------------------
(* What a resume replays.                                                  *)

(* What a resume finds recorded in a log.                                  *)
EntriesOf(said) ==
    {[rite |-> p[1].rite, name |-> p[1].name, of |-> p[1].of,
      result |-> p[2].result, session |-> p[2].session] :
        p \in {q \in said \X said :
            /\ q[1].event = "began" /\ q[2].event = "ended" /\ q[1].rite = q[2].rite
            /\ q[1].of[3] # 0 /\ q[2].status = "ok"}}

(* None is apart from what stands where it may stand.                      *)
NoneApart ==
    /\ None \notin Branches \cup {"timeout", "cancel"}
    /\ \A said : None # EntriesOf(said)

Replayable == Repeatable /\ NoneApart

(* A body is a row of calls: At(p, s, i) is the i-th of step s, of payload *)
(* p, and the step's own rite for i = 0.                                   *)
Size(p) == IF Len(Body[p]) = 1 THEN Len(Body[p][1]) ELSE Len(Body[p])
At(p, s, i) ==
    IF i = 0 THEN <<p, s, 0, 0>>
    ELSE IF Len(Body[p]) = 1 THEN <<p, s, 1, i>> ELSE <<p, s, i, 1>>

(* The call whose result the step reads, when all of them return.          *)
Read(p) == IF Len(Body[p]) = 1 THEN Len(Body[p][1]) ELSE 1

(* Where the step goes by it.                                              *)
Goes(p, r) == IF Exit[p][r] = Raise THEN Recovery[p] ELSE Exit[p][r]

Events == {grimoire[i] : i \in DOMAIN grimoire}
Opens(said) == {e \in said : e.event = "began"}

(* A call and the end of it, when it returned.                             *)
Returned(c, f) ==
    /\ c.event = "began" /\ f.event = "ended" /\ c.rite = f.rite
    /\ c.of[3] # 0 /\ f.status = "ok"

Gave(said, of, r) == \E c, f \in said : Returned(c, f) /\ c.of = of /\ f.result = r

(* All the calls of a step returned, the one it reads with `r`.            *)
Well(said, p, s, r) ==
    /\ \A i \in 1..Size(p) : \E x \in Results : Gave(said, At(p, s, i), x)
    /\ Gave(said, At(p, s, Read(p)), r)

(* A step after one that left its row at its j-th call: where that one     *)
(* went, if all its calls returned.                                        *)
Enterable(said, p, s, rite) ==
    \/ rite = 1 /\ s = 1 /\ p = First
    \/ \E d \in Opens(said), q \in Payload : \E j \in 1..Size(q) :
          /\ d.rite = rite - 1 /\ d.of = At(q, s - 1, j)
          /\ \A r \in Results : Well(said, q, s - 1, r) => j = Size(q) /\ p = Goes(q, r)

(* What the events of every run are like: no two rites or ends of a rite   *)
(* are the same, each rite follows the one before it in its row, and each  *)
(* row the last.                                                           *)
Apart(said) ==
    \A d, e \in said : d.event = e.event /\ d.rite = e.rite => d = e
Shaped(said) ==
    \A e \in Opens(said) :
        /\ e.rite \in Nat \ {0}
        /\ \E p \in Payload, s \in 1..MaxSteps : \E i \in 0..Size(p) :
              /\ e.of = At(p, s, i)
              /\ i > 0 => e.name = Medium[Body[p][e.of[3]][e.of[4]]]
OfApart(said) ==
    \A d, e \in Opens(said) :
        /\ d.of = e.of => d = e
        /\ d.of[2] = e.of[2] => d.of[1] = e.of[1]
Rows(said) ==
    \A e \in Opens(said), p \in Payload, s \in 1..MaxSteps :
        /\ e.of = At(p, s, 0) => Enterable(said, p, s, e.rite)
        /\ \A i \in 1..Size(p) : e.of = At(p, s, i) =>
              \E d \in Opens(said) : d.rite = e.rite - 1 /\ d.of = At(p, s, i - 1)
Answered(said) ==
    \A c, f \in said : Returned(c, f) => f.result \in Results

Legal(said) ==
    Apart(said) /\ Shaped(said) /\ OfApart(said) /\ Rows(said) /\ Answered(said)

(* No rite or step is past those counted.                                  *)
Counted == \A e \in Opens(Events) : e.rite \in 1..counter /\ e.of[2] \in 1..steps

(* The row of the body under way has come to its m-th call.                *)
Come(m) ==
    /\ \E e \in Opens(Events) : e.rite = counter /\ e.of = At(payload, steps, m)
    /\ \A i \in 0..m : \E e \in Opens(Events) : e.of = At(payload, steps, i)
    /\ \A e \in Opens(Events) : e.of[2] = steps =>
          \E i \in 0..m : e.of = At(payload, steps, i)
    /\ Len(Body[payload]) = 1 =>
          pos[1] \in 1..Size(payload) /\ pos[1] = IF doing[1] = "ready" THEN m + 1 ELSE m
    /\ Len(Body[payload]) # 1 =>
          \A b \in Mine : pos[b] = 1 /\ (doing[b] = "ready" <=> b > m)

Here(b) == <<payload, steps, b, pos[b]>>

(* What the tasks are at is what was said of them.                         *)
TaskSaid(b) ==
    /\ InCall(b) => \E c \in Opens(Events) : c.rite = got[b].rite /\ c.of = Here(b)
    /\ doing[b] = "done" =>
          pos[b] = Len(Body[payload][b]) /\ Gave(Events, Here(b), got[b].result)
    /\ doing[b] \in {"failed", "cut"} =>
          \E c \in Opens(Events), f \in Events :
              f.event = "ended" /\ f.rite = c.rite /\ f.status # "ok" /\ c.of = Here(b)
    /\ doing[b] = "cut" => Cutting

InBody ==
    /\ payload \in Payload /\ steps \in 1..MaxSteps
    /\ \E m \in 0..Size(payload) : Come(m)
    /\ \A b \in Branches \ Mine : doing[b] = "done"
    /\ \A b \in Mine : TaskSaid(b)
    /\ turn # None => turn \in Mine /\ (doing[turn] = "replayed" \/ Len(Body[payload]) = 1)
    /\ outer \in {None, "timeout", "cancel"}
    /\ outer = "timeout" => payload \in Timed

InBetween ==
    /\ payload \in Payload \cup {Done} /\ steps \in 0..MaxSteps
    /\ turn = None /\ outer = None
    /\ Enterable(Events, payload, steps + 1, counter + 1)

RunInv ==
    /\ Legal(Events) /\ Counted /\ pos \in [Branches -> Nat]
    /\ phase = "body" => InBody
    /\ phase = "between" => InBetween
    /\ phase \notin {"body", "killed"} => doing = Idle
    /\ phase = "killed" => ReplayedOwn /\ NotRunAgain

(* Every call so far was found in the record, as the call it is, and gave  *)
(* what it gave.                                                           *)
Found ==
    /\ \A c \in Opens(Events) : c.of[3] # 0 =>
          /\ \E x \in recorded : x.rite = c.rite /\ x.of = c.of
          /\ \/ \E r \in Results : Gave(Events, c.of, r)
             \/ \E b \in Branches : InCall(b) /\ got[b].rite = c.rite
    /\ \A c, f \in Events : Returned(c, f) =>
          \E x \in recorded : x.of = c.of /\ x.result = f.result
    /\ outer = None /\ \A b \in Branches : doing[b] \in {"ready", "replayed", "done"}
    /\ \A c \in Opens(Events) : c.of[2] < steps \/ phase = "between" =>
          \E r \in Results : Well(Events, c.of[1], c.of[2], r)

(* What is recorded is of a run `said`.                                    *)
RecordOf(said) ==
    \A x \in recorded : \E c, f \in said :
        /\ Returned(c, f)
        /\ x.rite = c.rite /\ x.of = c.of /\ x.name = c.name /\ x.result = f.result
Recorded == \E said : Legal(said) /\ RecordOf(said)

(* The first call whose like is not recorded, and all that run are past    *)
(* it, or it.                                                              *)
MissedBy(c) ==
    /\ c.of[3] # 0 /\ \A x \in recorded : x.of # c.of
    /\ \A b \in Branches : doing[b] = "live" => got[b].rite >= c.rite

(* The ledger is what was recorded until a call is not in it.              *)
Spent ==
    \/ ledger = None /\ recorded = {} /\ \A b \in Branches : doing[b] # "replayed"
    \/ ledger # None /\ ledger = recorded /\ (phase \in {"between", "body"} => Found)
    \/ ledger = {} /\ \E c \in Opens(Events) : MissedBy(c)

ReplayInv == RunInv /\ Recorded /\ Spent

-----------------------------------------------------------------------------
(* Rows.                                                                   *)

LEMMA BodyShape ==
    ASSUME EngineAssumption, Replayable, NEW p \in Payload
    PROVE  /\ DOMAIN Body[p] = 1..Len(Body[p]) /\ Len(Body[p]) \in Nat \ {0}
           /\ \A b \in DOMAIN Body[p] :
                 /\ Len(Body[p][b]) \in Nat \ {0} /\ b \in Branches
                 /\ \A i \in 1..Len(Body[p][b]) : Body[p][b][i] \in DOMAIN Medium
           /\ Size(p) \in Nat \ {0} /\ Read(p) \in 1..Size(p)
           /\ Len(Body[p]) # 1 => Size(p) = Len(Body[p]) /\ Read(p) = 1
                                  /\ \A b \in DOMAIN Body[p] : Len(Body[p][b]) = 1
           /\ Len(Body[p]) = 1 => Size(p) = Len(Body[p][1]) /\ Read(p) = Len(Body[p][1])
                                  /\ DOMAIN Body[p] = {1}
<1>1. Body[p] \in Seq(Seq(DOMAIN Medium)) /\ Body[p] # <<>>
  BY DEF EngineAssumption, Replayable, Repeatable, NoneApart
<1>2. /\ DOMAIN Body[p] = 1..Len(Body[p]) /\ Len(Body[p]) \in Nat
      /\ \A b \in DOMAIN Body[p] : Body[p][b] \in Seq(DOMAIN Medium)
  BY <1>1, LenProperties
<1>3. Len(Body[p]) # 0
  BY <1>1, EmptySeq
<1>4. ASSUME NEW b \in DOMAIN Body[p]
      PROVE  /\ Len(Body[p][b]) \in Nat \ {0} /\ b \in Branches
             /\ \A i \in 1..Len(Body[p][b]) : Body[p][b][i] \in DOMAIN Medium
  <2>1. Body[p][b] \in Seq(DOMAIN Medium) /\ Body[p][b] # <<>>
    BY <1>2 DEF Replayable, Repeatable, NoneApart
  <2>2. /\ Len(Body[p][b]) \in Nat /\ Len(Body[p][b]) # 0
        /\ \A i \in 1..Len(Body[p][b]) : Body[p][b][i] \in DOMAIN Medium
    BY <2>1, LenProperties, EmptySeq
  <2> QED BY <2>2 DEF Branches
<1>5. Len(Body[p]) = 1 \/ \A b \in DOMAIN Body[p] : Len(Body[p][b]) = 1
  BY DEF Replayable, Repeatable, NoneApart
<1>6. CASE Len(Body[p]) = 1
  <2>1. DOMAIN Body[p] = {1}
    BY <1>2, <1>6
  <2> QED BY <1>2, <1>4, <1>6, <2>1 DEF Size, Read
<1>7. CASE Len(Body[p]) # 1
  BY <1>2, <1>3, <1>4, <1>5, <1>7 DEF Size, Read
<1> QED BY <1>6, <1>7

(* Places in rows are apart.                                               *)
LEMMA AtApart ==
    ASSUME NEW p, NEW s, NEW i \in Nat
    PROVE  /\ At(p, s, i)[1] = p /\ At(p, s, i)[2] = s /\ (At(p, s, i)[3] = 0 <=> i = 0)
           /\ \A q, t : \A j \in Nat : At(p, s, i) = At(q, t, j) => p = q /\ s = t /\ i = j
<1>1. /\ At(p, s, i)[1] = p /\ At(p, s, i)[2] = s
      /\ (At(p, s, i)[3] = 0 <=> i = 0)
  BY DEF At
<1>2. ASSUME NEW q, NEW t, NEW j \in Nat, At(p, s, i) = At(q, t, j)
      PROVE  p = q /\ s = t /\ i = j
  <2>1. p = q /\ s = t
    BY <1>2 DEF At
  <2>2. i = j
    BY <1>2, <2>1 DEF At
  <2> QED BY <2>1, <2>2
<1> QED BY <1>1, <1>2

(* What the body under way calls next is next in its row.                  *)
LEMMA HereIsAt ==
    ASSUME EngineAssumption, Replayable, payload \in Payload, NEW b \in Mine,
           Len(Body[payload]) # 1 => pos[b] = 1, pos[b] \in Nat \ {0}
    PROVE  Here(b) = At(payload, steps, IF Len(Body[payload]) = 1 THEN pos[b] ELSE b)
<1>1. b \in Nat \ {0} /\ (Len(Body[payload]) = 1 => b = 1)
  BY BodyShape DEF Mine
<1> QED BY <1>1 DEF Here, At

-----------------------------------------------------------------------------
(* What more is said.                                                      *)

(* A rite begun gives nothing yet.                                         *)
LEMMA BegunGives ==
    ASSUME NEW said, NEW e, e.event = "began", \A d \in said : d.rite # e.rite
    PROVE  \A of, r : Gave(said \cup {e}, of, r) <=> Gave(said, of, r)
<1>1. ASSUME NEW c \in said \cup {e}, NEW f \in said \cup {e}, Returned(c, f)
      PROVE  c \in said /\ f \in said
  <2>1. f # e
    BY <1>1 DEF Returned
  <2> QED BY <1>1, <2>1 DEF Returned
<1> QED BY <1>1 DEF Gave

(* A rite ended gives what it ended with.                                  *)
LEMMA EndedGives ==
    ASSUME NEW said, NEW e, e.event = "ended"
    PROVE  /\ \A of, r : Gave(said, of, r) => Gave(said \cup {e}, of, r)
           /\ \A of, r : Gave(said \cup {e}, of, r) =>
                 \/ Gave(said, of, r)
                 \/ \E c \in Opens(said) : Returned(c, e) /\ c.of = of /\ e.result = r
           /\ \A c \in Opens(said) : Returned(c, e) => Gave(said \cup {e}, c.of, e.result)
  BY DEF Gave, Returned, Opens

LEMMA OpensMore ==
    ASSUME NEW said, NEW e
    PROVE  /\ e.event = "began" => Opens(said \cup {e}) = Opens(said) \cup {e}
           /\ e.event # "began" => Opens(said \cup {e}) = Opens(said)
  BY DEF Opens

(* What gave in an earlier step gives in a later one.                      *)
LEMMA StillEnterable ==
    ASSUME NEW before, NEW after, Opens(before) \subseteq Opens(after),
           NEW p, NEW s, NEW rite, Enterable(before, p, s, rite),
           \A q \in Payload : \A i \in 1..Size(q) : \A r :
              Gave(after, At(q, s - 1, i), r) => Gave(before, At(q, s - 1, i), r),
           \A q \in Payload : Read(q) \in 1..Size(q)
    PROVE  Enterable(after, p, s, rite)
<1>1. ASSUME NEW q \in Payload, NEW r, Well(after, q, s - 1, r)
      PROVE  Well(before, q, s - 1, r)
  BY <1>1 DEF Well
<1>2. CASE rite = 1 /\ s = 1 /\ p = First
  BY <1>2 DEF Enterable
<1>3. ASSUME NEW d \in Opens(before), NEW q \in Payload, NEW j \in 1..Size(q),
             d.rite = rite - 1, d.of = At(q, s - 1, j),
             \A r \in Results : Well(before, q, s - 1, r) => j = Size(q) /\ p = Goes(q, r)
      PROVE  Enterable(after, p, s, rite)
  BY <1>1, <1>3 DEF Enterable
<1> QED BY <1>2, <1>3 DEF Enterable

(* A rite that may begin after those.                                      *)
Follows(said, e) ==
    /\ e.event = "began" /\ e.rite \in Nat \ {0} /\ \A d \in said : d.rite # e.rite
    /\ \E p \in Payload, s \in 1..MaxSteps : \E i \in 0..Size(p) :
          /\ e.of = At(p, s, i)
          /\ \A d \in Opens(said) : d.of # e.of /\ (d.of[2] = s => d.of[1] = p)
          /\ i = 0 => Enterable(said, p, s, e.rite)
          /\ i > 0 => /\ e.name = Medium[Body[p][e.of[3]][e.of[4]]]
                      /\ \E d \in Opens(said) : d.rite = e.rite - 1 /\ d.of = At(p, s, i - 1)

LEMMA LegalBegun ==
    ASSUME EngineAssumption, Replayable, NEW said, Legal(said), NEW e, Follows(said, e)
    PROVE  Legal(said \cup {e})
<1>a. e.event = "began" /\ e.rite \in Nat \ {0} /\ \A d \in said : d.rite # e.rite
  BY DEF Follows
<1>b. PICK p \in Payload, s \in 1..MaxSteps : \E i \in 0..Size(p) :
          /\ e.of = At(p, s, i)
          /\ \A d \in Opens(said) : d.of # e.of /\ (d.of[2] = s => d.of[1] = p)
          /\ i = 0 => Enterable(said, p, s, e.rite)
          /\ i > 0 => /\ e.name = Medium[Body[p][e.of[3]][e.of[4]]]
                      /\ \E d \in Opens(said) : d.rite = e.rite - 1 /\ d.of = At(p, s, i - 1)
  BY DEF Follows
<1>c. PICK i \in 0..Size(p) :
          /\ e.of = At(p, s, i)
          /\ \A d \in Opens(said) : d.of # e.of /\ (d.of[2] = s => d.of[1] = p)
          /\ i = 0 => Enterable(said, p, s, e.rite)
          /\ i > 0 => /\ e.name = Medium[Body[p][e.of[3]][e.of[4]]]
                      /\ \E d \in Opens(said) : d.rite = e.rite - 1 /\ d.of = At(p, s, i - 1)
  BY <1>b
<1> USE <1>a, <1>c
<1> DEFINE more == said \cup {e}
<1>1. Opens(more) = Opens(said) \cup {e}
  BY OpensMore
<1>2. \A of, r : Gave(more, of, r) <=> Gave(said, of, r)
  BY BegunGives
<1>3. \A q \in Payload : Size(q) \in Nat /\ Read(q) \in 1..Size(q)
  BY BodyShape
<1>4. Apart(more)
  BY DEF Legal, Apart
<1>5. Shaped(more)
  BY <1>1 DEF Legal, Shaped
<1>6. e.of[1] = p /\ e.of[2] = s
  BY <1>3, AtApart
<1>7. OfApart(more)
  BY <1>1, <1>6 DEF Legal, OfApart
<1>8. \A q, t, rite : Enterable(said, q, t, rite) => Enterable(more, q, t, rite)
  BY <1>1, <1>2, <1>3, StillEnterable
<1>9. Rows(more)
  <2> SUFFICES ASSUME NEW c \in Opens(more), NEW q \in Payload, NEW t \in 1..MaxSteps
               PROVE  /\ c.of = At(q, t, 0) => Enterable(more, q, t, c.rite)
                      /\ \A j \in 1..Size(q) : c.of = At(q, t, j) =>
                            \E d \in Opens(more) : d.rite = c.rite - 1 /\ d.of = At(q, t, j - 1)
    BY DEF Rows
  <2>1. CASE c \in Opens(said)
    <3>1. /\ c.of = At(q, t, 0) => Enterable(said, q, t, c.rite)
          /\ \A j \in 1..Size(q) : c.of = At(q, t, j) =>
                \E d \in Opens(said) : d.rite = c.rite - 1 /\ d.of = At(q, t, j - 1)
      BY <2>1 DEF Legal, Rows
    <3> QED BY <3>1, <1>1, <1>8
  <2>2. CASE c = e
    <3>1. ASSUME NEW j \in Nat, c.of = At(q, t, j) PROVE q = p /\ t = s /\ j = i
      <4>1. At(p, s, i) = At(q, t, j) /\ i \in Nat
        BY <2>2, <3>1, <1>3
      <4> QED BY <4>1, AtApart
    <3>2. c.of = At(q, t, 0) => Enterable(more, q, t, c.rite)
      BY <2>2, <3>1, <1>8
    <3>3. ASSUME NEW j \in 1..Size(q), c.of = At(q, t, j)
          PROVE  \E d \in Opens(more) : d.rite = c.rite - 1 /\ d.of = At(q, t, j - 1)
      <4>1. j \in Nat /\ j > 0
        BY <1>3
      <4>2. q = p /\ t = s /\ j = i
        BY <3>1, <3>3, <4>1
      <4> QED BY <2>2, <4>1, <4>2, <1>1
    <3> QED BY <3>2, <3>3
  <2> QED BY <2>1, <2>2, <1>1
<1>10. Answered(more)
  <2>1. ASSUME NEW c \in more, NEW f \in more, Returned(c, f) PROVE c \in said /\ f \in said
    <3>1. f # e
      BY <2>1 DEF Returned
    <3> QED BY <2>1, <3>1 DEF Returned
  <2> QED BY <2>1 DEF Legal, Answered
<1> QED BY <1>4, <1>5, <1>7, <1>9, <1>10 DEF Legal

LEMMA LegalEnded ==
    ASSUME EngineAssumption, Replayable, NEW said, Legal(said),
           NEW e, e.event = "ended", \A d \in said : d.event = "ended" => d.rite # e.rite,
           NEW s \in Int,
           \A c \in Opens(said) : c.of[2] \in Int /\ c.of[2] <= s,
           \A c \in Opens(said) : Returned(c, e) => c.of[2] = s /\ e.result \in Results
    PROVE  Legal(said \cup {e})
<1> DEFINE more == said \cup {e}
<1>1. Opens(more) = Opens(said)
  BY OpensMore
<1>2. \A q \in Payload : Size(q) \in Nat /\ Read(q) \in 1..Size(q)
  BY BodyShape
<1>3. Apart(more)
  BY DEF Legal, Apart
<1>4. Shaped(more)
  BY <1>1 DEF Legal, Shaped
<1>5. OfApart(more)
  BY <1>1 DEF Legal, OfApart
<1>6. ASSUME NEW q \in Payload, NEW t \in Int, t <= s, NEW rite, Enterable(said, q, t, rite)
      PROVE  Enterable(more, q, t, rite)
  <2> HIDE DEF more
  <2>0. \A of, r2 : Gave(more, of, r2) =>
           \/ Gave(said, of, r2)
           \/ \E c \in Opens(said) : Returned(c, e) /\ c.of = of /\ e.result = r2
    BY EndedGives DEF more
  <2>1. ASSUME NEW q2 \in Payload, NEW i \in 1..Size(q2), NEW r,
               Gave(more, At(q2, t - 1, i), r)
        PROVE  Gave(said, At(q2, t - 1, i), r)
    <3>1. i \in Nat
      BY <1>2
    <3>2. At(q2, t - 1, i)[2] = t - 1 /\ t - 1 # s
      BY <1>6, <3>1, AtApart
    <3>3. ~\E c \in Opens(said) : Returned(c, e) /\ c.of = At(q2, t - 1, i) /\ e.result = r
      BY <3>2
    <3>4. \/ Gave(said, At(q2, t - 1, i), r)
          \/ \E c \in Opens(said) : Returned(c, e) /\ c.of = At(q2, t - 1, i) /\ e.result = r
      BY <2>0, <2>1
    <3> QED BY <3>3, <3>4
  <2> QED BY <2>1, <1>1, <1>2, <1>6, StillEnterable
<1>7. Rows(more)
  <2> SUFFICES ASSUME NEW c \in Opens(more), NEW q \in Payload, NEW t \in 1..MaxSteps
               PROVE  /\ c.of = At(q, t, 0) => Enterable(more, q, t, c.rite)
                      /\ \A j \in 1..Size(q) : c.of = At(q, t, j) =>
                            \E d \in Opens(more) : d.rite = c.rite - 1 /\ d.of = At(q, t, j - 1)
    BY DEF Rows
  <2> c \in Opens(said)
    BY <1>1
  <2>1. c.of = At(q, t, 0) => t <= s
    <3>1. At(q, t, 0)[2] = t
      BY AtApart
    <3>2. c.of[2] <= s
      OBVIOUS
    <3> QED BY <3>1, <3>2
  <2>2. t \in Int
    BY DEF EngineAssumption
  <2>3. /\ c.of = At(q, t, 0) => Enterable(said, q, t, c.rite)
        /\ \A j \in 1..Size(q) : c.of = At(q, t, j) =>
              \E d \in Opens(said) : d.rite = c.rite - 1 /\ d.of = At(q, t, j - 1)
    BY DEF Legal, Rows
  <2> QED BY <2>1, <2>2, <2>3, <1>1, <1>6
<1>8. Answered(more)
  BY DEF Legal, Answered, Returned, Opens
<1> QED BY <1>3, <1>4, <1>5, <1>7, <1>8 DEF Legal

-----------------------------------------------------------------------------
(* Two runs in step: the one under way, all of it found in the record, and *)
(* the one `ran` recorded.                                                 *)

LEMMA FoundRan ==
    ASSUME Found, NEW ran, Legal(ran), RecordOf(ran)
    PROVE  /\ \A c \in Opens(Events) : c.of[3] # 0 =>
                 \E d \in Opens(ran) : d.rite = c.rite /\ d.of = c.of
           /\ \A of, r : Gave(Events, of, r) => Gave(ran, of, r)
           /\ \A x \in recorded : \E d \in Opens(ran) :
                 d.rite = x.rite /\ d.of = x.of /\ d.of[3] # 0 /\ d.name = x.name
<1>1. \A x \in recorded : \E d \in Opens(ran) :
         d.rite = x.rite /\ d.of = x.of /\ d.of[3] # 0 /\ d.name = x.name
  BY DEF RecordOf, Opens, Returned
<1>2. ASSUME NEW c \in Opens(Events), c.of[3] # 0
      PROVE  \E d \in Opens(ran) : d.rite = c.rite /\ d.of = c.of
  <2>1. PICK x \in recorded : x.rite = c.rite /\ x.of = c.of
    BY <1>2 DEF Found
  <2> QED BY <1>1, <2>1
<1>3. ASSUME NEW of, NEW r, Gave(Events, of, r) PROVE Gave(ran, of, r)
  <2>1. PICK c \in Events, f \in Events : Returned(c, f) /\ c.of = of /\ f.result = r
    BY <1>3 DEF Gave
  <2>2. PICK x \in recorded : x.of = c.of /\ x.result = f.result
    BY <2>1 DEF Found
  <2>3. PICK d \in ran, g \in ran : Returned(d, g) /\ x.of = d.of /\ x.result = g.result
    BY DEF RecordOf
  <2> QED BY <2>1, <2>2, <2>3 DEF Gave
<1> QED BY <1>1, <1>2, <1>3

InRow(ran, d, p, s, i) ==
    /\ d.of = At(p, s, i) /\ d.of[2] = s /\ (d.of[3] = 0 <=> i = 0)
    /\ d.rite \in Nat \ {0}
    /\ i > 0 => d.name = Medium[Body[p][d.of[3]][d.of[4]]]
    /\ i = 0 => Enterable(ran, p, s, d.rite)
    /\ i > 0 => \E c \in Opens(ran) : c.rite = d.rite - 1 /\ c.of = At(p, s, i - 1)

(* Each of its rites is some call's or step's, after the one before.       *)
LEMMA RowOf ==
    ASSUME EngineAssumption, Replayable, NEW ran, Legal(ran), NEW d \in Opens(ran)
    PROVE  \E p \in Payload, s \in 1..MaxSteps : \E i \in 0..Size(p) : InRow(ran, d, p, s, i)
<1>1. PICK p \in Payload, s \in 1..MaxSteps : \E i \in 0..Size(p) :
         /\ d.of = At(p, s, i)
         /\ i > 0 => d.name = Medium[Body[p][d.of[3]][d.of[4]]]
  BY DEF Legal, Shaped
<1>2. PICK i \in 0..Size(p) :
         /\ d.of = At(p, s, i)
         /\ i > 0 => d.name = Medium[Body[p][d.of[3]][d.of[4]]]
  BY <1>1
<1>3. Size(p) \in Nat /\ i \in Nat
  BY BodyShape
<1>4. d.of[2] = s /\ (d.of[3] = 0 <=> i = 0)
  BY <1>2, <1>3, AtApart
<1>5. d.rite \in Nat \ {0}
  BY DEF Legal, Shaped
<1>6. i = 0 => Enterable(ran, p, s, d.rite)
  BY <1>2 DEF Legal, Rows
<1>7. ASSUME i > 0
      PROVE  \E c \in Opens(ran) : c.rite = d.rite - 1 /\ c.of = At(p, s, i - 1)
  <2>1. i \in 1..Size(p)
    BY <1>3, <1>7
  <2> QED BY <1>2, <2>1 DEF Legal, Rows
<1> QED BY <1>2, <1>4, <1>5, <1>6, <1>7 DEF InRow

LEMMA RiteOf ==
    ASSUME EngineAssumption, Replayable, NEW ran, Legal(ran), NEW d \in Opens(ran)
    PROVE  d.rite \in Nat \ {0} /\ d.of[2] \in 1..MaxSteps
<1>1. PICK p \in Payload, s \in 1..MaxSteps : \E i \in 0..Size(p) : InRow(ran, d, p, s, i)
  BY RowOf
<1>2. PICK i \in 0..Size(p) : InRow(ran, d, p, s, i)
  BY <1>1
<1> QED BY <1>2 DEF InRow

(* The step the run is in was entered from there in both.                  *)
LEMMA EnteredAlike ==
    ASSUME EngineAssumption, Replayable, RunInv, phase = "body", Found,
           NEW ran, Legal(ran), RecordOf(ran),
           NEW e \in Opens(Events), e.rite = counter, e.of = At(payload, steps, 0),
           counter \in Nat
    PROVE  \/ counter = 1 /\ steps = 1 /\ payload = First
           \/ \E q \in Payload, r \in Results : \E d \in Opens(ran) :
                 /\ steps - 1 \in 1..MaxSteps /\ counter - 1 \in Nat \ {0}
                 /\ d.rite = counter - 1 /\ d.of = At(q, steps - 1, Size(q))
                 /\ Well(ran, q, steps - 1, r) /\ payload = Goes(q, r)
<1>1. payload \in Payload /\ steps \in 1..MaxSteps
  BY DEF RunInv, InBody
<1>2. Enterable(Events, payload, steps, counter)
  BY <1>1 DEF RunInv, Legal, Rows
<1>3. ASSUME NEW c \in Opens(Events), NEW q \in Payload, NEW j \in 1..Size(q),
             c.rite = counter - 1, c.of = At(q, steps - 1, j),
             \A r \in Results : Well(Events, q, steps - 1, r) => j = Size(q) /\ payload = Goes(q, r)
      PROVE  \E r \in Results : \E d \in Opens(ran) :
                 /\ steps - 1 \in 1..MaxSteps /\ counter - 1 \in Nat \ {0}
                 /\ d.rite = counter - 1 /\ d.of = At(q, steps - 1, Size(q))
                 /\ Well(ran, q, steps - 1, r) /\ payload = Goes(q, r)
  <2>1. Size(q) \in Nat /\ j \in Nat /\ j # 0
    BY BodyShape
  <2>2. c.of[1] = q /\ c.of[2] = steps - 1 /\ c.of[3] # 0
    BY <1>3, <2>1, AtApart
  <2>3. PICK r \in Results : Well(Events, c.of[1], c.of[2], r)
    <3>1. MaxSteps \in Nat /\ c.of[2] < steps
      BY <1>1, <2>2 DEF EngineAssumption
    <3> QED BY <3>1 DEF Found
  <2>4. j = Size(q) /\ payload = Goes(q, r) /\ Well(Events, q, steps - 1, r)
    BY <1>3, <2>2, <2>3
  <2>5. Well(ran, q, steps - 1, r)
    <3>1. \A of, x : Gave(Events, of, x) => Gave(ran, of, x)
      BY FoundRan
    <3> QED BY <2>4, <3>1 DEF Well
  <2>6. PICK d \in Opens(ran) : d.rite = c.rite /\ d.of = c.of
    BY <2>2, FoundRan
  <2>7. d.rite \in Nat \ {0} /\ steps - 1 \in 1..MaxSteps
    <3>1. c.of[2] \in 1..MaxSteps
      BY RiteOf DEF RunInv
    <3>2. d.rite \in Nat \ {0}
      BY RiteOf
    <3> QED BY <2>2, <3>1, <3>2
  <2> QED BY <1>3, <2>4, <2>5, <2>6, <2>7
<1> QED BY <1>2, <1>3 DEF Enterable

(* The rite the run has come to is that of the same call or step in both.  *)
LEMMA BegunAlike ==
    ASSUME EngineAssumption, Replayable, RunInv, phase = "body", Found, counter \in Nat,
           NEW ran, Legal(ran), RecordOf(ran),
           NEW m \in 0..Size(payload), Come(m), NEW d \in Opens(ran)
    PROVE  d.rite = counter <=> d.of = At(payload, steps, m)
<1>1. payload \in Payload /\ steps \in 1..MaxSteps /\ MaxSteps \in Nat
  BY DEF RunInv, InBody, EngineAssumption
<1>2. PICK e \in Opens(Events) : e.rite = counter /\ e.of = At(payload, steps, m)
  BY DEF Come
<1>3. Size(payload) \in Nat /\ m \in Nat
  BY <1>1, BodyShape
<1>4. \A c \in Opens(ran) : (c.rite = d.rite => c = d) /\ (c.of = d.of => c = d)
  BY DEF Legal, Apart, OfApart, Opens
<1>5. PICK p \in Payload, s \in 1..MaxSteps : \E i \in 0..Size(p) : InRow(ran, d, p, s, i)
  BY RowOf
<1>6. PICK i \in 0..Size(p) :
         /\ d.of = At(p, s, i)
         /\ d.rite \in Nat \ {0}
         /\ i = 0 => Enterable(ran, p, s, d.rite)
         /\ i > 0 => \E c \in Opens(ran) : c.rite = d.rite - 1 /\ c.of = At(p, s, i - 1)
  <2>1. PICK i \in 0..Size(p) : InRow(ran, d, p, s, i)
    BY <1>5
  <2> QED BY <2>1 DEF InRow
<1>7. Size(p) \in Nat /\ i \in Nat
  BY BodyShape
<1>8. CASE m # 0
  <2>1. e.of[3] # 0
    BY <1>2, <1>3, <1>8, AtApart
  <2>2. PICK c \in Opens(ran) : c.rite = e.rite /\ c.of = e.of
    BY <2>1, FoundRan
  <2> QED BY <1>2, <1>4, <2>2
<1>9. CASE m = 0 /\ counter = 1 /\ steps = 1 /\ payload = First
  <2>1. \A c \in Opens(ran) : c.rite \in Nat \ {0}
    BY DEF Legal, Shaped
  <2>2. ASSUME d.rite = 1 PROVE d.of = At(payload, steps, 0)
    <3>1. i = 0
      BY <1>6, <1>7, <2>1, <2>2
    <3>2. s = 1 /\ p = First
      BY <1>6, <2>1, <2>2, <3>1 DEF Enterable
    <3> QED BY <1>6, <1>9, <3>1, <3>2
  <2>3. ASSUME d.of = At(payload, steps, 0) PROVE d.rite = 1
    <3>0. At(p, s, i) = At(payload, steps, 0)
      BY <1>6, <2>3
    <3>1. p = payload /\ s = 1 /\ i = 0
      BY <1>7, <1>9, <3>0, AtApart
    <3>2. ASSUME NEW c \in Opens(ran), NEW q \in Payload, NEW j \in 1..Size(q),
                 c.of = At(q, s - 1, j)
          PROVE  FALSE
      <4>1. j \in Nat
        BY BodyShape
      <4>2. c.of[2] = 0
        BY <3>1, <3>2, <4>1, AtApart
      <4>3. c.of[2] \in 1..MaxSteps
        BY RiteOf
      <4> QED BY <1>1, <4>2, <4>3
    <3> QED BY <1>6, <3>1, <3>2 DEF Enterable
  <2> QED BY <1>9, <2>2, <2>3
<1>10. ASSUME m = 0, NEW q \in Payload, NEW r \in Results, NEW c \in Opens(ran),
              steps - 1 \in 1..MaxSteps, counter - 1 \in Nat \ {0},
              c.rite = counter - 1, c.of = At(q, steps - 1, Size(q)),
              Well(ran, q, steps - 1, r), payload = Goes(q, r)
       PROVE  d.rite = counter <=> d.of = At(payload, steps, 0)
  <2>1. Size(q) \in Nat \ {0}
    BY BodyShape
  <2>2. \A b \in Opens(ran) : (b.rite = c.rite => b = c) /\ (b.of = c.of => b = c)
    BY DEF Legal, Apart, OfApart, Opens
  <2>3. c.of[1] = q /\ c.of[2] = steps - 1
    BY <1>10, <2>1, AtApart
(* A rite that enters a step from a call of the one before.                *)
  <2>4. ASSUME NEW b \in Opens(ran), NEW q2 \in Payload, NEW j \in 1..Size(q2),
               b.rite = d.rite - 1, b.of = At(q2, s - 1, j),
               \A x \in Results : Well(ran, q2, s - 1, x) => j = Size(q2) /\ p = Goes(q2, x),
               d.rite = counter \/ s = steps
        PROVE  b = c /\ q2 = q /\ s = steps /\ p = payload
    <3>1. Size(q2) \in Nat /\ j \in Nat
      BY BodyShape
    <3>2. b.of[1] = q2 /\ b.of[2] = s - 1
      BY <2>4, <3>1, AtApart
    <3>3. CASE d.rite = counter
      <4>1. b = c
        BY <1>10, <2>2, <2>4, <3>3
      <4>2. q2 = q /\ s = steps
        BY <1>1, <2>3, <3>2, <4>1
      <4> QED BY <1>10, <2>4, <4>1, <4>2
    <3>4. CASE s = steps
      <4>1. q2 = q
        BY <2>3, <3>2, <3>4 DEF Legal, OfApart
      <4>2. j = Size(q) /\ p = payload
        BY <1>10, <2>4, <3>4, <4>1
      <4>3. b = c
        BY <1>10, <2>2, <2>4, <3>4, <4>1, <4>2
      <4> QED BY <3>4, <4>1, <4>2, <4>3
    <3> QED BY <2>4, <3>3, <3>4
  <2>5. ASSUME d.rite = counter PROVE d.of = At(payload, steps, 0)
    <3>1. i = 0
      <4> SUFFICES ASSUME i > 0 PROVE FALSE
        BY <1>7
      <4>1. PICK b \in Opens(ran) : b.rite = d.rite - 1 /\ b.of = At(p, s, i - 1)
        BY <1>6
      <4>2. At(p, s, i - 1) = At(q, steps - 1, Size(q)) /\ i - 1 \in Nat
        BY <1>7, <1>10, <2>2, <2>5, <4>1
      <4>3. p = q /\ i - 1 = Size(q)
        BY <2>1, <4>2, AtApart
      <4> QED BY <2>1, <4>3
    <3>2. ~(d.rite = 1)
      BY <1>10, <2>5
    <3>3. p = payload /\ s = steps
      BY <1>6, <2>4, <2>5, <3>1, <3>2 DEF Enterable
    <3> QED BY <1>6, <3>1, <3>3
  <2>6. ASSUME d.of = At(payload, steps, 0) PROVE d.rite = counter
    <3>0. At(p, s, i) = At(payload, steps, 0)
      BY <1>6, <2>6
    <3>1. p = payload /\ s = steps /\ i = 0
      BY <1>7, <3>0, AtApart
    <3>2. ~(s = 1)
      BY <1>1, <1>10, <3>1
    <3>3. c.rite = d.rite - 1
      BY <1>6, <2>4, <3>1, <3>2 DEF Enterable
    <3> QED BY <1>6, <1>10, <3>3
  <2> QED BY <2>5, <2>6
<1> QED BY <1>2, <1>8, <1>9, <1>10, EnteredAlike

(* So that its next call is the same: what the record has of that rite is  *)
(* of that call, and what it has of that call is of that rite.             *)
LEMMA NextAlike ==
    ASSUME EngineAssumption, Replayable, RunInv, phase = "body", Found, counter \in Nat,
           NEW ran, Legal(ran), RecordOf(ran),
           NEW m \in 0..Size(payload), Come(m), NEW x \in recorded
    PROVE  /\ x.rite = counter + 1 => x.of = At(payload, steps, m + 1)
           /\ x.of = At(payload, steps, m + 1) => x.rite = counter + 1
<1>1. payload \in Payload /\ steps \in 1..MaxSteps
  BY DEF RunInv, InBody
<1>2. Size(payload) \in Nat /\ m \in Nat
  BY <1>1, BodyShape
<1>3. PICK d \in Opens(ran) : d.rite = x.rite /\ d.of = x.of /\ d.of[3] # 0
  BY FoundRan
<1>4. PICK p \in Payload, s \in 1..MaxSteps : \E i \in 0..Size(p) : InRow(ran, d, p, s, i)
  BY RowOf
<1>5. PICK i \in 0..Size(p) :
         /\ d.of = At(p, s, i) /\ i # 0 /\ d.rite \in Nat \ {0}
         /\ i > 0 => \E c \in Opens(ran) : c.rite = d.rite - 1 /\ c.of = At(p, s, i - 1)
  <2>1. PICK i \in 0..Size(p) : InRow(ran, d, p, s, i)
    BY <1>4
  <2> QED BY <1>3, <2>1 DEF InRow
<1>6. Size(p) \in Nat /\ i \in Nat \ {0} /\ i - 1 \in Nat
  BY <1>5, BodyShape
<1>7. PICK c \in Opens(ran) : c.rite = d.rite - 1 /\ c.of = At(p, s, i - 1)
  BY <1>5, <1>6
<1>8. c.rite = counter <=> c.of = At(payload, steps, m)
  BY BegunAlike
<1>9. ASSUME x.rite = counter + 1 PROVE x.of = At(payload, steps, m + 1)
  <2>1. At(p, s, i - 1) = At(payload, steps, m)
    BY <1>3, <1>5, <1>7, <1>8, <1>9
  <2>2. p = payload /\ s = steps /\ i - 1 = m
    BY <1>2, <1>6, <2>1, AtApart
  <2> QED BY <1>2, <1>3, <1>5, <1>6, <2>2
<1>10. ASSUME x.of = At(payload, steps, m + 1) PROVE x.rite = counter + 1
  <2>0. At(p, s, i) = x.of
    BY <1>3, <1>5
  <2>1. At(p, s, i) = At(payload, steps, m + 1)
    BY <1>10, <2>0
  <2>2. p = payload /\ s = steps /\ i = m + 1
    <3>1. m + 1 \in Nat
      BY <1>2
    <3> QED BY <1>6, <2>1, <3>1, AtApart
  <2>3. i - 1 = m
    BY <1>2, <2>2
  <2>4. d.rite - 1 = counter
    BY <1>7, <1>8, <2>2, <2>3
  <2>5. d.rite \in Nat
    BY <1>5
  <2> QED BY <1>3, <2>4, <2>5
<1> QED BY <1>9, <1>10

-----------------------------------------------------------------------------
(* What the invariant says of the properties.                              *)

LEMMA EventsOf ==
    ASSUME Rites
    PROVE  /\ \A d \in Events : d.event \in {"began", "ended"} /\ d.rite \in 1..counter
           /\ \A b \in Branches : InCall(b) =>
                 /\ got[b].rite \in 1..counter
                 /\ \A d \in Events : d.event = "ended" => d.rite # got[b].rite
           /\ steps \in Nat /\ counter \in Nat
           /\ \A e : Emit(e) => Events' = Events \cup {e}
<1>1. \A d \in Events : d.event \in {"began", "ended"} /\ d.rite \in 1..counter
  BY DEF Events, Rites, EngineTypes, Said
<1>2. \A b \in Branches : InCall(b) =>
         got[b].rite \in 1..counter /\ \A d \in Events : d.event = "ended" => d.rite # got[b].rite
  BY DEF Events, Rites, CallsOpen, HasEnded, Said
<1>3. ASSUME NEW e, Emit(e) PROVE Events' = Events \cup {e}
  <2>1. /\ Len(grimoire) \in Nat /\ DOMAIN grimoire = 1..Len(grimoire)
        /\ DOMAIN grimoire' = 1..Len(grimoire) + 1
        /\ \A i \in 1..Len(grimoire) : grimoire'[i] = grimoire[i]
        /\ grimoire'[Len(grimoire) + 1] = e
    BY <1>3, OneMore DEF Emit, Rites, EngineTypes
  <2>2. Events' = {grimoire'[i] : i \in 1..Len(grimoire) + 1}
    BY <2>1 DEF Events
  <2>3. 1..Len(grimoire) + 1 = 1..Len(grimoire) \cup {Len(grimoire) + 1}
    BY <2>1
  <2> QED BY <2>1, <2>2, <2>3 DEF Events
<1> QED BY <1>1, <1>2, <1>3 DEF Rites, EngineTypes

LEMMA RecordAlike ==
    ASSUME Recorded, NEW x \in recorded, NEW y \in recorded, x.rite = y.rite
    PROVE  x.of = y.of /\ x.name = y.name /\ x.result = y.result
<1>1. PICK ran : Legal(ran) /\ RecordOf(ran)
  BY DEF Recorded
<1>2. PICK c \in ran, f \in ran :
        Returned(c, f) /\ x.rite = c.rite /\ x.of = c.of /\ x.name = c.name /\ x.result = f.result
  BY <1>1 DEF RecordOf
<1>3. PICK d \in ran, g \in ran :
        Returned(d, g) /\ y.rite = d.rite /\ y.of = d.of /\ y.name = d.name /\ y.result = g.result
  BY <1>1 DEF RecordOf
<1>4. c = d /\ f = g
  <2>1. \A u, v \in ran : u.event = v.event /\ u.rite = v.rite => u = v
    BY <1>1 DEF Legal, Apart
  <2>2. c.event = d.event /\ c.rite = d.rite
    BY <1>2, <1>3 DEF Returned
  <2>3. f.event = g.event /\ f.rite = g.rite
    BY <1>2, <1>3, <2>2 DEF Returned
  <2> QED BY <2>1, <2>2, <2>3
<1> QED BY <1>2, <1>3, <1>4

LEMMA ReplayedAsRecorded ==
    ASSUME Rites, ReplayInv
    PROVE  ReplayedOwn /\ NotRunAgain
<1>1. CASE phase = "killed"
  BY <1>1 DEF ReplayInv, RunInv
<1>2. CASE phase \notin {"body", "killed"}
  BY <1>2 DEF ReplayInv, RunInv, Idle, ReplayedOwn, NotRunAgain
<1>3. CASE phase = "body"
  <2>1. ASSUME NEW b \in Branches, InCall(b)
        PROVE  \E c \in Opens(Events) : c.rite = got[b].rite /\ c.of = Here(b)
    BY <1>3, <2>1 DEF ReplayInv, RunInv, InBody, TaskSaid, InCall
  <2>2. ASSUME NEW b \in Branches, doing[b] = "replayed",
               NEW e \in Take(got[b].rite, Medium[Call(b)])
        PROVE  e.of = Here(b)
    <3>1. PICK c \in Opens(Events) : c.rite = got[b].rite /\ c.of = Here(b)
      BY <2>1, <2>2 DEF InCall
    <3>2. e \in ledger /\ e.rite = c.rite
      BY <2>2, <3>1 DEF Take
    <3>3. ledger = recorded /\ Found
      BY <1>3, <2>2, <3>2 DEF ReplayInv, Spent
    <3>4. c.of[3] # 0
      <4>1. 0 \notin Branches
        BY BranchNumbers, EngineAssumption
      <4> QED BY <3>1, <4>1 DEF Here
    <3>5. PICK x \in recorded : x.rite = c.rite /\ x.of = c.of
      BY <3>3, <3>4 DEF Found
    <3> QED BY <3>1, <3>2, <3>3, <3>5, RecordAlike DEF ReplayInv
  <2>3. ASSUME NEW b \in Branches, doing[b] = "live", NEW x \in recorded, x.of = Here(b)
        PROVE  \E id \in 1..got[b].rite - 1 : Missed(id)
    <3>1. PICK c \in Opens(Events) : MissedBy(c)
      BY <1>3, <2>3 DEF ReplayInv, Spent, Found
    <3>2. PICK d \in Opens(Events) : d.rite = got[b].rite /\ d.of = Here(b)
      BY <2>1, <2>3 DEF InCall
    <3>3. c.rite # d.rite
      BY <2>3, <3>1, <3>2 DEF MissedBy, ReplayInv, RunInv, Legal, Apart, Opens
    <3>4. c.rite \in 1..counter /\ d.rite \in 1..counter /\ counter \in Nat
      BY EventsOf DEF Opens
    <3>5. got[b].rite >= c.rite
      BY <2>3, <3>1 DEF MissedBy
    <3>6. c.rite \in 1..got[b].rite - 1
      BY <3>2, <3>3, <3>4, <3>5
    <3>7. Missed(c.rite)
      BY <3>1 DEF Missed, MissedBy, Opens, Events
    <3> QED BY <3>6, <3>7
  <2> QED BY <2>2, <2>3 DEF ReplayedOwn, NotRunAgain, Here
<1> QED BY <1>1, <1>2, <1>3

-----------------------------------------------------------------------------
(* The tasks of a body.                                                    *)

LEMMA Alike ==
    ASSUME ReplayInv,
           UNCHANGED <<phase, walk, counter, grimoire, tasks, ledger, recorded>>
    PROVE  ReplayInv'
<1> USE DEF walk, tasks
<1>1. Events' = Events
  BY DEF Events
<1>2. (ReplayedOwn /\ NotRunAgain)' <=> (ReplayedOwn /\ NotRunAgain)
  BY DEF ReplayedOwn, NotRunAgain, Missed, Take, Call
<1>3. Counted' <=> Counted
  BY <1>1 DEF Counted
<1>4. InBody' <=> InBody
  <2>1. \A m : Come(m)' <=> Come(m)
    BY <1>1 DEF Come, Mine
  <2>2. \A b : TaskSaid(b)' <=> TaskSaid(b)
    BY <1>1 DEF TaskSaid, InCall, Here, Cutting, Racers, Mine
  <2> QED BY <2>1, <2>2 DEF InBody, Mine
<1>5. InBetween' <=> InBetween
  BY <1>1 DEF InBetween
<1>6. RunInv'
  BY <1>1, <1>2, <1>3, <1>4, <1>5 DEF ReplayInv, RunInv
<1>7. Recorded'
  BY DEF ReplayInv, Recorded, RecordOf
<1>8. Spent'
  BY <1>1 DEF ReplayInv, Spent, Found, MissedBy, InCall
<1> QED BY <1>6, <1>7, <1>8 DEF ReplayInv

(* Where a task is.                                                        *)
LEMMA TaskPlace ==
    ASSUME EngineAssumption, Replayable, RunInv, phase = "body",
           NEW m \in 0..Size(payload), Come(m), NEW b \in Mine
    PROVE  /\ b \in Branches /\ b \in Nat \ {0} /\ m \in Nat /\ Size(payload) \in Nat
           /\ pos[b] \in 1..Len(Body[payload][b]) /\ Len(Body[payload][b]) \in Nat
           /\ Call(b) \in DOMAIN Medium
           /\ Len(Body[payload]) = 1 =>
                 /\ b = 1 /\ Size(payload) = Len(Body[payload][b])
                 /\ pos[b] = IF doing[b] = "ready" THEN m + 1 ELSE m
           /\ Len(Body[payload]) # 1 =>
                 /\ pos[b] = 1 /\ Len(Body[payload][b]) = 1 /\ b <= Size(payload)
                 /\ (doing[b] = "ready" <=> b > m)
                 /\ \A a \in 1..b : a \in Mine
           /\ Here(b) = At(payload, steps, IF Len(Body[payload]) = 1 THEN pos[b] ELSE b)
<1>1. payload \in Payload
  BY DEF RunInv, InBody
<1>2. /\ Mine = 1..Len(Body[payload]) /\ Len(Body[payload]) \in Nat \ {0}
      /\ Len(Body[payload][b]) \in Nat \ {0} /\ b \in Branches
      /\ \A i \in 1..Len(Body[payload][b]) : Body[payload][b][i] \in DOMAIN Medium
      /\ Size(payload) \in Nat \ {0}
      /\ Len(Body[payload]) # 1 => Size(payload) = Len(Body[payload]) /\ Len(Body[payload][b]) = 1
      /\ Len(Body[payload]) = 1 => Size(payload) = Len(Body[payload][1]) /\ Mine = {1}
  BY <1>1, BodyShape DEF Mine
<1>3. b \in Nat \ {0} /\ m \in Nat
  BY <1>2
<1>4. CASE Len(Body[payload]) = 1
  <2>1. b = 1 /\ pos[1] \in 1..Size(payload) /\ pos[1] = IF doing[1] = "ready" THEN m + 1 ELSE m
    BY <1>2, <1>4 DEF Come
  <2>2. pos[b] \in 1..Len(Body[payload][b])
    BY <1>2, <1>4, <2>1
  <2>3. Here(b) = At(payload, steps, pos[b])
    BY <1>4, <2>1, <1>2 DEF Here, At
  <2> QED BY <1>2, <1>3, <1>4, <2>1, <2>2, <2>3 DEF Call
<1>5. CASE Len(Body[payload]) # 1
  <2>1. pos[b] = 1 /\ (doing[b] = "ready" <=> b > m)
    BY <1>5 DEF Come
  <2>2. Here(b) = At(payload, steps, b)
    BY <1>3, <1>5, <2>1 DEF Here, At
  <2>3. pos[b] \in 1..Len(Body[payload][b]) /\ b <= Size(payload) /\ \A a \in 1..b : a \in Mine
    BY <1>2, <1>3, <1>5, <2>1
  <2> QED BY <1>2, <1>3, <1>5, <2>1, <2>2, <2>3 DEF Call
<1> QED BY <1>4, <1>5

(* A branch still cut is.                                                  *)
LEMMA CuttingKept ==
    ASSUME payload' = payload, outer' = outer \/ outer = None, outer' = None => outer = None,
           \A a \in Mine : doing[a] \in {"failed", "done"} => doing'[a] = doing[a]
    PROVE  Cutting => Cutting'
  BY DEF Cutting, Racers, Mine

(* What was said of a task that does not move was said of it.              *)
LEMMA TaskKept ==
    ASSUME NEW a, TaskSaid(a), UNCHANGED <<payload, steps>>, doing'[a] = doing[a],
           pos'[a] = pos[a], got'[a] = got[a], Events \subseteq Events', Cutting => Cutting'
    PROVE  TaskSaid(a)'
<1>1. Opens(Events) \subseteq Opens(Events')
  BY DEF Opens
<1>2. \A of, r : Gave(Events, of, r) => Gave(Events', of, r)
  BY DEF Gave
<1> QED BY <1>1, <1>2 DEF TaskSaid, InCall, Here

-----------------------------------------------------------------------------
(* Steps that say something.                                               *)

(* The events of a step said no more of.                                   *)
LEMMA RecordedKept ==
    ASSUME Recorded, UNCHANGED recorded
    PROVE  Recorded'
  BY DEF Recorded, RecordOf

LEMMA EntersRun ==
    ASSUME EngineAssumption, Replayable, Rites, RunInv, Enters
    PROVE  RunInv'
<1> DEFINE e == Began(counter + 1, StepOf[payload], <<payload, steps + 1, 0, 0>>)
<1>1. /\ phase = "between" /\ phase' = "body" /\ payload # Done /\ steps < MaxSteps
      /\ steps' = steps + 1 /\ counter' = counter + 1 /\ Emit(e)
      /\ UNCHANGED <<payload, turn, outer>>
      /\ doing' = [b \in Branches |-> IF b \in DOMAIN Body[payload] THEN "ready" ELSE "done"]
      /\ pos' = [b \in Branches |-> 1]
  BY DEF Enters
<1>2. e.event = "began" /\ e.rite = counter + 1 /\ e.of = At(payload, steps + 1, 0)
  BY DEF Began, At
<1> HIDE DEF e
<1>3. /\ payload \in Payload /\ steps \in Nat /\ counter \in Nat /\ turn = None /\ outer = None
      /\ steps + 1 \in 1..MaxSteps
      /\ Enterable(Events, payload, steps + 1, counter + 1)
  BY <1>1, EventsOf DEF RunInv, InBetween, EngineAssumption
<1>4. Events' = Events \cup {e} /\ Opens(Events') = Opens(Events) \cup {e}
  BY <1>1, <1>2, EventsOf, OpensMore
<1>5. \A d \in Events : d.rite \in 1..counter
  BY EventsOf
<1>6. \A d \in Opens(Events) : d.of[2] \in 1..steps
  BY DEF RunInv, Counted
<1>7. e.of[2] = steps + 1
  BY <1>2, AtApart
<1>8. Size(payload) \in Nat \ {0}
  BY <1>3, BodyShape
<1>9. Legal(Events')
  <2>1. \A d \in Opens(Events) : d.of # e.of /\ (d.of[2] = steps + 1 => d.of[1] = payload)
    BY <1>3, <1>6, <1>7
  <2>2. \A d \in Events : d.rite # e.rite
    BY <1>2, <1>3, <1>5
  <2>3. 0 \in 0..Size(payload) /\ e.rite \in Nat \ {0}
    BY <1>2, <1>3, <1>8
  <2>4. Enterable(Events, payload, steps + 1, e.rite)
    BY <1>2, <1>3
  <2>5. Follows(Events, e)
    <3>1. \E i \in 0..Size(payload) :
             /\ e.of = At(payload, steps + 1, i)
             /\ \A d \in Opens(Events) : d.of # e.of /\ (d.of[2] = steps + 1 => d.of[1] = payload)
             /\ i = 0 => Enterable(Events, payload, steps + 1, e.rite)
             /\ i > 0 => /\ e.name = Medium[Body[payload][e.of[3]][e.of[4]]]
                         /\ \E d \in Opens(Events) :
                               d.rite = e.rite - 1 /\ d.of = At(payload, steps + 1, i - 1)
      <4> 0 \in 0..Size(payload)
        BY <2>3
      <4> WITNESS 0 \in 0..Size(payload)
      <4> QED BY <1>2, <2>1, <2>4
    <3> QED BY <1>2, <1>3, <2>2, <2>3, <3>1 DEF Follows
  <2> QED BY <1>4, <2>5, LegalBegun DEF RunInv
<1>10. Counted'
  <2> SUFFICES ASSUME NEW d \in Opens(Events')
               PROVE  d.rite \in 1..counter' /\ d.of[2] \in 1..steps'
    BY DEF Counted
  <2>1. CASE d = e
    BY <1>1, <1>2, <1>3, <1>7, <2>1
  <2>2. CASE d \in Opens(Events)
    BY <1>1, <1>3, <1>5, <1>6, <2>2 DEF Opens
  <2> QED BY <1>4, <2>1, <2>2
<1>11. pos' \in [Branches -> Nat]
  BY <1>1
<1>12. \A b \in Branches : doing'[b] = IF b \in Mine THEN "ready" ELSE "done"
  BY <1>1 DEF Mine
<1>13. Mine' = Mine /\ Mine \subseteq Branches /\ \A b \in Mine : b \in Nat \ {0}
  <2>1. Mine' = Mine
    BY <1>1 DEF Mine
  <2>2. /\ Mine = 1..Len(Body[payload]) /\ Len(Body[payload]) \in Nat
        /\ \A b \in Mine : b \in Branches
    BY <1>3, BodyShape DEF Mine
  <2> QED BY <2>1, <2>2
<1>14. Come(0)'
  <2>1. \E d \in Opens(Events') : d.rite = counter' /\ d.of = At(payload', steps', 0)
    BY <1>1, <1>2, <1>4
  <2>2. \A i \in 0..0 : \E d \in Opens(Events') : d.of = At(payload', steps', i)
    BY <2>1
  <2>3. \A d \in Opens(Events') : d.of[2] = steps' => \E i \in 0..0 : d.of = At(payload', steps', i)
    <3>1. \A d \in Opens(Events) : d.of[2] # steps + 1
      BY <1>3, <1>6
    <3>2. 0 \in 0..0
      OBVIOUS
    <3> QED BY <1>1, <1>2, <1>4, <3>1, <3>2
  <2>4. Len(Body[payload]) = 1 => 1 \in Mine
    BY <1>3, BodyShape DEF Mine
  <2>5. Len(Body[payload]) = 1 => pos'[1] \in 1..Size(payload) /\ pos'[1] = 1 /\ doing'[1] = "ready"
    BY <1>1, <1>8, <1>12, <1>13, <2>4
  <2>6. \A b \in Mine : pos'[b] = 1 /\ doing'[b] = "ready" /\ b > 0
    BY <1>1, <1>12, <1>13
  <2>7. (Len(Body[payload]) = 1 =>
            pos[1] \in 1..Size(payload) /\ pos[1] = IF doing[1] = "ready" THEN 0 + 1 ELSE 0)'
    BY <1>1, <2>5
  <2>8. (Len(Body[payload]) # 1 =>
            \A b \in Mine : pos[b] = 1 /\ (doing[b] = "ready" <=> b > 0))'
    BY <1>13, <2>6
  <2> QED BY <2>1, <2>2, <2>3, <2>7, <2>8 DEF Come
<1>15. InBody'
  <2>1. 0 \in 0..Size(payload')
    BY <1>1, <1>8
  <2>2. \A b \in Mine : TaskSaid(b)'
    BY <1>12, <1>13 DEF TaskSaid, InCall
  <2>3. (\A b \in Mine : TaskSaid(b))' /\ (\A b \in Branches \ Mine : doing[b] = "done")'
    BY <1>12, <1>13, <2>2
  <2>4. (\E m \in 0..Size(payload) : Come(m))'
    BY <1>14, <2>1
  <2>5. (payload \in Payload /\ steps \in 1..MaxSteps)' /\ turn' = None /\ outer' = None
    BY <1>1, <1>3
  <2>6. None # "timeout"
    BY DEF Replayable, Repeatable, NoneApart
  <2> QED BY <2>3, <2>4, <2>5, <2>6 DEF InBody
<1> QED BY <1>1, <1>9, <1>10, <1>11, <1>15 DEF RunInv

LEMMA EntersSpent ==
    ASSUME EngineAssumption, Replayable, Rites, ReplayInv, Enters
    PROVE  Spent'
<1> DEFINE e == Began(counter + 1, StepOf[payload], <<payload, steps + 1, 0, 0>>)
<1>1. /\ phase = "between" /\ phase' = "body"
      /\ steps' = steps + 1 /\ counter' = counter + 1 /\ Emit(e)
      /\ UNCHANGED <<payload, turn, outer, ledger, recorded>>
      /\ doing' = [b \in Branches |-> IF b \in DOMAIN Body[payload] THEN "ready" ELSE "done"]
  BY DEF Enters, memory
<1>2. e.event = "began" /\ e.rite = counter + 1 /\ e.of[3] = 0 /\ e.of[2] = steps + 1
  BY DEF Began
<1> HIDE DEF e
<1>3. /\ Events' = Events \cup {e} /\ Opens(Events') = Opens(Events) \cup {e}
      /\ steps \in Nat /\ counter \in Nat /\ \A d \in Events : d.rite \in 1..counter
  <2>1. Events' = Events \cup {e}
    BY <1>1, EventsOf
  <2>2. steps \in Nat /\ counter \in Nat /\ \A d \in Events : d.rite \in 1..counter
    BY EventsOf, Rites
  <2> QED BY <1>2, <2>1, <2>2, OpensMore
<1>4. \A of, r : Gave(Events', of, r) <=> Gave(Events, of, r)
  <2>1. \A d \in Events : d.rite # e.rite
    BY <1>2, <1>3
  <2> QED BY <1>2, <1>3, <2>1, BegunGives
<1>5. \A b \in Branches : doing'[b] \in {"ready", "done"}
  BY <1>1
<1>6. CASE ledger = None /\ recorded = {}
  BY <1>1, <1>5, <1>6 DEF Spent
<1>7. CASE ledger # None /\ ledger = recorded /\ Found
  <2>1. ASSUME NEW c \in Opens(Events'), c.of[3] # 0
        PROVE  /\ \E x \in recorded : x.rite = c.rite /\ x.of = c.of
               /\ \E r \in Results : Gave(Events', c.of, r)
    <3>1. c \in Opens(Events)
      BY <1>2, <1>3, <2>1
    <3>2. \A b \in Branches : ~InCall(b)
      BY <1>1 DEF InCall, ReplayInv, RunInv, Idle
    <3> QED BY <1>4, <1>7, <2>1, <3>1, <3>2 DEF Found
  <2>2. ASSUME NEW c \in Events', NEW f \in Events', Returned(c, f)
        PROVE  \E x \in recorded : x.of = c.of /\ x.result = f.result
    <3>1. c \in Events /\ f \in Events
      BY <1>2, <1>3, <2>2 DEF Returned
    <3> QED BY <1>7, <2>2, <3>1 DEF Found
  <2>3. ASSUME NEW c \in Opens(Events'), c.of[2] < steps'
        PROVE  \E r \in Results : Well(Events', c.of[1], c.of[2], r)
    <3>1. c \in Opens(Events)
      <4>1. CASE c = e
        BY <1>1, <1>2, <1>3, <2>3, <4>1
      <4> QED BY <1>3, <4>1
    <3> QED BY <1>1, <1>4, <1>7, <3>1 DEF Found, Well
  <2>4. Found'
    BY <1>1, <1>5, <1>7, <2>1, <2>2, <2>3 DEF Found
  <2> QED BY <1>1, <1>7, <2>4 DEF Spent
<1>8. ASSUME ledger = {}, NEW c \in Opens(Events), MissedBy(c) PROVE Spent'
  BY <1>1, <1>3, <1>5, <1>8 DEF Spent, MissedBy
<1> QED BY <1>1, <1>6, <1>7, <1>8 DEF ReplayInv, Spent

LEMMA CallsNext ==
    ASSUME EngineAssumption, Replayable, RunInv, NEW b \in Branches, Calls(b),
           NEW m \in 0..Size(payload), Come(m)
    PROVE  /\ b \in Mine /\ m \in Nat /\ m + 1 \in 1..Size(payload)
           /\ Here(b) = At(payload, steps, m + 1)
           /\ Len(Body[payload]) # 1 => b = m + 1
<1>1. phase = "body" /\ doing[b] = "ready" /\ HasTurn(b)
  BY DEF Calls
<1>2. b \in Mine
  BY <1>1 DEF RunInv, InBody
<1>3. /\ b \in Nat \ {0} /\ m \in Nat /\ Size(payload) \in Nat
      /\ pos[b] \in 1..Len(Body[payload][b])
      /\ Len(Body[payload]) = 1 => Size(payload) = Len(Body[payload][b]) /\ pos[b] = m + 1
      /\ Len(Body[payload]) # 1 => b <= Size(payload) /\ b > m /\ \A a \in 1..b : a \in Mine
      /\ Here(b) = At(payload, steps, IF Len(Body[payload]) = 1 THEN pos[b] ELSE b)
  BY <1>1, <1>2, TaskPlace
<1>4. CASE Len(Body[payload]) = 1
  BY <1>2, <1>3, <1>4
<1>5. CASE Len(Body[payload]) # 1
  <2>1. turn = None /\ \A a \in Mine : a < b => doing[a] # "ready"
    <3>1. turn # b
      BY <1>1, <1>5 DEF RunInv, InBody, Replayable, Repeatable, NoneApart
    <3> QED BY <1>1, <3>1 DEF HasTurn
  <2>2. b = m + 1
    <3> SUFFICES ASSUME m + 1 < b PROVE FALSE
      BY <1>3, <1>5
    <3>1. m + 1 \in Mine
      BY <1>3, <1>5
    <3>2. doing[m + 1] = "ready"
      <4>1. doing[m + 1] = "ready" <=> m + 1 > m
        BY <1>1, <1>5, <3>1, TaskPlace
      <4> QED BY <1>3, <4>1
    <3> QED BY <2>1, <3>1, <3>2
  <2> QED BY <1>2, <1>3, <1>5, <2>2
<1> QED BY <1>4, <1>5

LEMMA CallsRun ==
    ASSUME EngineAssumption, Replayable, Rites, RunInv, NEW b \in Branches, Calls(b)
    PROVE  RunInv'
<1> DEFINE e == Began(counter + 1, Medium[Call(b)], Here(b))
<1>1. /\ phase = "body" /\ doing[b] = "ready"
      /\ counter' = counter + 1 /\ Emit(e)
      /\ UNCHANGED <<phase, payload, steps, pos, outer>>
      /\ doing' \in {[doing EXCEPT ![b] = "replayed"], [doing EXCEPT ![b] = "live"]}
      /\ turn' = None \/ (turn' = b /\ doing' = [doing EXCEPT ![b] = "replayed"])
      /\ got' = [got EXCEPT ![b] = [result |-> None, rite |-> counter + 1]]
  BY DEF Calls, walk, Here
<1>2. e.event = "began" /\ e.rite = counter + 1 /\ e.of = Here(b) /\ e.name = Medium[Call(b)]
  BY DEF Began
<1> HIDE DEF e
<1>3. InBody /\ Legal(Events) /\ Counted /\ pos \in [Branches -> Nat]
  BY <1>1 DEF RunInv
<1>4. payload \in Payload /\ steps \in 1..MaxSteps /\ steps \in Nat /\ counter \in Nat
  BY <1>3, EventsOf DEF InBody
<1>5. PICK m \in 0..Size(payload) : Come(m)
  BY <1>3 DEF InBody
<1>6. /\ b \in Mine /\ m \in Nat /\ m + 1 \in 1..Size(payload) /\ Size(payload) \in Nat
      /\ Here(b) = At(payload, steps, m + 1)
      /\ Len(Body[payload]) # 1 => b = m + 1
  BY <1>4, <1>5, CallsNext, BodyShape
<1>7. Events' = Events \cup {e} /\ Opens(Events') = Opens(Events) \cup {e}
  <2>1. Events' = Events \cup {e}
    BY <1>1, EventsOf
  <2> QED BY <1>2, <2>1, OpensMore
<1>8. /\ \A d \in Events : d.rite \in 1..counter
      /\ \A d \in Opens(Events) : d.of[2] \in 1..steps
  BY <1>3, EventsOf DEF Counted
<1>9. e.of[1] = payload /\ e.of[2] = steps /\ e.of[3] = b /\ e.of[4] = pos[b]
  BY <1>2 DEF Here
<1>10. \A d \in Opens(Events) : d.of[2] = steps =>
          \E i \in 0..m : d.of = At(payload, steps, i) /\ d.of[1] = payload /\ d.of # e.of
  <2> SUFFICES ASSUME NEW d \in Opens(Events), d.of[2] = steps
               PROVE  \E i \in 0..m :
                        d.of = At(payload, steps, i) /\ d.of[1] = payload /\ d.of # e.of
    OBVIOUS
  <2>1. PICK i \in 0..m : d.of = At(payload, steps, i)
    BY <1>5 DEF Come
  <2>2. i \in Nat /\ m + 1 \in Nat /\ i # m + 1
    BY <1>6
  <2>3. At(payload, steps, i) # At(payload, steps, m + 1) /\ At(payload, steps, i)[1] = payload
    BY <2>2, AtApart
  <2> QED BY <1>2, <1>6, <2>1, <2>3
<1>11. Legal(Events')
  <2>1. \A d \in Events : d.rite # e.rite
    BY <1>2, <1>4, <1>8
  <2>2. \A d \in Opens(Events) : d.of # e.of /\ (d.of[2] = steps => d.of[1] = payload)
    BY <1>9, <1>10
  <2>3. e.name = Medium[Body[payload][e.of[3]][e.of[4]]]
    BY <1>2, <1>9 DEF Call
  <2>4. PICK d \in Opens(Events) : d.rite = counter /\ d.of = At(payload, steps, m)
    BY <1>5 DEF Come
  <2>5. d.rite = e.rite - 1 /\ (m + 1) - 1 = m
    BY <1>2, <1>4, <1>6, <2>4
  <2>6. \E i \in 0..Size(payload) :
             /\ e.of = At(payload, steps, i)
             /\ \A c \in Opens(Events) : c.of # e.of /\ (c.of[2] = steps => c.of[1] = payload)
             /\ i = 0 => Enterable(Events, payload, steps, e.rite)
             /\ i > 0 => /\ e.name = Medium[Body[payload][e.of[3]][e.of[4]]]
                         /\ \E c \in Opens(Events) :
                               c.rite = e.rite - 1 /\ c.of = At(payload, steps, i - 1)
    <3> m + 1 \in 0..Size(payload) /\ m + 1 # 0
      BY <1>6
    <3> WITNESS m + 1 \in 0..Size(payload)
    <3> QED BY <1>2, <1>6, <2>2, <2>3, <2>4, <2>5
  <2>7. e.rite \in Nat \ {0}
    BY <1>2, <1>4
  <2>8. Follows(Events, e)
    BY <1>2, <1>4, <2>1, <2>6, <2>7 DEF Follows
  <2> QED BY <1>3, <1>7, <2>8, LegalBegun
<1>12. Counted'
  <2> SUFFICES ASSUME NEW d \in Opens(Events')
               PROVE  d.rite \in 1..counter' /\ d.of[2] \in 1..steps'
    BY DEF Counted
  <2>1. CASE d = e
    BY <1>1, <1>2, <1>4, <1>9, <2>1
  <2>2. CASE d \in Opens(Events)
    BY <1>1, <1>4, <1>8, <2>2 DEF Opens
  <2> QED BY <1>7, <2>1, <2>2
<1>13. /\ Mine' = Mine /\ \A a \in Mine : a \in Branches /\ a \in Nat \ {0}
       /\ \A a \in Branches \ {b} : doing'[a] = doing[a] /\ got'[a] = got[a]
       /\ doing'[b] \in {"live", "replayed"} /\ got'[b].rite = counter + 1
  <2>1. Mine' = Mine
    BY <1>1 DEF Mine
  <2>2. \A a \in Mine : a \in Branches /\ a \in Nat \ {0}
    BY <1>1, <1>5, TaskPlace
  <2>3. DOMAIN got = Branches /\ DOMAIN doing = Branches
    BY DEF Rites, EngineTypes
  <2>4. /\ \A a \in Branches \ {b} : doing'[a] = doing[a]
        /\ doing'[b] \in {"live", "replayed"}
    BY <1>1, <2>3
  <2>5. got'[b] = [result |-> None, rite |-> counter + 1]
    BY <1>1, <2>3
  <2>6. \A a \in Branches \ {b} : got'[a] = got[a]
    BY <1>1, <2>3
  <2> QED BY <2>1, <2>2, <2>4, <2>5, <2>6
<1>14. Come(m + 1)'
  <2>1. (\E d \in Opens(Events) : d.rite = counter /\ d.of = At(payload, steps, m + 1))'
    BY <1>1, <1>2, <1>6, <1>7
  <2>2. (\A i \in 0..m + 1 : \E d \in Opens(Events) : d.of = At(payload, steps, i))'
    <3>1. \A i \in 0..m + 1 : i \in 0..m \/ i = m + 1
      BY <1>6
    <3>2. \A i \in 0..m : \E d \in Opens(Events) : d.of = At(payload, steps, i)
      BY <1>5 DEF Come
    <3> QED BY <1>1, <1>7, <2>1, <3>1, <3>2
  <2>3. (\A d \in Opens(Events) : d.of[2] = steps => \E i \in 0..m + 1 : d.of = At(payload, steps, i))'
    <3>1. \A i \in 0..m : i \in 0..m + 1
      BY <1>6
    <3>2. m + 1 \in 0..m + 1
      BY <1>6
    <3> QED BY <1>1, <1>2, <1>6, <1>7, <1>10, <3>1, <3>2
  <2>4. (Len(Body[payload]) = 1 =>
            pos[1] \in 1..Size(payload) /\ pos[1] = IF doing[1] = "ready" THEN m + 1 + 1 ELSE m + 1)'
    <3> SUFFICES ASSUME Len(Body[payload]) = 1
                 PROVE  /\ pos[1] \in 1..Size(payload)
                        /\ pos[1] = m + 1 /\ doing'[1] # "ready"
      BY <1>1
    <3>1. b = 1 /\ pos[b] = m + 1
      BY <1>1, <1>5, <1>6, TaskPlace
    <3> QED BY <1>6, <1>13, <3>1
  <2>5. (Len(Body[payload]) # 1 => \A a \in Mine : pos[a] = 1 /\ (doing[a] = "ready" <=> a > m + 1))'
    <3> SUFFICES ASSUME Len(Body[payload]) # 1, NEW a \in Mine
                 PROVE  pos[a] = 1 /\ (doing'[a] = "ready" <=> a > m + 1)
      BY <1>1, <1>13
    <3>1. pos[a] = 1 /\ (doing[a] = "ready" <=> a > m) /\ a \in Nat
      BY <1>1, <1>5, TaskPlace
    <3>2. CASE a = b
      BY <1>6, <1>13, <3>1, <3>2
    <3>3. CASE a # b
      BY <1>6, <1>13, <3>1, <3>3
    <3> QED BY <3>2, <3>3
  <2> QED BY <2>1, <2>2, <2>3, <2>4, <2>5 DEF Come
<1>15. Cutting => Cutting'
  <2>1. \A a \in Mine : doing[a] \in {"failed", "done"} => doing'[a] = doing[a]
    BY <1>1, <1>13
  <2> QED BY <1>1, <2>1, CuttingKept
<1>16. ASSUME NEW a \in Mine PROVE TaskSaid(a)'
  <2>1. CASE a = b
    <3>1. e \in Opens(Events') /\ e.rite = got'[b].rite /\ e.of = Here(b)'
      BY <1>1, <1>2, <1>7, <1>13 DEF Here
    <3> QED BY <1>13, <2>1, <3>1 DEF TaskSaid
  <2>2. CASE a # b
    <3>1. doing'[a] = doing[a] /\ pos'[a] = pos[a] /\ got'[a] = got[a] /\ Events \subseteq Events'
      BY <1>1, <1>7, <1>13, <2>2
    <3>2. TaskSaid(a) /\ payload' = payload /\ steps' = steps
      BY <1>1, <1>3 DEF InBody
    <3> QED BY <1>15, <3>1, <3>2, TaskKept
  <2> QED BY <2>1, <2>2
<1>17. InBody'
  <2>1. (\E k \in 0..Size(payload) : Come(k))'
    <3>1. m + 1 \in 0..Size(payload)
      BY <1>6
    <3> QED BY <1>1, <1>14, <3>1
  <2>2. (\A a \in Mine : TaskSaid(a))'
    BY <1>13, <1>16
  <2>3. (\A a \in Branches \ Mine : doing[a] = "done")'
    BY <1>3, <1>6, <1>13 DEF InBody
  <2>4. (turn # None => turn \in Mine /\ (doing[turn] = "replayed" \/ Len(Body[payload]) = 1))'
    BY <1>1, <1>6, <1>13 DEF Rites, EngineTypes
  <2>5. (outer \in {None, "timeout", "cancel"} /\ (outer = "timeout" => payload \in Timed))'
    BY <1>1, <1>3 DEF InBody
  <2>6. (payload \in Payload /\ steps \in 1..MaxSteps)'
    BY <1>1, <1>4
  <2> QED BY <2>1, <2>2, <2>3, <2>4, <2>5, <2>6 DEF InBody
<1> QED BY <1>1, <1>3, <1>11, <1>12, <1>17 DEF RunInv

(* What is recorded of a call has its medium's name.                       *)
LEMMA NamedAlike ==
    ASSUME EngineAssumption, Replayable, Found, NEW ran, Legal(ran), RecordOf(ran),
           NEW x \in recorded, NEW p \in Payload, NEW s, NEW i \in Nat, x.of = At(p, s, i)
    PROVE  x.name = Medium[Body[p][x.of[3]][x.of[4]]]
<1>1. PICK d \in Opens(ran) : d.of = x.of /\ d.of[3] # 0 /\ d.name = x.name
  BY FoundRan
<1>2. PICK q \in Payload, t \in 1..MaxSteps : \E j \in 0..Size(q) : InRow(ran, d, q, t, j)
  BY RowOf
<1>3. PICK j \in 0..Size(q) :
         /\ d.of = At(q, t, j)
         /\ d.of[3] = 0 <=> j = 0
         /\ j > 0 => d.name = Medium[Body[q][d.of[3]][d.of[4]]]
  <2>1. PICK j \in 0..Size(q) : InRow(ran, d, q, t, j)
    BY <1>2
  <2> QED BY <2>1 DEF InRow
<1>4. j \in Nat /\ j > 0
  BY <1>1, <1>3, BodyShape
<1>5. At(p, s, i) = At(q, t, j)
  BY <1>1, <1>3
<1>6. q = p
  BY <1>4, <1>5, AtApart
<1> QED BY <1>1, <1>3, <1>4, <1>6

LEMMA CallsSpent ==
    ASSUME EngineAssumption, Replayable, Rites, ReplayInv, NEW b \in Branches, Calls(b)
    PROVE  Spent'
<1> DEFINE name == Medium[Call(b)]
           e == Began(counter + 1, name, Here(b))
<1>1. /\ phase = "body" /\ doing[b] = "ready"
      /\ counter' = counter + 1 /\ Emit(e)
      /\ UNCHANGED <<phase, payload, steps, pos, outer, recorded>>
      /\ ledger' = IF ledger = None THEN None ELSE Left(counter + 1, name)
      /\ doing' = [doing EXCEPT ![b] =
                      IF ledger # None /\ Take(counter + 1, name) # {} THEN "replayed" ELSE "live"]
      /\ got' = [got EXCEPT ![b] = [result |-> None, rite |-> counter + 1]]
  BY DEF Calls, walk, Here
<1>2. e.event = "began" /\ e.rite = counter + 1 /\ e.of = Here(b)
  BY DEF Began
<1> HIDE DEF e
<1>3. e.of[2] = steps /\ e.of[3] = b /\ e.of[4] = pos[b] /\ b # 0
  <2>1. b # 0
    BY BranchNumbers
  <2> QED BY <1>2, <2>1 DEF Here
<1>4. /\ Events' = Events \cup {e} /\ Opens(Events') = Opens(Events) \cup {e}
      /\ steps \in Nat /\ counter \in Nat /\ \A d \in Events : d.rite \in 1..counter
  <2>1. Events' = Events \cup {e}
    BY <1>1, EventsOf
  <2>2. steps \in Nat /\ counter \in Nat /\ \A d \in Events : d.rite \in 1..counter
    BY EventsOf, Rites
  <2> QED BY <1>2, <2>1, <2>2, OpensMore
<1>5. \A of, r : Gave(Events', of, r) <=> Gave(Events, of, r)
  <2>1. \A d \in Events : d.rite # e.rite
    BY <1>2, <1>4
  <2> QED BY <1>2, <1>4, <2>1, BegunGives
<1>6. /\ \A a \in Branches \ {b} : doing'[a] = doing[a] /\ got'[a] = got[a]
      /\ doing'[b] = IF ledger # None /\ Take(counter + 1, name) # {} THEN "replayed" ELSE "live"
      /\ got'[b].rite = counter + 1
  <2>1. DOMAIN got = Branches /\ DOMAIN doing = Branches
    BY DEF Rites, EngineTypes
  <2>2. got'[b] = [result |-> None, rite |-> counter + 1]
    BY <1>1, <2>1
  <2>3. \A a \in Branches \ {b} : got'[a] = got[a]
    BY <1>1, <2>1
  <2> QED BY <1>1, <2>1, <2>2, <2>3
<1>7. CASE ledger = None /\ recorded = {} /\ \A a \in Branches : doing[a] # "replayed"
  <2>1. ledger' = None /\ recorded' = {} /\ \A a \in Branches : doing'[a] # "replayed"
    BY <1>1, <1>6, <1>7
  <2> QED BY <2>1 DEF Spent
<1>8. ASSUME ledger = {}, NEW c \in Opens(Events), MissedBy(c) PROVE Spent'
  <2>2. None # {}
    <3>1. EntriesOf({}) = {}
      BY DEF EntriesOf
    <3> QED BY <3>1 DEF Replayable, Repeatable, NoneApart
  <2>3. ledger' = {}
    BY <1>1, <1>8, <2>2 DEF Left
  <2>4. c.rite \in 1..counter
    BY <1>4 DEF Opens
  <2>5. \A a \in Branches : doing'[a] = "live" => got'[a].rite >= c.rite
    <3> SUFFICES ASSUME NEW a \in Branches, doing'[a] = "live" PROVE got'[a].rite >= c.rite
      OBVIOUS
    <3>1. CASE a = b
      BY <1>4, <1>6, <2>4, <3>1
    <3>2. CASE a # b
      BY <1>6, <1>8, <3>2 DEF MissedBy
    <3> QED BY <3>1, <3>2
  <2>6. MissedBy(c)'
    BY <1>1, <1>8, <2>5 DEF MissedBy
  <2> QED BY <1>4, <2>3, <2>6 DEF Spent
<1>9. CASE ledger # None /\ ledger = recorded /\ Found
  <2>1. PICK ran : Legal(ran) /\ RecordOf(ran)
    BY DEF ReplayInv, Recorded
  <2>2. RunInv /\ InBody
    BY <1>1 DEF ReplayInv, RunInv
  <2>3. PICK m \in 0..Size(payload) : Come(m)
    BY <2>2 DEF InBody
  <2>4. m \in Nat /\ Here(b) = At(payload, steps, m + 1) /\ payload \in Payload
    BY <2>2, <2>3, CallsNext DEF InBody
  <2>5. \A x \in recorded : x.rite = counter + 1 <=> x.of = Here(b)
    BY <1>1, <1>4, <1>9, <2>1, <2>2, <2>3, <2>4, NextAlike
  <2>6. CASE Take(counter + 1, name) = {}
    <3>1. ASSUME NEW x \in recorded, x.of = Here(b) PROVE FALSE
      <4>1. m + 1 \in Nat
        BY <2>4
      <4>2. x.name = Medium[Body[payload][x.of[3]][x.of[4]]]
        BY <1>9, <2>1, <2>4, <3>1, <4>1, NamedAlike
      <4>3. x.name = name
        BY <1>2, <1>3, <3>1, <4>2 DEF Call
      <4>4. x.rite = counter + 1
        BY <2>5, <3>1
      <4> QED BY <1>9, <2>6, <4>3, <4>4 DEF Take
    <3>2. ledger' = {}
      BY <1>1, <1>9, <2>6 DEF Left
    <3>3. ASSUME NEW a \in Branches, doing'[a] = "live"
          PROVE  got'[a].rite >= e.rite
      <4>1. a = b
        BY <1>6, <1>9, <3>3 DEF Found
      <4> QED BY <1>2, <1>4, <1>6, <4>1
    <3>4. PICK c \in Opens(Events') : c = e
      BY <1>4
    <3>5. MissedBy(c)'
      BY <1>1, <1>2, <1>3, <3>1, <3>3, <3>4 DEF MissedBy
    <3> QED BY <3>2, <3>5 DEF Spent
  <2>7. CASE Take(counter + 1, name) # {}
    <3>1. PICK x \in recorded : x.rite = counter + 1
      BY <1>9, <2>7 DEF Take
    <3>2. x.of = Here(b)
      BY <2>5, <3>1
    <3>3. ledger' = ledger /\ doing'[b] = "replayed"
      BY <1>1, <1>6, <1>9, <2>7 DEF Left
    <3>4. ASSUME NEW c \in Opens(Events'), c.of[3] # 0
          PROVE  /\ \E y \in recorded : y.rite = c.rite /\ y.of = c.of
                 /\ \/ \E r \in Results : Gave(Events', c.of, r)
                    \/ \E a \in Branches : InCall(a)' /\ got'[a].rite = c.rite
      <4>1. CASE c = e
        BY <1>2, <1>6, <3>1, <3>2, <3>3, <4>1 DEF InCall
      <4>2. CASE c \in Opens(Events)
        <5>1. \A a \in Branches : InCall(a) => InCall(a)' /\ got'[a] = got[a]
          BY <1>1, <1>6 DEF InCall
        <5>2. /\ \E y \in recorded : y.rite = c.rite /\ y.of = c.of
              /\ \/ \E r \in Results : Gave(Events, c.of, r)
                 \/ \E a \in Branches : InCall(a) /\ got[a].rite = c.rite
          BY <1>9, <3>4, <4>2 DEF Found
        <5> QED BY <1>5, <5>1, <5>2
      <4> QED BY <1>4, <4>1, <4>2
    <3>5. ASSUME NEW c \in Events', NEW f \in Events', Returned(c, f)
          PROVE  \E y \in recorded : y.of = c.of /\ y.result = f.result
      <4>1. f \in Events
        BY <1>2, <1>4, <3>5 DEF Returned
      <4>2. c \in Events
        BY <1>2, <1>4, <3>5, <4>1 DEF Returned
      <4> QED BY <1>9, <3>5, <4>1, <4>2 DEF Found
    <3>6. ASSUME NEW c \in Opens(Events'), c.of[2] < steps
          PROVE  \E r \in Results : Well(Events', c.of[1], c.of[2], r)
      <4>1. c # e
        BY <1>3, <1>4, <3>6
      <4>2. c \in Opens(Events)
        BY <1>4, <4>1
      <4> QED BY <1>5, <1>9, <3>6, <4>2 DEF Found, Well
    <3>7. \A a \in Branches : doing'[a] \in {"ready", "replayed", "done"}
      BY <1>6, <1>9, <3>3 DEF Found
    <3>8. Found'
      BY <1>1, <1>9, <3>4, <3>5, <3>6, <3>7 DEF Found
    <3> QED BY <1>1, <1>9, <3>3, <3>8 DEF Spent
  <2> QED BY <2>6, <2>7
<1> QED BY <1>1, <1>7, <1>8, <1>9 DEF ReplayInv, Spent

(* An end said: of a rite not ended, and what it gives is of this step.    *)
LEMMA EndedLegal ==
    ASSUME EngineAssumption, Replayable, Rites, RunInv,
           NEW f, f.event = "ended", Emit(f), UNCHANGED <<steps, counter>>,
           \A d \in Events : d.event = "ended" => d.rite # f.rite,
           \A c \in Opens(Events) : Returned(c, f) => c.of[2] = steps /\ f.result \in Results
    PROVE  /\ Events' = Events \cup {f} /\ Opens(Events') = Opens(Events)
           /\ Legal(Events') /\ Counted'
<1>1. Events' = Events \cup {f} /\ Opens(Events') = Opens(Events)
  <2>1. Events' = Events \cup {f}
    BY EventsOf
  <2> QED BY <2>1, OpensMore
<1>2. Counted'
  BY <1>1 DEF RunInv, Counted
<1>3. steps \in Int /\ \A c \in Opens(Events) : c.of[2] \in Int /\ c.of[2] <= steps
  BY EventsOf DEF RunInv, Counted
<1>4. Legal(Events \cup {f})
  BY <1>3, LegalEnded DEF RunInv
<1> QED BY <1>1, <1>2, <1>4

LEMMA ComeKept ==
    ASSUME NEW m, Come(m), UNCHANGED <<payload, steps, counter, pos>>,
           Opens(Events') = Opens(Events), Len(Body[payload]) = 1 => 1 \in Mine,
           \A a \in Mine : doing'[a] = "ready" <=> doing[a] = "ready"
    PROVE  Come(m)'
<1>1. Mine' = Mine
  BY DEF Mine
<1> QED BY <1>1 DEF Come

LEMMA ReturnsResult ==
    ASSUME EngineAssumption, Replayable, Rites, ReplayInv, phase = "body",
           NEW b \in Branches, InCall(b), NEW reply \in Returnable(b)
    PROVE  /\ reply.result \in Results
           /\ ledger = recorded /\ Found =>
                 \E x \in recorded : x.of = Here(b) /\ x.result = reply.result
<1>1. b \in Mine /\ InBody
  BY DEF ReplayInv, RunInv, InBody, InCall
<1>2. CASE doing[b] = "live"
  <2>1. Call(b) \in DOMAIN Medium
    BY <1>1, TaskPlace DEF ReplayInv, InBody
  <2>2. PICK r \in Answers[Call(b)] : reply.result = r
    BY <1>2 DEF Returnable, Reply
  <2> QED BY <1>2, <2>1, <2>2 DEF Results, Found
<1>3. CASE doing[b] = "replayed"
  <2>1. PICK x \in Take(got[b].rite, Medium[Call(b)]) : reply.result = x.result
    BY <1>3 DEF Returnable, Prior
  <2>2. x.of = Here(b)
    BY <1>3, <2>1, ReplayedAsRecorded DEF ReplayedOwn, Here
  <2>3. x \in ledger
    BY <2>1 DEF Take
  <2>4. ledger = recorded
    BY <1>3, <2>3 DEF ReplayInv, Spent
  <2>5. PICK ran : Legal(ran) /\ RecordOf(ran)
    BY DEF ReplayInv, Recorded
  <2>6. x.result \in Results
    BY <2>3, <2>4, <2>5 DEF RecordOf, Legal, Answered
  <2> QED BY <2>1, <2>2, <2>3, <2>4, <2>6
<1> QED BY <1>2, <1>3 DEF InCall

LEMMA ReturnsRun ==
    ASSUME EngineAssumption, Replayable, Rites, ReplayInv, NEW b \in Branches, Returns(b)
    PROVE  RunInv'
<1>1. /\ phase = "body" /\ InCall(b)
      /\ UNCHANGED <<phase, payload, steps, counter, outer>>
      /\ \/ /\ pos[b] < Len(Body[payload][b]) /\ turn' = b
            /\ pos' = [pos EXCEPT ![b] = @ + 1] /\ doing' = [doing EXCEPT ![b] = "ready"]
         \/ /\ ~(pos[b] < Len(Body[payload][b])) /\ turn' = None
            /\ pos' = pos /\ doing' = [doing EXCEPT ![b] = "done"]
  BY DEF Returns, walk, InCall
<1>2. PICK reply \in Returnable(b) :
        /\ Emit(Ended(got[b].rite, "ok", reply.result, reply.session))
        /\ got' = [got EXCEPT ![b].result = reply.result]
  BY DEF Returns
<1> DEFINE f == Ended(got[b].rite, "ok", reply.result, reply.session)
<1>3. /\ f.event = "ended" /\ f.rite = got[b].rite /\ f.status = "ok" /\ f.result = reply.result
      /\ Emit(f)
  BY <1>2 DEF Ended
<1> HIDE DEF f
<1>4. RunInv /\ InBody /\ Legal(Events) /\ Counted /\ pos \in [Branches -> Nat]
  BY <1>1 DEF ReplayInv, RunInv
<1>5. payload \in Payload /\ steps \in 1..MaxSteps /\ b \in Mine
  BY <1>1, <1>4 DEF InBody, InCall
<1>6. PICK c \in Opens(Events) : c.rite = got[b].rite /\ c.of = Here(b)
  BY <1>1, <1>4, <1>5 DEF InBody, TaskSaid
<1>7. \A d \in Opens(Events) : Returned(d, f) => d = c
  BY <1>3, <1>4, <1>6 DEF Returned, Legal, Apart, Opens
<1>8. c.of[2] = steps /\ c.of[3] # 0 /\ c.event = "began"
  <2>1. b # 0
    BY BranchNumbers
  <2> QED BY <1>6, <2>1 DEF Here, Opens
<1>9. reply.result \in Results
  BY <1>1, <1>2, ReturnsResult
<1>10. /\ Events' = Events \cup {f} /\ Opens(Events') = Opens(Events)
       /\ Legal(Events') /\ Counted'
  <2>1. \A d \in Events : d.event = "ended" => d.rite # f.rite
    BY <1>1, <1>3, EventsOf
  <2>2. \A d \in Opens(Events) : Returned(d, f) => d.of[2] = steps /\ f.result \in Results
    BY <1>3, <1>7, <1>8, <1>9
  <2>3. UNCHANGED <<steps, counter>>
    BY <1>1
  <2> QED BY <1>3, <1>4, <2>1, <2>2, <2>3, EndedLegal
<1>11. Gave(Events', Here(b), reply.result)
  BY <1>3, <1>6, <1>8, <1>10 DEF Gave, Returned, Opens
<1>12. PICK m \in 0..Size(payload) : Come(m)
  BY <1>4 DEF InBody
<1>13. /\ pos[b] \in 1..Len(Body[payload][b]) /\ Len(Body[payload][b]) \in Nat
       /\ Len(Body[payload]) = 1 => b = 1 /\ Size(payload) = Len(Body[payload][b]) /\ pos[b] = m
       /\ Len(Body[payload]) # 1 => Len(Body[payload][b]) = 1
       /\ \A a \in Mine : a \in Branches
       /\ Len(Body[payload]) = 1 => 1 \in Mine
  BY <1>1, <1>4, <1>5, <1>12, TaskPlace DEF InCall
<1>14. pos[b] < Len(Body[payload][b]) => Len(Body[payload][b]) # 1
  <2>1. \A l \in Nat : \A k \in 1..l : k < l => l # 1
    OBVIOUS
  <2>2. Len(Body[payload][b]) \in Nat /\ pos[b] \in 1..Len(Body[payload][b])
    BY <1>13
  <2> QED BY <2>1, <2>2
<1>15. /\ Mine' = Mine
       /\ \A a \in Branches \ {b} : doing'[a] = doing[a] /\ got'[a] = got[a] /\ pos'[a] = pos[a]
       /\ doing'[b] \in {"ready", "done"} /\ got'[b].result = reply.result
       /\ pos' \in [Branches -> Nat]
  <2>1. Mine' = Mine
    BY <1>1 DEF Mine
  <2>2. DOMAIN got = Branches /\ DOMAIN doing = Branches
    BY DEF Rites, EngineTypes
  <2>3. \A a \in Branches \ {b} : got'[a] = got[a]
    BY <1>2, <2>2
  <2>4. got'[b].result = reply.result
    <3>1. got[b] = [result |-> got[b].result, rite |-> got[b].rite]
      BY DEF Rites, EngineTypes
    <3> QED BY <1>2, <2>2, <3>1
  <2>5. /\ \A a \in Branches \ {b} : doing'[a] = doing[a] /\ pos'[a] = pos[a]
        /\ doing'[b] \in {"ready", "done"} /\ pos' \in [Branches -> Nat]
    BY <1>1, <1>4, <2>2
  <2> QED BY <2>1, <2>3, <2>4, <2>5
<1>16. Come(m)'
  <2>1. CASE ~(pos[b] < Len(Body[payload][b]))
    <3>1. \A a \in Mine : doing'[a] = "ready" <=> doing[a] = "ready"
      BY <1>1, <1>13, <1>15, <2>1 DEF InCall, Rites, EngineTypes
    <3> QED BY <1>1, <1>10, <1>12, <1>13, <2>1, <3>1, ComeKept
  <2>2. CASE pos[b] < Len(Body[payload][b])
    <3>0. Len(Body[payload]) = 1
      <4>1. Len(Body[payload][b]) # 1
        BY <1>14, <2>2
      <4> QED BY <1>13, <4>1
    <3>1. Len(Body[payload]) = 1 /\ b = 1 /\ pos[1] = m /\ Size(payload) = Len(Body[payload][1])
      BY <1>13, <3>0
    <3>2. pos'[1] = m + 1 /\ doing'[1] = "ready" /\ m + 1 \in 1..Size(payload)
      BY <1>1, <1>4, <1>5, <1>13, <2>2, <3>1 DEF Rites, EngineTypes
    <3>3. (\E e \in Opens(Events) : e.rite = counter /\ e.of = At(payload, steps, m))'
      BY <1>1, <1>10, <1>12 DEF Come
    <3>4. (\A i \in 0..m : \E e \in Opens(Events) : e.of = At(payload, steps, i))'
      BY <1>1, <1>10, <1>12 DEF Come
    <3>5. (\A e \in Opens(Events) : e.of[2] = steps => \E i \in 0..m : e.of = At(payload, steps, i))'
      BY <1>1, <1>10, <1>12 DEF Come
    <3> QED BY <1>1, <3>1, <3>2, <3>3, <3>4, <3>5 DEF Come
  <2> QED BY <2>1, <2>2
<1>17. Cutting => Cutting'
  <2>1. \A a \in Mine : doing[a] \in {"failed", "done"} => doing'[a] = doing[a]
    BY <1>1, <1>13, <1>15 DEF InCall
  <2> QED BY <1>1, <2>1, CuttingKept
<1>18. ASSUME NEW a \in Mine PROVE TaskSaid(a)'
  <2>1. CASE a = b
    <3>1. CASE doing'[b] = "ready"
      BY <2>1, <3>1 DEF TaskSaid, InCall
    <3>2. CASE doing'[b] = "done"
      <4>1. pos' = pos /\ pos[b] = Len(Body[payload][b])
        BY <1>1, <1>13, <3>2 DEF Rites, EngineTypes
      <4>2. Here(b)' = Here(b)
        BY <1>1, <4>1 DEF Here
      <4>3. Gave(Events, Here(b), got[b].result)'
        BY <1>11, <1>15, <4>2
      <4> QED BY <1>1, <2>1, <3>2, <4>1, <4>3 DEF TaskSaid, InCall
    <3> QED BY <1>15, <3>1, <3>2
  <2>2. CASE a # b
    <3>1. doing'[a] = doing[a] /\ pos'[a] = pos[a] /\ got'[a] = got[a] /\ Events \subseteq Events'
      BY <1>10, <1>13, <1>15, <2>2
    <3>2. TaskSaid(a) /\ payload' = payload /\ steps' = steps
      BY <1>1, <1>4 DEF InBody
    <3> QED BY <1>17, <3>1, <3>2, TaskKept
  <2> QED BY <2>1, <2>2
<1>19. InBody'
  <2>1. (\E k \in 0..Size(payload) : Come(k))'
    BY <1>1, <1>16
  <2>2. (\A a \in Mine : TaskSaid(a))'
    BY <1>15, <1>18
  <2>3. (\A a \in Branches \ Mine : doing[a] = "done")'
    BY <1>4, <1>5, <1>15 DEF InBody
  <2>4. (turn # None => turn \in Mine /\ (doing[turn] = "replayed" \/ Len(Body[payload]) = 1))'
    <3>1. CASE pos[b] < Len(Body[payload][b])
      <4>1. turn' = b
        BY <1>1, <3>1
      <4>2. Len(Body[payload][b]) # 1
        BY <1>14, <3>1
      <4> QED BY <1>1, <1>5, <1>13, <1>15, <4>1, <4>2
    <3>2. CASE ~(pos[b] < Len(Body[payload][b]))
      BY <1>1, <3>2
    <3> QED BY <3>1, <3>2
  <2>5. (outer \in {None, "timeout", "cancel"} /\ (outer = "timeout" => payload \in Timed))'
    BY <1>1, <1>4 DEF InBody
  <2>6. (payload \in Payload /\ steps \in 1..MaxSteps)'
    BY <1>1, <1>5
  <2> QED BY <2>1, <2>2, <2>3, <2>4, <2>5, <2>6 DEF InBody
<1> QED BY <1>1, <1>10, <1>15, <1>19 DEF RunInv

LEMMA ReturnsSpent ==
    ASSUME EngineAssumption, Replayable, Rites, ReplayInv, NEW b \in Branches, Returns(b)
    PROVE  Spent'
<1>1. /\ phase = "body" /\ InCall(b)
      /\ UNCHANGED <<phase, payload, steps, counter, outer, ledger, recorded>>
      /\ doing' \in {[doing EXCEPT ![b] = "ready"], [doing EXCEPT ![b] = "done"]}
  BY DEF Returns, walk, InCall
<1>2. PICK reply \in Returnable(b) :
        /\ Emit(Ended(got[b].rite, "ok", reply.result, reply.session))
        /\ got' = [got EXCEPT ![b].result = reply.result]
  BY DEF Returns
<1> DEFINE f == Ended(got[b].rite, "ok", reply.result, reply.session)
<1>3. /\ f.event = "ended" /\ f.rite = got[b].rite /\ f.status = "ok" /\ f.result = reply.result
      /\ Emit(f)
  BY <1>2 DEF Ended
<1> HIDE DEF f
<1>4. RunInv /\ InBody /\ Legal(Events)
  BY <1>1 DEF ReplayInv, RunInv
<1>5. PICK c \in Opens(Events) : c.rite = got[b].rite /\ c.of = Here(b)
  BY <1>1, <1>4 DEF InBody, TaskSaid, InCall
<1>6. \A d \in Opens(Events) : d.rite = got[b].rite => d = c
  BY <1>4, <1>5 DEF Legal, Apart, Opens
<1>7. c.of[2] = steps /\ c.of[3] # 0 /\ c.event = "began" /\ c \in Events
  <2>1. b # 0
    BY BranchNumbers
  <2> QED BY <1>5, <2>1 DEF Here, Opens
<1>8. Events' = Events \cup {f} /\ Opens(Events') = Opens(Events)
  <2>1. Events' = Events \cup {f}
    BY <1>3, EventsOf
  <2> QED BY <1>3, <2>1, OpensMore
<1>9. /\ \A a \in Branches \ {b} : doing'[a] = doing[a] /\ got'[a] = got[a]
      /\ doing'[b] \in {"ready", "done"}
  <2>1. DOMAIN got = Branches /\ DOMAIN doing = Branches
    BY DEF Rites, EngineTypes
  <2> QED BY <1>1, <1>2, <2>1
<1>10. CASE ledger = None /\ recorded = {} /\ \A a \in Branches : doing[a] # "replayed"
  <2>1. ledger' = None /\ recorded' = {} /\ \A a \in Branches : doing'[a] # "replayed"
    BY <1>1, <1>9, <1>10
  <2> QED BY <2>1 DEF Spent
<1>11. ASSUME ledger = {}, NEW d \in Opens(Events), MissedBy(d) PROVE Spent'
  <2>1. \A a \in Branches : doing'[a] = "live" => got'[a].rite >= d.rite
    BY <1>9, <1>11 DEF MissedBy
  <2>2. MissedBy(d)'
    BY <1>1, <1>11, <2>1 DEF MissedBy
  <2> QED BY <1>1, <1>8, <1>11, <2>2 DEF Spent
<1>12. CASE ledger # None /\ ledger = recorded /\ Found
  <2>1. reply.result \in Results /\ \E x \in recorded : x.of = Here(b) /\ x.result = reply.result
    BY <1>1, <1>2, <1>12, ReturnsResult
  <2>2. \A of, r : Gave(Events, of, r) => Gave(Events', of, r)
    BY <1>8 DEF Gave
  <2>3. Returned(c, f) /\ Gave(Events', c.of, reply.result)
    BY <1>3, <1>5, <1>7, <1>8 DEF Gave, Returned
  <2>4. ASSUME NEW d \in Opens(Events), d.of[3] # 0
        PROVE  /\ \E x \in recorded : x.rite = d.rite /\ x.of = d.of
               /\ \/ \E r \in Results : Gave(Events', d.of, r)
                  \/ \E a \in Branches : InCall(a)' /\ got'[a].rite = d.rite
    <3>1. CASE d = c
      BY <1>7, <1>12, <2>1, <2>3, <3>1 DEF Found
    <3>2. CASE d # c
      <4>1. \A a \in Branches : InCall(a) /\ got[a].rite = d.rite => a # b
        BY <1>6, <3>2
      <4>2. \A a \in Branches \ {b} : InCall(a) => InCall(a)' /\ got'[a] = got[a]
        BY <1>9 DEF InCall
      <4>3. /\ \E x \in recorded : x.rite = d.rite /\ x.of = d.of
            /\ \/ \E r \in Results : Gave(Events, d.of, r)
               \/ \E a \in Branches : InCall(a) /\ got[a].rite = d.rite
        BY <1>12, <2>4 DEF Found
      <4> QED BY <2>2, <4>1, <4>2, <4>3
    <3> QED BY <3>1, <3>2
  <2>5. ASSUME NEW d \in Events', NEW g \in Events', Returned(d, g)
        PROVE  \E x \in recorded : x.of = d.of /\ x.result = g.result
    <3>1. d \in Events
      BY <1>3, <1>8, <2>5 DEF Returned
    <3>2. CASE g \in Events
      BY <1>12, <2>5, <3>1, <3>2 DEF Found
    <3>3. CASE g = f
      <4>1. d = c
        BY <1>3, <1>6, <2>5, <3>1, <3>3 DEF Returned, Opens
      <4> QED BY <1>3, <1>5, <2>1, <3>3, <4>1
    <3> QED BY <1>8, <3>2, <3>3
  <2>6. ASSUME NEW d \in Opens(Events), d.of[2] < steps
        PROVE  \E r \in Results : Well(Events', d.of[1], d.of[2], r)
    <3>1. PICK r \in Results : Well(Events, d.of[1], d.of[2], r)
      BY <1>12, <2>6 DEF Found
    <3> QED BY <2>2, <3>1 DEF Well
  <2>7. \A a \in Branches : doing'[a] \in {"ready", "replayed", "done"}
    BY <1>9, <1>12 DEF Found
  <2>8. Found'
    BY <1>1, <1>8, <1>12, <2>4, <2>5, <2>6, <2>7 DEF Found
  <2> QED BY <1>1, <1>12, <2>8 DEF Spent
<1> QED BY <1>1, <1>10, <1>11, <1>12 DEF ReplayInv, Spent

LEMMA FailsRun ==
    ASSUME EngineAssumption, Replayable, Rites, RunInv, NEW b \in Branches, Fails(b)
    PROVE  RunInv'
<1>1. /\ phase = "body" /\ doing[b] = "live" /\ turn = None
      /\ UNCHANGED <<phase, payload, steps, counter, pos, got, turn, outer>>
      /\ \/ Cutting /\ doing' = [doing EXCEPT ![b] = "cut"]
         \/ doing' = [doing EXCEPT ![b] = "failed"]
  BY DEF Fails, walk
<1>2. PICK f : f.event = "ended" /\ f.rite = got[b].rite /\ f.status # "ok" /\ Emit(f)
  BY DEF Fails, Ended
<1>3. InBody /\ Legal(Events) /\ Counted /\ pos \in [Branches -> Nat]
  BY <1>1 DEF RunInv
<1>4. payload \in Payload /\ b \in Mine /\ TaskSaid(b)
  BY <1>1, <1>3 DEF InBody
<1>5. PICK c \in Opens(Events) : c.rite = got[b].rite /\ c.of = Here(b)
  BY <1>1, <1>4 DEF TaskSaid, InCall
<1>6. Events' = Events \cup {f} /\ Opens(Events') = Opens(Events) /\ Legal(Events') /\ Counted'
  <2>1. \A d \in Events : d.event = "ended" => d.rite # f.rite
    BY <1>1, <1>2, EventsOf DEF InCall
  <2>2. \A d \in Opens(Events) : ~Returned(d, f)
    BY <1>2 DEF Returned
  <2>3. UNCHANGED <<steps, counter>>
    BY <1>1
  <2> QED BY <1>2, <2>1, <2>2, <2>3, EndedLegal
<1>7. PICK m \in 0..Size(payload) : Come(m)
  BY <1>3 DEF InBody
<1>8. /\ \A a \in Mine : a \in Branches
      /\ Len(Body[payload]) = 1 => 1 \in Mine
  BY <1>4, BodyShape DEF Mine
<1>9. /\ Mine' = Mine /\ \A a \in Branches \ {b} : doing'[a] = doing[a]
      /\ doing'[b] \in {"cut", "failed"} /\ (doing'[b] = "cut" => Cutting)
  <2>1. DOMAIN doing = Branches
    BY DEF Rites, EngineTypes
  <2> QED BY <1>1, <2>1 DEF Mine
<1>10. Come(m)'
  <2>1. \A a \in Mine : doing'[a] = "ready" <=> doing[a] = "ready"
    BY <1>1, <1>8, <1>9
  <2> QED BY <1>1, <1>6, <1>7, <1>8, <2>1, ComeKept
<1>11. Cutting => Cutting'
  <2>1. \A a \in Mine : doing[a] \in {"failed", "done"} => doing'[a] = doing[a]
    BY <1>1, <1>8, <1>9
  <2> QED BY <1>1, <2>1, CuttingKept
<1>12. ASSUME NEW a \in Mine PROVE TaskSaid(a)'
  <2>1. CASE a = b
    <3>1. c \in Opens(Events') /\ f \in Events' /\ f.rite = c.rite /\ c.of = Here(b)'
      BY <1>1, <1>2, <1>5, <1>6 DEF Here
    <3> QED BY <1>2, <1>9, <1>11, <2>1, <3>1 DEF TaskSaid, InCall
  <2>2. CASE a # b
    <3>1. doing'[a] = doing[a] /\ pos'[a] = pos[a] /\ got'[a] = got[a] /\ Events \subseteq Events'
      BY <1>1, <1>6, <1>8, <1>9, <2>2
    <3>2. TaskSaid(a) /\ payload' = payload /\ steps' = steps
      BY <1>1, <1>3 DEF InBody
    <3> QED BY <1>11, <3>1, <3>2, TaskKept
  <2> QED BY <2>1, <2>2
<1>13. InBody'
  <2>1. (\E k \in 0..Size(payload) : Come(k))'
    BY <1>1, <1>10
  <2>2. (\A a \in Mine : TaskSaid(a))'
    BY <1>9, <1>12
  <2>3. (\A a \in Branches \ Mine : doing[a] = "done")'
    BY <1>3, <1>4, <1>9 DEF InBody
  <2>4. (turn # None => turn \in Mine /\ (doing[turn] = "replayed" \/ Len(Body[payload]) = 1))'
    BY <1>1
  <2>5. (/\ outer \in {None, "timeout", "cancel"} /\ (outer = "timeout" => payload \in Timed)
         /\ payload \in Payload /\ steps \in 1..MaxSteps)'
    BY <1>1, <1>3 DEF InBody
  <2> QED BY <2>1, <2>2, <2>3, <2>4, <2>5 DEF InBody
<1> QED BY <1>1, <1>3, <1>6, <1>13 DEF RunInv

(* A call that fails, or is cut, ran: something before it was missed.      *)
LEMMA FailsSpent ==
    ASSUME Rites, ReplayInv, NEW b \in Branches, Fails(b)
    PROVE  Spent'
<1>1. /\ phase = "body" /\ doing[b] = "live"
      /\ UNCHANGED <<phase, got, ledger, recorded>>
      /\ doing' \in {[doing EXCEPT ![b] = "cut"], [doing EXCEPT ![b] = "failed"]}
  BY DEF Fails, walk
<1>2. PICK f : f.event = "ended" /\ Emit(f)
  BY DEF Fails, Ended
<1>3. Opens(Events') = Opens(Events)
  <2>1. Events' = Events \cup {f}
    BY <1>2, EventsOf
  <2> QED BY <1>2, <2>1, OpensMore
<1>4. \A a \in Branches : doing'[a] \in {"live", "replayed"} => doing'[a] = doing[a]
  BY <1>1 DEF Rites, EngineTypes
<1>5. CASE ledger = None /\ recorded = {} /\ \A a \in Branches : doing[a] # "replayed"
  BY <1>1, <1>4, <1>5 DEF Spent
<1>6. ASSUME ledger = {}, NEW c \in Opens(Events), MissedBy(c) PROVE Spent'
  <2>1. MissedBy(c)'
    BY <1>1, <1>4, <1>6 DEF MissedBy
  <2> QED BY <1>1, <1>3, <1>6, <2>1 DEF Spent
<1>7. ~Found
  BY <1>1 DEF Found
<1> QED BY <1>1, <1>5, <1>6, <1>7 DEF ReplayInv, Spent

LEMMA CutsKeeps ==
    ASSUME ReplayInv, Cuts, Replayable
    PROVE  ReplayInv'
<1>1. /\ phase = "body" /\ outer = None /\ turn = None
      /\ UNCHANGED <<phase, payload, steps, counter, grimoire, doing, pos, got, turn, ledger,
                     recorded>>
      /\ outer' \in {"timeout", "cancel"} /\ (outer' = "timeout" => payload \in Timed)
  BY DEF Cuts, walk, memory
<1>2. PICK b \in Mine : doing[b] = "live"
  BY DEF Cuts
<1>3. InBody /\ Events' = Events /\ Mine' = Mine
  BY <1>1 DEF ReplayInv, RunInv, Events, Mine
<1>4. None \notin {"timeout", "cancel"}
  BY DEF Replayable, Repeatable, NoneApart
<1>5. Cutting'
  BY <1>1, <1>4 DEF Cutting
<1>6. InBody'
  <2>1. ASSUME NEW a \in Mine PROVE TaskSaid(a)'
    <3>1. TaskSaid(a)
      BY <1>3 DEF InBody
    <3>2. doing'[a] = doing[a] /\ pos'[a] = pos[a] /\ got'[a] = got[a] /\ Events \subseteq Events'
      BY <1>1, <1>3
    <3> QED BY <1>1, <1>5, <3>1, <3>2, TaskKept
  <2>2. \A m : Come(m)' <=> Come(m)
    BY <1>1, <1>3 DEF Come
  <2> QED BY <1>1, <1>3, <2>1, <2>2 DEF InBody
<1>7. RunInv'
  BY <1>1, <1>3, <1>6 DEF ReplayInv, RunInv, Counted
<1>8. Recorded'
  BY <1>1, RecordedKept DEF ReplayInv
<1>9. ~Found
  <2>1. b \in Branches
    <3>1. b \notin Branches \ Mine
      BY <1>2
    <3> QED BY <1>3, <1>1, <1>2 DEF InBody, Mine, Branches
  <2> QED BY <1>2, <2>1 DEF Found
<1>10. Spent'
  BY <1>1, <1>3, <1>9 DEF ReplayInv, Spent, MissedBy
<1> QED BY <1>7, <1>8, <1>10 DEF ReplayInv

-----------------------------------------------------------------------------
(* A step left.                                                            *)

(* A call gives one thing.                                                 *)
LEMMA GaveOnce ==
    ASSUME NEW said, Legal(said), NEW of, NEW r, Gave(said, of, r)
    PROVE  /\ r \in Results
           /\ \A x : Gave(said, of, x) => x = r
           /\ \A c \in Opens(said), f \in said :
                 c.of = of /\ f.event = "ended" /\ f.rite = c.rite => f.status = "ok"
<1>1. PICK c \in said, f \in said : Returned(c, f) /\ c.of = of /\ f.result = r
  BY DEF Gave
<1>2. r \in Results
  BY <1>1 DEF Legal, Answered
<1>3. \A d \in Opens(said) : d.of = of => d = c
  BY <1>1 DEF Legal, OfApart, Opens, Returned
<1>4. \A g \in said : g.event = "ended" /\ g.rite = c.rite => g = f
  BY <1>1 DEF Legal, Apart, Returned
<1>5. ASSUME NEW x, Gave(said, of, x) PROVE x = r
  <2>1. PICK d \in said, g \in said : Returned(d, g) /\ d.of = of /\ g.result = x
    BY <1>5 DEF Gave
  <2>2. d = c
    BY <2>1, <1>3 DEF Opens, Returned
  <2>3. g = f
    BY <2>1, <2>2, <1>4 DEF Returned
  <2> QED BY <2>1, <2>3, <1>1
<1>6. ASSUME NEW d \in Opens(said), NEW g \in said,
             d.of = of, g.event = "ended", g.rite = d.rite
      PROVE  g.status = "ok"
  <2>1. g = f
    BY <1>3, <1>4, <1>6
  <2> QED BY <2>1, <1>1 DEF Returned
<1> QED BY <1>2, <1>5, <1>6

Over == \A b \in Mine : doing[b] \in {"done", "failed", "cut"}

(* The row of a body that is over has come to a call of it, and to its     *)
(* last if every branch returned.                                          *)
LEMMA RowOver ==
    ASSUME EngineAssumption, Replayable, RunInv, phase = "body", Over,
           NEW m \in 0..Size(payload), Come(m)
    PROVE  /\ m \in 1..Size(payload)
           /\ (\A b \in Mine : doing[b] = "done") => m = Size(payload)
<1>1. payload \in Payload /\ InBody
  BY DEF RunInv, InBody
<1>2. /\ Mine = 1..Len(Body[payload]) /\ Len(Body[payload]) \in Nat \ {0}
      /\ Size(payload) \in Nat \ {0}
      /\ Len(Body[payload]) # 1 => Size(payload) = Len(Body[payload])
  BY <1>1, BodyShape DEF Mine
<1>3. CASE Len(Body[payload]) = 1
  <2>1. 1 \in Mine
    BY <1>2, <1>3
  <2>2. doing[1] # "ready"
    BY <2>1 DEF Over
  <2>3. m = pos[1] /\ pos[1] \in 1..Size(payload) /\ Size(payload) = Len(Body[payload][1])
    BY <1>3, <2>1, <2>2, TaskPlace DEF Come
  <2>4. doing[1] = "done" => pos[1] = Len(Body[payload][1])
    BY <1>1, <2>1 DEF InBody, TaskSaid
  <2> QED BY <2>1, <2>3, <2>4
<1>4. CASE Len(Body[payload]) # 1
  <2>1. Size(payload) \in Mine
    BY <1>2, <1>4
  <2>2. doing[Size(payload)] # "ready" /\ (doing[Size(payload)] = "ready" <=> Size(payload) > m)
    BY <1>4, <2>1, TaskPlace DEF Over
  <2> QED BY <1>2, <2>2
<1> QED BY <1>3, <1>4

(* When every call of a body gave, every branch returned, and the first    *)
(* holds what the step reads.                                              *)
LEMMA WellOver ==
    ASSUME EngineAssumption, Replayable, RunInv, phase = "body", Over,
           NEW m \in 0..Size(payload), Come(m),
           NEW r \in Results, Well(Events, payload, steps, r)
    PROVE  (\A b \in Mine : doing[b] = "done") /\ got[1].result = r
<1>1. payload \in Payload /\ InBody /\ Legal(Events)
  BY DEF RunInv, InBody
<1>2. \A i \in 1..Size(payload) : \E x \in Results : Gave(Events, At(payload, steps, i), x)
  BY DEF Well
<1>3. ASSUME NEW b \in Mine
      PROVE  \E i \in 1..Size(payload) : Here(b) = At(payload, steps, i)
  <2>1. Here(b) = At(payload, steps, IF Len(Body[payload]) = 1 THEN pos[b] ELSE b)
    BY TaskPlace
  <2>2. CASE Len(Body[payload]) = 1
    BY <2>1, <2>2, TaskPlace
  <2>3. CASE Len(Body[payload]) # 1
    <3>1. b \in Nat \ {0} /\ b <= Size(payload) /\ Size(payload) \in Nat
      BY <2>3, TaskPlace
    <3> QED BY <2>1, <2>3, <3>1
  <2> QED BY <2>2, <2>3
<1>4. ASSUME NEW b \in Mine PROVE doing[b] = "done"
  <2>1. PICK x : Gave(Events, Here(b), x)
    BY <1>2, <1>3
  <2>2. ~\E c \in Opens(Events), f \in Events :
           f.event = "ended" /\ f.rite = c.rite /\ f.status # "ok" /\ c.of = Here(b)
    BY <1>1, <2>1, GaveOnce
  <2>3. doing[b] \notin {"failed", "cut"}
    BY <1>1, <2>2 DEF InBody, TaskSaid
  <2> QED BY <2>3 DEF Over
<1>5. 1 \in Mine
  BY <1>1, BodyShape DEF Mine
<1>6. pos[1] = Len(Body[payload][1]) /\ Gave(Events, Here(1), got[1].result)
  BY <1>1, <1>4, <1>5 DEF InBody, TaskSaid
<1>7. Here(1) = At(payload, steps, Read(payload))
  <2>1. Here(1) = At(payload, steps, IF Len(Body[payload]) = 1 THEN pos[1] ELSE 1)
    BY <1>5, TaskPlace
  <2> QED BY <1>6, <2>1 DEF Read
<1>8. Gave(Events, Here(1), r)
  BY <1>7 DEF Well
<1> QED BY <1>1, <1>4, <1>6, <1>8, GaveOnce

(* Its end is that of no call.                                             *)
LEMMA LeavesSays ==
    ASSUME EngineAssumption, Replayable, Rites, RunInv, Leaves
    PROVE  /\ Opens(Events') = Opens(Events) /\ Legal(Events') /\ Counted'
           /\ \A of, r : Gave(Events', of, r) <=> Gave(Events, of, r)
           /\ \A c \in Events', f \in Events' : Returned(c, f) => c \in Events /\ f \in Events
<1> DEFINE Opened(id) == \E i \in DOMAIN grimoire :
                grimoire[i].event = "began" /\ grimoire[i].rite = id
                    /\ grimoire[i].of = <<payload, steps, 0, 0>>
           rite == CHOOSE id \in 1..counter : Opened(id)
<1>1. phase = "body" /\ UNCHANGED <<steps, counter>>
  BY DEF Leaves
<1>2. \E e : e.event = "ended" /\ e.rite = rite /\ Emit(e)
  BY DEF Leaves, Ended
<1>3. PICK i \in Said :
        /\ IsOpenStep(i) /\ ~HasEnded(grimoire[i].rite)
        /\ \A j \in Said : IsOpenStep(j) => j = i
  BY <1>1, OneOpenStep
<1>4. grimoire[i].rite \in 1..counter /\ Opened(grimoire[i].rite)
  BY <1>3 DEF Rites, EngineTypes, IsOpenStep, OfStep, Said
<1>5. rite \in 1..counter /\ Opened(rite)
  BY <1>4
<1> HIDE DEF rite
<1>6. rite = grimoire[i].rite
  BY <1>3, <1>5 DEF IsOpenStep, OfStep, Said
<1>7. PICK f : f.event = "ended" /\ f.rite = grimoire[i].rite /\ Emit(f)
  BY <1>2, <1>6
<1>8. \A d \in Events : d.event = "ended" => d.rite # f.rite
  BY <1>3, <1>7 DEF HasEnded, Events, Said
<1>9. ASSUME NEW c, c \in Opens(Events), Returned(c, f) PROVE FALSE
  <2>1. grimoire[i] \in Events /\ grimoire[i].event = "began" /\ grimoire[i].of[3] = 0
    BY <1>3 DEF IsOpenStep, OfStep, Events, Said
  <2>2. c = grimoire[i]
    BY <1>7, <1>9, <2>1 DEF RunInv, Legal, Apart, Returned, Opens
  <2> QED BY <1>9, <2>1, <2>2 DEF Returned
<1>10. /\ Events' = Events \cup {f} /\ Opens(Events') = Opens(Events)
       /\ Legal(Events') /\ Counted'
  BY <1>1, <1>7, <1>8, <1>9, EndedLegal
<1>11. \A of, r : Gave(Events', of, r) <=> Gave(Events, of, r)
  BY <1>7, <1>9, <1>10, EndedGives
<1>12. ASSUME NEW c \in Events', NEW g \in Events', Returned(c, g)
       PROVE  c \in Events /\ g \in Events
  <2>1. c \in Opens(Events)
    BY <1>10, <1>12 DEF Opens, Returned
  <2>2. g # f
    BY <1>9, <1>12, <2>1
  <2> QED BY <1>10, <2>1, <2>2 DEF Opens
<1> QED BY <1>10, <1>11, <1>12

LEMMA LeastIn ==
    ASSUME NEW S \in SUBSET Nat, S # {}
    PROVE  \E i \in S : \A j \in S : i <= j
<1>1. PICK i \in S : \A j \in S : ~(<<j, i>> \in OpToRel(<, Nat))
  BY NatLessThanWellFounded, WFMin
<1>2. \A j \in S : ~(j < i)
  BY <1>1 DEF OpToRel
<1> QED BY <1>2

(* Where it goes.                                                          *)
LEMMA LeavesGoes ==
    ASSUME EngineAssumption, Replayable, RunInv, Leaves,
           NEW m \in 0..Size(payload), Come(m), phase' # "raised"
    PROVE  /\ phase' = "between" /\ payload' \in Payload \cup {Done}
           /\ \A r \in Results :
                 Well(Events, payload, steps, r) => payload' = Goes(payload, r)
<1> DEFINE raised == \/ outer = "timeout"
                     \/ Cutting /\ payload \notin Racing
                     \/ payload \in Racing /\ Racers("done") = {}
                     \/ Exit[payload][Verdict] = Raise
<1>1. /\ phase = "body" /\ Over /\ InBody /\ phase' = "between"
      /\ outer # "cancel" /\ (raised => Recovery[payload] # None)
      /\ payload' = IF raised THEN Recovery[payload] ELSE Exit[payload][Verdict]
  BY DEF Leaves, Over, RunInv
<1>2. payload \in Payload /\ outer = None
  <2>1. payload \in Payload /\ (outer = "timeout" => Recovery[payload] = None)
    BY <1>1 DEF InBody, Replayable, Repeatable, NoneApart
  <2>2. outer # "timeout"
    BY <1>1, <2>1
  <2> QED BY <1>1, <2>1, <2>2 DEF InBody
<1> HIDE DEF raised
<1>3. /\ Mine = 1..Len(Body[payload]) /\ 1 \in Mine /\ Len(Body[payload]) \in Nat
  BY <1>2, BodyShape DEF Mine
<1>4. CASE raised
  <2>1. payload' \in Payload
    BY <1>1, <1>2, <1>4 DEF EngineAssumption
  <2>2. ASSUME NEW r \in Results, Well(Events, payload, steps, r)
        PROVE  payload' = Goes(payload, r)
    <3>1. (\A b \in Mine : doing[b] = "done") /\ got[1].result = r
      BY <1>1, <2>2, WellOver
    <3>2. Racers("done") = Mine /\ Racers("failed") = {}
      BY <3>1 DEF Racers
    <3>3. Verdict = r
      <4>1. (CHOOSE b \in Mine : \A a \in Mine : b <= a) = 1
        BY <1>3
      <4> QED BY <3>1, <3>2, <4>1 DEF Verdict
    <3>4. Exit[payload][r] = Raise
      BY <1>2, <1>3, <1>4, <3>2, <3>3 DEF raised, Cutting, Replayable, Repeatable, NoneApart
    <3> QED BY <1>1, <1>4, <3>4 DEF Goes
  <2> QED BY <1>1, <2>1, <2>2
<1>5. CASE ~raised
  <2>1. Racers("done") # {}
    <3>1. CASE payload \in Racing
      BY <1>5, <3>1 DEF raised
    <3>2. CASE payload \notin Racing
      <4>1. ~Cutting
        BY <1>5, <3>2 DEF raised
      <4>2. doing[1] # "failed" /\ doing[1] # "cut"
        BY <1>1, <1>3, <3>2, <4>1 DEF Cutting, Racers, InBody, TaskSaid
      <4> QED BY <1>1, <1>3, <4>2 DEF Over, Racers
    <3> QED BY <3>1, <3>2
  <2>2. PICK b \in Racers("done") : b = CHOOSE c \in Racers("done") : \A a \in Racers("done") : c <= a
    <3>1. Racers("done") \in SUBSET Nat
      BY <1>3 DEF Racers
    <3> QED BY <2>1, <3>1, LeastIn
  <2>3. Verdict = got[b].result /\ b \in Mine /\ doing[b] = "done"
    BY <2>2 DEF Verdict, Racers
  <2>4. Verdict \in Results
    BY <1>1, <2>3, GaveOnce DEF InBody, TaskSaid, RunInv
  <2>5. payload' = Exit[payload][Verdict] /\ Exit[payload][Verdict] # Raise
    BY <1>1, <1>5 DEF raised
  <2>6. payload' \in Payload \cup {Done}
    BY <1>2, <2>4, <2>5 DEF Replayable, Repeatable, NoneApart
  <2>7. ASSUME NEW r \in Results, Well(Events, payload, steps, r)
        PROVE  payload' = Goes(payload, r)
    <3>1. (\A a \in Mine : doing[a] = "done") /\ got[1].result = r
      BY <1>1, <2>7, WellOver
    <3>2. Racers("done") = Mine
      BY <3>1 DEF Racers
    <3>3. (CHOOSE c \in Mine : \A a \in Mine : c <= a) = 1
      BY <1>3
    <3>4. Verdict = r
      BY <3>1, <3>2, <3>3 DEF Verdict
    <3> QED BY <2>5, <3>4 DEF Goes
  <2> QED BY <1>1, <2>6, <2>7
<1> QED BY <1>4, <1>5

LEMMA LeavesRun ==
    ASSUME EngineAssumption, Replayable, Rites, RunInv, Leaves
    PROVE  RunInv'
<1>1. /\ phase = "body" /\ phase' \in {"between", "raised"} /\ Over /\ InBody
      /\ doing' = Idle /\ outer' = None /\ turn' = None /\ UNCHANGED <<steps, counter, pos>>
  BY DEF Leaves, Over, RunInv
<1>2. /\ Opens(Events') = Opens(Events) /\ Legal(Events') /\ Counted'
      /\ \A of, r : Gave(Events', of, r) <=> Gave(Events, of, r)
  BY LeavesSays
<1>3. CASE phase' = "raised"
  BY <1>1, <1>2, <1>3 DEF RunInv, Idle
<1>4. CASE phase' # "raised"
  <2>1. PICK m \in 0..Size(payload) : Come(m)
    BY <1>1 DEF InBody
  <2>2. /\ payload' \in Payload \cup {Done}
        /\ \A r \in Results : Well(Events, payload, steps, r) => payload' = Goes(payload, r)
    BY <1>4, <2>1, LeavesGoes
  <2>3. m \in 1..Size(payload) /\ ((\A b \in Mine : doing[b] = "done") => m = Size(payload))
    BY <1>1, <2>1, RowOver
  <2>4. PICK d \in Opens(Events) : d.rite = counter /\ d.of = At(payload, steps, m)
    BY <2>1 DEF Come
  <2>5. ASSUME NEW r \in Results, Well(Events', payload, steps, r)
        PROVE  m = Size(payload) /\ payload' = Goes(payload, r)
    <3>1. Well(Events, payload, steps, r)
      BY <1>2, <2>5 DEF Well
    <3> QED BY <1>1, <2>1, <2>2, <2>3, <3>1, WellOver
  <2>6. (steps + 1) - 1 = steps /\ (counter + 1) - 1 = counter /\ payload \in Payload
    BY <1>1, EventsOf DEF InBody
  <2>7. Enterable(Events', payload', steps + 1, counter + 1)
    BY <1>2, <2>3, <2>4, <2>5, <2>6 DEF Enterable
  <2>8. steps \in 0..MaxSteps
    BY <1>1 DEF InBody, EngineAssumption
  <2>9. InBetween'
    BY <1>1, <2>2, <2>7, <2>8 DEF InBetween
  <2> QED BY <1>1, <1>2, <1>4, <2>9 DEF RunInv
<1> QED BY <1>3, <1>4

LEMMA LeavesSpent ==
    ASSUME EngineAssumption, Replayable, Rites, ReplayInv, Leaves
    PROVE  Spent'
<1>1. /\ phase = "body" /\ phase' \in {"between", "raised"} /\ Over /\ InBody /\ RunInv
      /\ doing' = Idle /\ outer' = None /\ UNCHANGED <<steps, counter, got, ledger, recorded>>
  BY DEF Leaves, Over, ReplayInv, RunInv, memory
<1>2. /\ Opens(Events') = Opens(Events)
      /\ \A of, r : Gave(Events', of, r) <=> Gave(Events, of, r)
      /\ \A c \in Events', f \in Events' : Returned(c, f) => c \in Events /\ f \in Events
  BY LeavesSays DEF ReplayInv
<1>3. \A b \in Branches : doing'[b] = "done"
  BY <1>1 DEF Idle
<1>4. CASE ledger = None /\ recorded = {}
  BY <1>1, <1>3, <1>4 DEF Spent
<1>5. ASSUME ledger = {}, NEW c \in Opens(Events), MissedBy(c) PROVE Spent'
  <2>1. MissedBy(c)'
    BY <1>1, <1>3, <1>5 DEF MissedBy
  <2> QED BY <1>1, <1>2, <1>5, <2>1 DEF Spent
<1>6. CASE ledger # None /\ ledger = recorded /\ Found
  <2>1. \A b \in Branches : ~InCall(b) /\ doing[b] = "done"
    BY <1>1, <1>6 DEF InCall, Found, Over, InBody
  <2>2. ASSUME NEW c \in Opens(Events), c.of[3] # 0
        PROVE  /\ \E x \in recorded : x.rite = c.rite /\ x.of = c.of
               /\ \E r \in Results : Gave(Events, c.of, r)
    BY <1>6, <2>1, <2>2 DEF Found
  <2>3. PICK m \in 0..Size(payload) : Come(m)
    BY <1>1 DEF InBody
  <2>4. payload \in Payload /\ Mine \subseteq Branches
    BY <1>1, BodyShape DEF InBody, Mine
  <2>5. m = Size(payload)
    BY <1>1, <2>1, <2>3, <2>4, RowOver
  <2>6. Size(payload) \in Nat /\ Read(payload) \in 1..Size(payload)
    BY <2>4, BodyShape
  <2>7. ASSUME NEW i \in 1..Size(payload)
        PROVE  \E r \in Results : Gave(Events, At(payload, steps, i), r)
    <3>1. PICK c \in Opens(Events) : c.of = At(payload, steps, i)
      BY <2>3, <2>5, <2>6 DEF Come
    <3>2. c.of[3] # 0
      <4>1. i \in Nat /\ i # 0
        BY <2>6
      <4> QED BY <3>1, <4>1, AtApart
    <3> QED BY <2>2, <3>1, <3>2
  <2>8. PICK r \in Results : Well(Events, payload, steps, r)
    BY <2>6, <2>7 DEF Well
  <2>9. ASSUME NEW c \in Opens(Events)
        PROVE  \E x \in Results : Well(Events, c.of[1], c.of[2], x)
    <3>1. c.of[2] \in 1..steps /\ steps \in Nat
      BY <1>1, EventsOf DEF RunInv, Counted
    <3>2. CASE c.of[2] < steps
      BY <1>6, <3>2 DEF Found
    <3>3. CASE c.of[2] = steps
      <4>1. PICK i \in 0..m : c.of = At(payload, steps, i)
        BY <2>3, <3>3 DEF Come
      <4>2. i \in Nat
        BY <2>5, <2>6
      <4>3. c.of[1] = payload
        BY <4>1, <4>2, AtApart
      <4> QED BY <2>8, <3>3, <4>3
    <3> QED BY <3>1, <3>2, <3>3
  <2>10. \A c \in Opens(Events') : \E x \in Results : Well(Events', c.of[1], c.of[2], x)
    BY <1>2, <2>9 DEF Well
  <2>11. \A c \in Opens(Events') : c.of[3] # 0 =>
            /\ \E x \in recorded : x.rite = c.rite /\ x.of = c.of
            /\ \E x \in Results : Gave(Events', c.of, x)
    BY <1>2, <2>2
  <2>12. \A c \in Events', f \in Events' : Returned(c, f) =>
            \E x \in recorded : x.of = c.of /\ x.result = f.result
    BY <1>2, <1>6 DEF Found
  <2>13. Found'
    BY <1>1, <1>3, <2>10, <2>11, <2>12 DEF Found
  <2> QED BY <1>1, <1>6, <2>13 DEF Spent
<1> QED BY <1>1, <1>4, <1>5, <1>6 DEF ReplayInv, Spent

-----------------------------------------------------------------------------
(* The cast over, and resumed.                                             *)

LEMMA StopsKeeps ==
    ASSUME EngineAssumption, Rites, ReplayInv,
           UNCHANGED <<walk, counter, grimoire, tasks, ledger, recorded>>,
           \/ phase' = "killed"
           \/ phase' \in {"done", "failed"} /\ phase \notin {"body", "killed"}
    PROVE  ReplayInv'
<1>1. Events' = Events
  BY DEF Events
<1>2. (ReplayedOwn /\ NotRunAgain)'
  <2>1. ReplayedOwn /\ NotRunAgain
    BY ReplayedAsRecorded
  <2>2. UNCHANGED <<payload, steps, grimoire, doing, pos, got, ledger, recorded>>
    BY DEF walk, tasks
  <2>3. ReplayedOwn' <=> ReplayedOwn
    BY <2>2 DEF ReplayedOwn, Take, Call
  <2>4. NotRunAgain' <=> NotRunAgain
    BY <2>2 DEF NotRunAgain, Missed
  <2> QED BY <2>1, <2>3, <2>4
<1>3. RunInv'
  BY <1>1, <1>2 DEF ReplayInv, RunInv, Counted, walk, tasks
<1>4. Recorded'
  BY RecordedKept DEF ReplayInv
<1>5. Spent'
  <2>1. phase' \notin {"between", "body"}
    OBVIOUS
  <2>2. \A c : MissedBy(c)' <=> MissedBy(c)
    BY DEF MissedBy, tasks
  <2> QED BY <1>1, <2>1, <2>2 DEF ReplayInv, Spent, tasks
<1> QED BY <1>3, <1>4, <1>5 DEF ReplayInv

LEMMA NothingLegal == Legal({}) /\ Opens({}) = {}
  BY DEF Legal, Opens, Apart, Shaped, OfApart, Rows, Answered

(* What a resume finds recorded is of the run it resumes.                  *)
LEMMA ResumesKeeps ==
    ASSUME EngineAssumption, Replayable, EngineInv, ReplayInv, Resumes
    PROVE  ReplayInv'
<1>1. Events' = {}
  BY DEF Resumes, Events
<1>2. RunInv' /\ Found'
  <2>1. Enterable(Events', payload', steps' + 1, counter' + 1)
    BY DEF Resumes, Enterable
  <2>2. InBetween'
    BY <2>1 DEF Resumes, InBetween, EngineAssumption
  <2>3. RunInv'
    BY <1>1, <2>2, NothingLegal DEF Resumes, RunInv, Counted
  <2>4. Found'
    BY <1>1, NothingLegal DEF Resumes, Found, Idle
  <2> QED BY <2>3, <2>4
<1>3. PICK ran : ran = Events
  OBVIOUS
<1>4. log \ {Hello} \subseteq ran
  <2>1. PICK n \in 0..Len(grimoire) : log \ {Hello} = {grimoire[i] : i \in 1..n}
    BY DEF EngineInv, LogIsPrefix
  <2>2. Len(grimoire) \in Nat /\ DOMAIN grimoire = 1..Len(grimoire)
    BY OwnRange DEF EngineInv, Rites, EngineTypes
  <2>3. \A i \in 1..n : i \in DOMAIN grimoire
    BY <2>2
  <2> QED BY <1>3, <2>1, <2>3 DEF Events
<1>5. ASSUME NEW x \in Entries
      PROVE  \E c, f \in ran : /\ Returned(c, f)
                               /\ x.rite = c.rite /\ x.of = c.of /\ x.name = c.name
                               /\ x.result = f.result
  <2>1. PICK c \in log, f \in log :
          /\ Returned(c, f)
          /\ x.rite = c.rite /\ x.of = c.of /\ x.name = c.name /\ x.result = f.result
    BY DEF Entries, Returned
  <2>2. c # Hello /\ f # Hello
    BY <2>1 DEF Hello, Returned
  <2> QED BY <1>4, <2>1, <2>2
<1>6. recorded' = Entries /\ ledger' = Entries /\ ledger' # None
  <2>1. Entries = EntriesOf(log)
    BY DEF Entries, EntriesOf
  <2> QED BY <2>1 DEF Resumes, Replayable, Repeatable, NoneApart
<1>7. Recorded'
  <2>1. Legal(ran)
    BY <1>3 DEF ReplayInv, RunInv
  <2>2. RecordOf(ran)'
    BY <1>5, <1>6 DEF RecordOf
  <2> QED BY <2>1, <2>2 DEF Recorded
<1>8. Spent'
  BY <1>2, <1>6 DEF Spent
<1> QED BY <1>2, <1>7, <1>8 DEF ReplayInv

LEMMA ReplayInit ==
    ASSUME EngineAssumption, Init
    PROVE  ReplayInv
<1>1. Events = {}
  BY DEF Init, Events
<1>2. InBetween
  BY DEF Init, InBetween, Enterable, EngineAssumption
<1>3. RunInv
  BY <1>1, <1>2, NothingLegal DEF Init, RunInv, Counted
<1>4. Recorded
  BY NothingLegal DEF Init, Recorded, RecordOf
<1>5. Spent
  BY DEF Init, Spent, Idle
<1> QED BY <1>3, <1>4, <1>5 DEF ReplayInv

LEMMA ReplayStep ==
    ASSUME EngineAssumption, Replayable, EngineInv, ReplayInv, [Next]_vars
    PROVE  ReplayInv'
<1>1. Rites /\ RunInv
  BY DEF EngineInv, ReplayInv
<1>2. CASE Enters
  <2>1. UNCHANGED recorded
    BY <1>2 DEF Enters, memory
  <2> QED BY <1>1, <1>2, <2>1, EntersRun, EntersSpent, RecordedKept DEF ReplayInv
<1>3. ASSUME NEW b \in Branches, Calls(b) PROVE ReplayInv'
  <2>1. UNCHANGED recorded
    BY <1>3 DEF Calls
  <2> QED BY <1>1, <1>3, <2>1, CallsRun, CallsSpent, RecordedKept DEF ReplayInv
<1>4. ASSUME NEW b \in Branches, Returns(b) PROVE ReplayInv'
  <2>1. UNCHANGED recorded
    BY <1>4 DEF Returns
  <2> QED BY <1>1, <1>4, <2>1, ReturnsRun, ReturnsSpent, RecordedKept DEF ReplayInv
<1>5. ASSUME NEW b \in Branches, Fails(b) PROVE ReplayInv'
  <2>1. UNCHANGED recorded
    BY <1>5 DEF Fails
  <2> QED BY <1>1, <1>5, <2>1, FailsRun, FailsSpent, RecordedKept DEF ReplayInv
<1>6. CASE Leaves
  <2>1. UNCHANGED recorded
    BY <1>6 DEF Leaves, memory
  <2> QED BY <1>1, <1>6, <2>1, LeavesRun, LeavesSpent, RecordedKept DEF ReplayInv
<1>7. CASE Attaches \/ Restarts \/ Drops \/ UNCHANGED vars
  <2>1. UNCHANGED <<phase, walk, counter, grimoire, tasks, ledger, recorded>>
    BY <1>7 DEF Attaches, Restarts, Drops, vars, walk, tasks, memory
  <2> QED BY <2>1, Alike
<1>8. CASE Ends \/ Raises
  BY <1>1, <1>8, StopsKeeps DEF Ends, Raises, Finishes, memory
<1>9. CASE Dies
  BY <1>1, <1>9, StopsKeeps DEF Dies, memory
<1>10. CASE Cuts
  BY <1>10, CutsKeeps
<1>11. CASE Resumes
  BY <1>11, ResumesKeeps
<1> QED
  BY <1>2, <1>3, <1>4, <1>5, <1>6, <1>7, <1>8, <1>9, <1>10, <1>11 DEF Next, Work

(* A call that does not run, in a cast resumed, is given what that same    *)
(* call returned before, and never what another did, whatever was cut, lost*)
(* or resumed before it: rites are matched by their number alone           *)
(* (ledger.take, engine._rite).                                            *)
THEOREM ReplayedOwnCorrect ==
    ASSUME Replayable
    PROVE  Spec => []ReplayedOwn
<1>1. EngineInv /\ ReplayInv /\ [Next]_vars => (EngineInv /\ ReplayInv)'
  BY EngineStep, ReplayStep, EngineAssumption
<1>2. Init => EngineInv /\ ReplayInv
  BY InitEstablishes, ReplayInit, EngineAssumption
<1>3. EngineInv /\ ReplayInv => ReplayedOwn
  BY ReplayedAsRecorded DEF EngineInv
<1> QED BY <1>1, <1>2, <1>3, PTL DEF Spec

(* What a resume finds recorded is not done a second time, as long as      *)
(* every call before it was recorded as well (ledger.py:17-25).            *)
THEOREM NotRunAgainCorrect ==
    ASSUME Replayable
    PROVE  Spec => []NotRunAgain
<1>1. EngineInv /\ ReplayInv /\ [Next]_vars => (EngineInv /\ ReplayInv)'
  BY EngineStep, ReplayStep, EngineAssumption
<1>2. Init => EngineInv /\ ReplayInv
  BY InitEstablishes, ReplayInit, EngineAssumption
<1>3. EngineInv /\ ReplayInv => NotRunAgain
  BY ReplayedAsRecorded DEF EngineInv
<1> QED BY <1>1, <1>2, <1>3, PTL DEF Spec

-----------------------------------------------------------------------------
(* The sessions agents carry on.                                           *)

(* The call a rite is of, where it is one of an agent.                     *)
CallOf(of) == Body[of[1]][of[3]][of[4]]
OfAgent(c) == c.of[3] # 0 /\ CallOf(c.of) \in DOMAIN Thread

(* What agents filed under a key in the rites numbered below `n`, and the  *)
(* session filed last of those.                                            *)
Filing(said, n, key) ==
    {f \in said :
        /\ f.event = "ended" /\ f.session # None /\ f.rite < n
        /\ \E c \in Opens(said) :
              c.rite = f.rite /\ OfAgent(c) /\ key \in {None, Thread[CallOf(c.of)]}}
LastOf(filed, session) ==
    \/ filed = {} /\ session = None
    \/ \E f \in filed : session = f.session /\ \A g \in filed : g.rite <= f.rite
FiledLast(said, n, key, session) == LastOf(Filing(said, n, key), session)

SessionsFiled ==
    /\ DOMAIN sessions = DOMAIN NoSessions
    /\ \A key \in DOMAIN NoSessions : FiledLast(Events, counter + 1, key, sessions[key])

(* Each call of a cast that carried on was given what was filed last of    *)
(* its thread before its own rite.                                         *)
CarriedIn(said, cast) ==
    \A x \in carried : x.cast = cast =>
        \E d \in Opens(said) :
            /\ d.of = x.of /\ OfAgent(d)
            /\ FiledLast(said, d.rite, Thread[CallOf(d.of)], x.session)
OfCasts == resumes \in Nat /\ \A x \in carried : x.cast \in 0..resumes

(* While an agent is called no other is.                                   *)
AgentLast ==
    \A b \in Branches : InCall(b) /\ Call(b) \in DOMAIN Thread =>
        \A d \in Opens(Events) : OfAgent(d) => d.rite <= got[b].rite

(* Only agents name sessions.                                              *)
NamedByAgents(said) ==
    \A f \in said : f.event = "ended" /\ f.session # None =>
        \E c \in Opens(said) : c.rite = f.rite /\ OfAgent(c)

Numbered == \A id \in 1..counter : \E c \in Opens(Events) : c.rite = id

(* What is recorded, and was carried on, is of one run.                    *)
SessionsOf(said) ==
    \A x \in recorded : \E c, f \in said :
        Returned(c, f) /\ x.rite = c.rite /\ x.session = f.session
Resumable ==
    \E said : /\ Legal(said) /\ RecordOf(said)
              /\ SessionsOf(said) /\ NamedByAgents(said) /\ CarriedIn(said, resumes - 1)

(* The rites so far are those of the run recorded, and named the sessions  *)
(* they named in it, until one is not recorded.                            *)
Aligned ==
    \A said : Legal(said) /\ RecordOf(said) =>
        \A c \in Opens(Events), d \in Opens(said) :
            c.rite < counter \/ phase # "body" => (c.rite = d.rite <=> c.of = d.of)
SameSessions ==
    \A c, f \in Events : Returned(c, f) =>
        \E x \in recorded : x.rite = c.rite /\ x.session = f.session
Following ==
    \/ ledger = None /\ resumes = 0
    \/ /\ ledger # None /\ ledger = recorded
       /\ phase \in {"between", "body"} => Found /\ Aligned /\ SameSessions
    \/ ledger = {} /\ \E c \in Opens(Events) : c.of[3] # 0 /\ \A x \in recorded : x.of # c.of

ThreadInv ==
    /\ SessionsFiled /\ OfCasts /\ CarriedIn(Events, resumes) /\ AgentLast
    /\ NamedByAgents(Events) /\ Numbered /\ Resumable /\ Following

(* The first event of a rite files nothing, nor does one that names no     *)
(* session, or is of a rite as late as `n`.                                *)
LEMMA FilingKept ==
    ASSUME NEW said, NEW e, NEW n,
           \/ e.event = "began" /\ \A d \in said : d.rite # e.rite
           \/ e.event = "ended" /\ (e.session = None \/ ~(e.rite < n))
    PROVE  \A key, s : FiledLast(said, n, key, s) => FiledLast(said \cup {e}, n, key, s)
<1> SUFFICES ASSUME NEW key PROVE Filing(said \cup {e}, n, key) = Filing(said, n, key)
  BY DEF FiledLast
<1>1. Opens(said) \subseteq Opens(said \cup {e})
  BY DEF Opens
<1>2. Filing(said, n, key) \subseteq Filing(said \cup {e}, n, key)
  BY <1>1 DEF Filing
<1>3. ASSUME NEW f \in Filing(said \cup {e}, n, key) PROVE f \in Filing(said, n, key)
  <2>1. /\ f.event = "ended" /\ f.session # None /\ f.rite < n
        /\ f \in said \cup {e}
    BY <1>3 DEF Filing
  <2>2. PICK c \in Opens(said \cup {e}) :
           c.rite = f.rite /\ OfAgent(c) /\ key \in {None, Thread[CallOf(c.of)]}
    BY <1>3 DEF Filing
  <2>3. f \in said
    BY <2>1
  <2>4. c \in Opens(said)
    BY <2>2, <2>3 DEF Opens
  <2> QED BY <2>1, <2>2, <2>3, <2>4 DEF Filing
<1> QED BY <1>2, <1>3

(* A bound past every rite is as good as another.                          *)
LEMMA FilingFarther ==
    ASSUME NEW said, NEW n, NEW k, \A d \in said : d.rite < n /\ d.rite < k
    PROVE  \A key, s : FiledLast(said, n, key, s) => FiledLast(said, k, key, s)
<1>1. \A key : Filing(said, n, key) = Filing(said, k, key)
  BY DEF Filing
<1> QED BY <1>1 DEF FiledLast

(* What an agent files with its end is from then on the last.              *)
LEMMA FilingEnded ==
    ASSUME NEW said, Legal(said), NEW e, e.event = "ended", e.session # None,
           NEW c \in Opens(said), c.rite = e.rite, OfAgent(c),
           \A d \in Opens(said) : OfAgent(d) => d.rite <= e.rite,
           NEW n \in Nat, e.rite < n, NEW key
    PROVE  /\ key \in {None, Thread[CallOf(c.of)]} =>
                 FiledLast(said \cup {e}, n, key, e.session)
           /\ key \notin {None, Thread[CallOf(c.of)]} =>
                 \A s : FiledLast(said, n, key, s) => FiledLast(said \cup {e}, n, key, s)
<1>1. Opens(said \cup {e}) = Opens(said)
  BY OpensMore
<1>2. \A d \in Opens(said) : d.rite = e.rite => d = c
  BY DEF Legal, Apart, Opens
<1>3. ASSUME NEW f \in Filing(said \cup {e}, n, key) PROVE f.rite <= e.rite
  <2>1. PICK d \in Opens(said) : d.rite = f.rite /\ OfAgent(d)
    BY <1>1, <1>3 DEF Filing
  <2> QED BY <2>1
<1>4. key \in {None, Thread[CallOf(c.of)]} => e \in Filing(said \cup {e}, n, key)
  BY <1>1 DEF Filing
<1>5. key \notin {None, Thread[CallOf(c.of)]} =>
         Filing(said \cup {e}, n, key) = Filing(said, n, key)
  BY <1>1, <1>2 DEF Filing
<1> QED BY <1>3, <1>4, <1>5 DEF FiledLast, LastOf

(* The session filed last is one.                                          *)
LEMMA LastAlone ==
    ASSUME NEW said, Legal(said), NEW n, NEW key, NEW s, NEW t,
           FiledLast(said, n, key, s), FiledLast(said, n, key, t)
    PROVE  s = t
<1> DEFINE filed == Filing(said, n, key)
<1>1. CASE filed = {}
  BY <1>1 DEF FiledLast, LastOf
<1>2. CASE filed # {}
  <2>1. PICK f \in filed : s = f.session /\ \A h \in filed : h.rite <= f.rite
    BY <1>2 DEF FiledLast, LastOf
  <2>2. PICK g \in filed : t = g.session /\ \A h \in filed : h.rite <= g.rite
    BY <1>2 DEF FiledLast, LastOf
  <2>3. f.rite \in Nat /\ g.rite \in Nat
    BY <2>1, <2>2 DEF Filing, Legal, Shaped
  <2>4. f.rite = g.rite
    BY <2>1, <2>2, <2>3
  <2>5. f \in said /\ g \in said /\ f.event = g.event
    BY <2>1, <2>2 DEF Filing
  <2>6. f = g
    BY <2>4, <2>5 DEF Legal, Apart
  <2> QED BY <2>1, <2>2, <2>6
<1> QED BY <1>1, <1>2

LEMMA CallIs ==
    ASSUME NEW b \in Branches, EngineAssumption, NEW c, c.of = Here(b)
    PROVE  /\ CallOf(c.of) = Call(b) /\ c.of[3] # 0
           /\ OfAgent(c) <=> Call(b) \in DOMAIN Thread
<1>1. b # 0
  BY BranchNumbers
<1>2. CallOf(c.of) = Call(b) /\ c.of[3] # 0
  BY <1>1 DEF CallOf, Call, Here
<1> QED BY <1>2 DEF OfAgent

(* While an agent is called no other is about to be.                       *)
LEMMA OneAgentCalled ==
    ASSUME EngineAssumption, Replayable, OneAgent, RunInv, phase = "body",
           NEW a \in Branches, InCall(a), Call(a) \in DOMAIN Thread,
           NEW b \in Branches, doing[b] = "ready", Call(b) \in DOMAIN Thread
    PROVE  FALSE
<1>1. InBody
  BY DEF RunInv
<1>2. a \in Mine /\ b \in Mine /\ payload \in Payload
  BY <1>1 DEF InBody, InCall
<1>3. a # b
  BY DEF InCall
<1>4. PICK m \in 0..Size(payload) : Come(m)
  BY <1>1 DEF InBody
<1>5. CASE Len(Body[payload]) = 1
  BY <1>2, <1>3, <1>4, <1>5, TaskPlace
<1>6. CASE Len(Body[payload]) # 1
  <2>1. pos[a] = 1 /\ pos[b] = 1
    BY <1>2, <1>4, <1>6, TaskPlace
  <2>2. {Body[payload][a][1], Body[payload][b][1]} \subseteq DOMAIN Thread
    BY <2>1 DEF Call
  <2> QED BY <1>2, <1>3, <1>6, <2>2 DEF OneAgent, Mine
<1> QED BY <1>5, <1>6

(* The rite a run has come to is that of the same call or step in both.    *)
LEMMA AlignedNow ==
    ASSUME EngineAssumption, Replayable, Rites, RunInv, phase = "body", Found, Aligned,
           NEW ran, Legal(ran), RecordOf(ran), NEW c \in Opens(Events), NEW d \in Opens(ran)
    PROVE  c.rite = d.rite <=> c.of = d.of
<1>1. c.rite \in 1..counter /\ counter \in Nat
  BY EventsOf DEF RunInv, Counted
<1>2. CASE c.rite < counter
  BY <1>2 DEF Aligned
<1>3. CASE c.rite = counter
  <2>1. PICK m \in 0..Size(payload) : Come(m)
    BY DEF RunInv, InBody
  <2>2. PICK e \in Opens(Events) : e.rite = counter /\ e.of = At(payload, steps, m)
    BY <2>1 DEF Come
  <2>3. c = e
    BY <1>3, <2>2 DEF RunInv, Legal, Apart, Opens
  <2>4. d.rite = counter <=> d.of = At(payload, steps, m)
    BY <1>1, <2>1, BegunAlike
  <2> QED BY <1>3, <2>2, <2>3, <2>4
<1> QED BY <1>1, <1>2, <1>3

(* In step with the run recorded, what is filed as an agent is called is   *)
(* what was filed then.                                                    *)
LEMMA FiledAlike ==
    ASSUME EngineAssumption, Replayable, OneAgent, Rites, RunInv, phase = "body",
           Found, Aligned, SameSessions, Numbered,
           NEW ran, Legal(ran), RecordOf(ran), SessionsOf(ran),
           NEW b \in Branches, doing[b] = "ready", Call(b) \in DOMAIN Thread,
           NEW key, NEW s, FiledLast(Events, counter + 1, key, s)
    PROVE  FiledLast(ran, counter + 1, key, s)
<1> DEFINE ours == Filing(Events, counter + 1, key)
           theirs == Filing(ran, counter + 1, key)
<1>0. Legal(Events) /\ counter \in Nat /\ Counted
  BY EventsOf DEF RunInv
<1>1. ASSUME NEW c \in Opens(Events), OfAgent(c)
      PROVE  \E f \in Events, d \in Opens(ran), g \in ran :
                /\ Returned(c, f) /\ Returned(d, g) /\ d.of = c.of /\ d.rite = c.rite
                /\ g.rite = f.rite /\ g.session = f.session
  <2>1. c.of[3] # 0
    BY <1>1 DEF OfAgent
  <2>2. \A a \in Branches : ~(InCall(a) /\ got[a].rite = c.rite)
    <3> SUFFICES ASSUME NEW a \in Branches, InCall(a), got[a].rite = c.rite PROVE FALSE
      OBVIOUS
    <3>1. PICK e \in Opens(Events) : e.rite = got[a].rite /\ e.of = Here(a)
      BY DEF RunInv, InBody, TaskSaid, InCall
    <3>2. e = c
      BY <1>0, <3>1 DEF Legal, Apart, Opens
    <3>3. Call(a) \in DOMAIN Thread
      BY <1>1, <3>1, <3>2, CallIs
    <3> QED BY <3>3, OneAgentCalled
  <2>3. PICK r \in Results : Gave(Events, c.of, r)
    BY <2>1, <2>2 DEF Found
  <2>4. PICK e \in Events, f \in Events : Returned(e, f) /\ e.of = c.of
    BY <2>3 DEF Gave
  <2>5. e = c
    <3>1. e \in Opens(Events)
      BY <2>4 DEF Opens, Returned
    <3> QED BY <1>0, <2>4, <3>1 DEF Legal, OfApart
  <2>6. PICK x \in recorded : x.rite = c.rite /\ x.session = f.session
    BY <2>4, <2>5 DEF SameSessions
  <2>7. PICK d \in ran, g \in ran : Returned(d, g) /\ x.rite = d.rite /\ x.session = g.session
    BY <2>6 DEF SessionsOf
  <2>8. d \in Opens(ran)
    BY <2>7 DEF Opens, Returned
  <2>9. d.of = c.of
    BY <2>6, <2>7, <2>8, AlignedNow
  <2>10. g.rite = f.rite
    BY <2>4, <2>5, <2>6, <2>7 DEF Returned
  <2> QED BY <2>4, <2>5, <2>6, <2>7, <2>8, <2>9, <2>10
<1>2. ASSUME NEW f \in ours
      PROVE  \E g \in theirs : g.rite = f.rite /\ g.session = f.session
  <2>1. /\ f \in Events /\ f.event = "ended" /\ f.session # None /\ f.rite < counter + 1
    BY <1>2 DEF Filing
  <2>2. PICK c \in Opens(Events) :
           c.rite = f.rite /\ OfAgent(c) /\ key \in {None, Thread[CallOf(c.of)]}
    BY <1>2 DEF Filing
  <2>3. PICK h \in Events, d \in Opens(ran), g \in ran :
           /\ Returned(c, h) /\ Returned(d, g) /\ d.of = c.of /\ d.rite = c.rite
           /\ g.rite = h.rite /\ g.session = h.session
    BY <1>1, <2>2
  <2>4. h = f
    BY <1>0, <2>1, <2>2, <2>3 DEF Legal, Apart, Returned
  <2>5. OfAgent(d) /\ CallOf(d.of) = CallOf(c.of)
    BY <2>2, <2>3 DEF OfAgent
  <2>6. g \in theirs
    BY <2>1, <2>2, <2>3, <2>4, <2>5 DEF Filing, Returned
  <2> QED BY <2>3, <2>4, <2>6
<1>3. ASSUME NEW g \in theirs
      PROVE  \E f \in ours : f.rite = g.rite /\ f.session = g.session
  <2>1. /\ g \in ran /\ g.event = "ended" /\ g.session # None /\ g.rite < counter + 1
    BY <1>3 DEF Filing
  <2>2. PICK d \in Opens(ran) :
           d.rite = g.rite /\ OfAgent(d) /\ key \in {None, Thread[CallOf(d.of)]}
    BY <1>3 DEF Filing
  <2>3. d.rite \in 1..counter
    BY <1>0, <2>1, <2>2, RiteOf
  <2>4. PICK c \in Opens(Events) : c.rite = d.rite
    BY <2>3 DEF Numbered
  <2>5. c.of = d.of
    BY <2>4, AlignedNow
  <2>6. OfAgent(c) /\ CallOf(d.of) = CallOf(c.of)
    BY <2>2, <2>5 DEF OfAgent
  <2>7. PICK f \in Events, e \in Opens(ran), h \in ran :
           /\ Returned(c, f) /\ Returned(e, h) /\ e.of = c.of /\ e.rite = c.rite
           /\ h.rite = f.rite /\ h.session = f.session
    BY <1>1, <2>6
  <2>8. h = g
    BY <2>1, <2>2, <2>4, <2>7 DEF Legal, Apart, Returned
  <2>9. f \in ours
    BY <2>1, <2>2, <2>6, <2>7, <2>8 DEF Filing, Returned
  <2> QED BY <2>7, <2>8, <2>9
<1>4. CASE ours = {}
  BY <1>3, <1>4 DEF FiledLast, LastOf
<1>5. CASE ours # {}
  <2>1. PICK f \in ours : s = f.session /\ \A h \in ours : h.rite <= f.rite
    BY <1>5 DEF FiledLast, LastOf
  <2>2. PICK g \in theirs : g.rite = f.rite /\ g.session = f.session
    BY <1>2, <2>1
  <2>3. \A h \in theirs : h.rite <= g.rite
    BY <1>3, <2>1, <2>2
  <2> QED BY <2>1, <2>2, <2>3 DEF FiledLast, LastOf
<1> QED BY <1>4, <1>5

(* A call that carries on in a cast resumed, in step with the one recorded,*)
(* carries on what that one's did.                                         *)
LEMMA CarriedOn ==
    ASSUME EngineAssumption, Replayable, OneAgent, EngineInv, ReplayInv, ThreadInv,
           resumes > 0, NEW b \in Branches, Calls(b), Call(b) \in Continues,
           ~\E id \in 1..counter : Missed(id),
           NEW x \in carried, x.cast = resumes - 1, x.of = Here(b)
    PROVE  x.session = Resumed(Call(b))
<1>1. /\ Rites /\ RunInv /\ phase = "body" /\ doing[b] = "ready" /\ resumes \in Nat
      /\ Call(b) \in DOMAIN Thread
  BY DEF EngineInv, ReplayInv, ThreadInv, OfCasts, Calls, EngineAssumption
<1>2. counter \in Nat /\ \A c \in Opens(Events) : c.rite \in 1..counter
  BY <1>1, EventsOf DEF RunInv, Counted
<1>3. Found /\ Aligned /\ SameSessions
  <2>1. ASSUME NEW c \in Opens(Events), c.of[3] # 0, \A y \in recorded : y.of # c.of
        PROVE  FALSE
    <3>1. Missed(c.rite)
      BY <2>1 DEF Missed, Opens, Events
    <3> QED BY <1>2, <3>1
  <2> QED BY <1>1, <2>1 DEF ThreadInv, Following
<1>4. PICK ran : /\ Legal(ran) /\ RecordOf(ran)
                 /\ SessionsOf(ran) /\ CarriedIn(ran, resumes - 1)
  BY DEF ThreadInv, Resumable
<1>5. PICK d \in Opens(ran) :
        /\ d.of = Here(b)
        /\ FiledLast(ran, d.rite, Thread[CallOf(d.of)], x.session)
  BY <1>4 DEF CarriedIn
<1>6. CallOf(d.of) = Call(b)
  BY <1>5, CallIs
<1>7. d.rite = counter + 1
  <2>1. PICK m \in 0..Size(payload) : Come(m)
    BY <1>1 DEF RunInv, InBody
  <2>2. payload \in Payload /\ steps \in 1..MaxSteps
    BY <1>1 DEF RunInv, InBody
  <2>3. m \in Nat /\ m + 1 \in 1..Size(payload) /\ d.of = At(payload, steps, m + 1)
    BY <1>1, <1>5, <2>1, CallsNext
  <2>4. PICK e \in Opens(ran) : e.rite = d.rite - 1 /\ e.of = At(payload, steps, m + 1 - 1)
    <3>1. \A j \in 1..Size(payload) : d.of = At(payload, steps, j) =>
             \E e \in Opens(ran) : e.rite = d.rite - 1 /\ e.of = At(payload, steps, j - 1)
      BY <1>4, <2>2 DEF Legal, Rows
    <3> QED BY <2>3, <3>1
  <2>5. m + 1 - 1 = m
    BY <2>3
  <2>6. e.rite = counter
    BY <1>1, <1>2, <1>3, <1>4, <2>1, <2>4, <2>5, BegunAlike
  <2>7. d.rite \in Nat
    BY <1>4, RiteOf
  <2> QED BY <1>2, <2>4, <2>6, <2>7
<1> DEFINE key == Thread[Call(b)]
<1>8. key \in DOMAIN NoSessions
  BY <1>1 DEF NoSessions
<1>9. FiledLast(Events, counter + 1, key, sessions[key])
  BY <1>8 DEF ThreadInv, SessionsFiled
<1> HIDE DEF key
<1>10. FiledLast(ran, counter + 1, key, sessions[key])
  BY <1>1, <1>3, <1>4, <1>9, FiledAlike DEF ThreadInv
<1>11. FiledLast(ran, counter + 1, key, x.session)
  BY <1>5, <1>6, <1>7 DEF key
<1>12. x.session = sessions[key]
  BY <1>4, <1>10, <1>11, LastAlone
<1> QED BY <1>12 DEF Resumed, key

-----------------------------------------------------------------------------
(* That it is inductive.                                                   *)

LEMMA BegunThreads ==
    ASSUME EngineAssumption, Rites, SessionsFiled, OfCasts, CarriedIn(Events, resumes),
           NamedByAgents(Events), Numbered,
           NEW e, e.event = "began", e.rite = counter + 1, Events' = Events \cup {e},
           counter' = counter + 1, UNCHANGED <<sessions, resumes>>,
           NEW key, key = Thread[CallOf(e.of)],
           \/ carried' = carried
           \/ /\ OfAgent(e) /\ key \in DOMAIN NoSessions
              /\ carried' = carried \cup
                    {[cast |-> resumes, of |-> e.of, session |-> sessions[key]]}
    PROVE  /\ SessionsFiled' /\ OfCasts' /\ CarriedIn(Events, resumes)'
           /\ NamedByAgents(Events)' /\ Numbered'
<1>1. counter \in Nat /\ \A d \in Events : d.rite \in 1..counter
  BY EventsOf
<1>2. Opens(Events') = Opens(Events) \cup {e}
  BY OpensMore
<1>3. \A n, k, s : FiledLast(Events, n, k, s) => FiledLast(Events', n, k, s)
  <2>1. \A d \in Events : d.rite # e.rite
    BY <1>1
  <2> QED BY <2>1, FilingKept
<1>4. \A k, s : FiledLast(Events, counter + 1, k, s) => FiledLast(Events, counter + 2, k, s)
  <2>1. \A d \in Events : d.rite < counter + 2 /\ d.rite < counter + 1
    BY <1>1
  <2> QED BY <2>1, FilingFarther
<1>5. SessionsFiled'
  <2>1. counter' + 1 = counter + 2
    BY <1>1
  <2>2. ASSUME NEW k \in DOMAIN NoSessions
        PROVE  FiledLast(Events', counter' + 1, k, sessions'[k])
    BY <1>3, <1>4, <2>1 DEF SessionsFiled
  <2> QED BY <2>2 DEF SessionsFiled, NoSessions
<1>6. ASSUME NEW x \in carried', x.cast = resumes
      PROVE  \E d \in Opens(Events') :
                /\ d.of = x.of /\ OfAgent(d)
                /\ FiledLast(Events', d.rite, Thread[CallOf(d.of)], x.session)
  <2>1. CASE x \in carried
    <3>1. PICK d \in Opens(Events) :
            /\ d.of = x.of /\ OfAgent(d)
            /\ FiledLast(Events, d.rite, Thread[CallOf(d.of)], x.session)
      BY <1>6, <2>1 DEF CarriedIn
    <3> QED BY <1>2, <1>3, <3>1
  <2>2. CASE x \notin carried
    <3>1. /\ OfAgent(e) /\ key \in DOMAIN NoSessions
          /\ x = [cast |-> resumes, of |-> e.of, session |-> sessions[key]]
      BY <2>2
    <3>2. x.of = e.of /\ x.session = sessions[key]
      BY <3>1
    <3>3. FiledLast(Events, counter + 1, key, sessions[key])
      BY <3>1 DEF SessionsFiled
    <3>4. FiledLast(Events', e.rite, key, x.session)
      BY <1>3, <3>2, <3>3
    <3> QED BY <1>2, <3>1, <3>2, <3>4
  <2> QED BY <2>1, <2>2
<1>7. CarriedIn(Events, resumes)'
  BY <1>6 DEF CarriedIn
<1>8. OfCasts'
  <2>1. \A x \in carried' : x \in carried \/ x.cast = resumes
    OBVIOUS
  <2> QED BY <2>1 DEF OfCasts
<1>9. NamedByAgents(Events)'
  <2>1. ASSUME NEW f \in Events', f.event = "ended", f.session # None
        PROVE  \E c \in Opens(Events') : c.rite = f.rite /\ OfAgent(c)
    <3>1. f \in Events
      BY <2>1
    <3> QED BY <1>2, <2>1, <3>1 DEF NamedByAgents
  <2> QED BY <2>1 DEF NamedByAgents
<1>10. Numbered'
  <2>1. ASSUME NEW id \in 1..counter' PROVE \E c \in Opens(Events') : c.rite = id
    <3>1. id \in 1..counter \/ id = counter + 1
      BY <1>1
    <3> QED BY <1>2, <3>1 DEF Numbered
  <2> QED BY <2>1 DEF Numbered
<1> QED BY <1>5, <1>7, <1>8, <1>9, <1>10

LEMMA EndedThreads ==
    ASSUME EngineAssumption, Rites, Legal(Events),
           SessionsFiled, OfCasts, CarriedIn(Events, resumes), AgentLast,
           NamedByAgents(Events), Numbered,
           NEW e, e.event = "ended", Events' = Events \cup {e},
           UNCHANGED <<counter, carried, resumes>>,
           \/ e.session = None /\ sessions' = sessions
           \/ /\ e.session # None
              /\ \E b \in Branches, c \in Opens(Events) :
                    /\ InCall(b) /\ Call(b) \in DOMAIN Thread /\ c.rite = got[b].rite
                    /\ c.of = Here(b) /\ e.rite = got[b].rite
                    /\ sessions' = [k \in DOMAIN sessions |->
                          IF k \in {None, Thread[Call(b)]} THEN e.session ELSE sessions[k]]
    PROVE  /\ SessionsFiled' /\ OfCasts' /\ CarriedIn(Events, resumes)'
           /\ NamedByAgents(Events)' /\ Numbered'
<1>1. counter \in Nat /\ \A d \in Events : d.rite \in 1..counter
  BY EventsOf
<1>2. Opens(Events') = Opens(Events)
  BY OpensMore
<1>3. OfCasts' /\ Numbered'
  BY <1>2 DEF OfCasts, Numbered
<1>4. CASE e.session = None /\ sessions' = sessions
  <2>1. \A n, k, s : FiledLast(Events, n, k, s) => FiledLast(Events', n, k, s)
    BY <1>4, FilingKept
  <2>2. SessionsFiled'
    BY <1>4, <2>1 DEF SessionsFiled, NoSessions
  <2>3. CarriedIn(Events, resumes)'
    <3>1. ASSUME NEW x \in carried, x.cast = resumes
          PROVE  \E d \in Opens(Events') :
                    /\ d.of = x.of /\ OfAgent(d)
                    /\ FiledLast(Events', d.rite, Thread[CallOf(d.of)], x.session)
      <4>1. PICK d \in Opens(Events) :
              /\ d.of = x.of /\ OfAgent(d)
              /\ FiledLast(Events, d.rite, Thread[CallOf(d.of)], x.session)
        BY <3>1 DEF CarriedIn
      <4> QED BY <1>2, <2>1, <4>1
    <3> QED BY <3>1 DEF CarriedIn
  <2>4. NamedByAgents(Events)'
    BY <1>2, <1>4 DEF NamedByAgents
  <2> QED BY <1>3, <2>2, <2>3, <2>4
<1>5. CASE e.session # None
  <2>1. PICK b \in Branches, c \in Opens(Events) :
          /\ InCall(b) /\ Call(b) \in DOMAIN Thread /\ c.rite = got[b].rite
          /\ c.of = Here(b) /\ e.rite = got[b].rite
          /\ sessions' = [k \in DOMAIN sessions |->
                IF k \in {None, Thread[Call(b)]} THEN e.session ELSE sessions[k]]
    BY <1>5
  <2>2. OfAgent(c) /\ CallOf(c.of) = Call(b) /\ e.rite = c.rite
    BY <2>1, CallIs
  <2>3. \A d \in Opens(Events) : OfAgent(d) => d.rite <= e.rite
    BY <2>1 DEF AgentLast
  <2>4. e.rite \in 1..counter /\ e.rite < counter + 1 /\ counter + 1 \in Nat
    BY <1>1, <2>2 DEF Opens
  <2>5. ASSUME NEW k \in DOMAIN NoSessions
        PROVE  FiledLast(Events', counter + 1, k, sessions'[k])
    <3>1. k \in DOMAIN sessions
      BY DEF SessionsFiled
    <3>2. CASE k \in {None, Thread[CallOf(c.of)]}
      <4>1. FiledLast(Events \cup {e}, counter + 1, k, e.session)
        BY <1>5, <2>2, <2>3, <2>4, <3>2, FilingEnded
      <4>2. sessions'[k] = e.session
        BY <2>1, <2>2, <3>1, <3>2
      <4> QED BY <4>1, <4>2
    <3>3. CASE k \notin {None, Thread[CallOf(c.of)]}
      <4>1. /\ k \in {None, Thread[CallOf(c.of)]} =>
                 FiledLast(Events \cup {e}, counter + 1, k, e.session)
            /\ k \notin {None, Thread[CallOf(c.of)]} =>
                 \A s : FiledLast(Events, counter + 1, k, s) =>
                        FiledLast(Events \cup {e}, counter + 1, k, s)
        BY <1>5, <2>2, <2>3, <2>4, FilingEnded
      <4>2. sessions'[k] = sessions[k]
        BY <2>1, <2>2, <3>1, <3>3
      <4> QED BY <3>3, <4>1, <4>2 DEF SessionsFiled
    <3> QED BY <3>2, <3>3
  <2>6. SessionsFiled'
    <3>1. DOMAIN sessions' = DOMAIN NoSessions
      BY <2>1 DEF SessionsFiled
    <3> QED BY <2>5, <3>1 DEF SessionsFiled, NoSessions
  <2>7. ASSUME NEW x \in carried, x.cast = resumes
        PROVE  \E d \in Opens(Events') :
                  /\ d.of = x.of /\ OfAgent(d)
                  /\ FiledLast(Events', d.rite, Thread[CallOf(d.of)], x.session)
    <3>1. PICK d \in Opens(Events) :
            /\ d.of = x.of /\ OfAgent(d)
            /\ FiledLast(Events, d.rite, Thread[CallOf(d.of)], x.session)
      BY <2>7 DEF CarriedIn
    <3>2. FiledLast(Events', d.rite, Thread[CallOf(d.of)], x.session)
      <4>1. d.rite <= e.rite /\ d.rite \in Nat /\ e.rite \in Nat
        BY <1>1, <2>3, <2>4, <3>1 DEF Opens
      <4>2. ~(e.rite < d.rite)
        BY <4>1
      <4> QED BY <3>1, <4>2, FilingKept
    <3> QED BY <1>2, <3>1, <3>2
  <2>8. CarriedIn(Events, resumes)'
    BY <2>7 DEF CarriedIn
  <2>9. NamedByAgents(Events)'
    BY <1>2, <2>2 DEF NamedByAgents
  <2> QED BY <1>3, <2>6, <2>8, <2>9
<1> QED BY <1>4, <1>5

LEMMA ResumableKept ==
    ASSUME Resumable, OfCasts, UNCHANGED <<recorded, resumes>>,
           \A x \in carried' : x \in carried \/ x.cast = resumes
    PROVE  Resumable'
<1>1. PICK said : /\ Legal(said) /\ RecordOf(said)
                  /\ SessionsOf(said) /\ NamedByAgents(said) /\ CarriedIn(said, resumes - 1)
  BY DEF Resumable
<1>2. RecordOf(said)' /\ SessionsOf(said)'
  BY <1>1 DEF RecordOf, SessionsOf
<1>3. CarriedIn(said, resumes - 1)'
  <2>1. \A x \in carried' : x.cast = resumes - 1 => x \in carried
    BY DEF OfCasts
  <2> QED BY <1>1, <2>1 DEF CarriedIn
<1> QED BY <1>1, <1>2, <1>3 DEF Resumable

(* In step, or not in step any more.                                       *)
LEMMA FollowingKept ==
    ASSUME Following, Spent', UNCHANGED <<recorded, resumes>>,
           ledger = None => ledger' = None, ledger # None => ledger' # None,
           ledger = {} => ledger' = {}, Opens(Events) \subseteq Opens(Events'),
           phase' \in {"between", "body"} =>
              /\ phase \in {"between", "body"}
              /\ Found /\ Found' /\ Aligned /\ SameSessions /\ ledger = recorded
                    => Aligned' /\ SameSessions'
    PROVE  Following'
<1>1. CASE ledger = None /\ resumes = 0
  BY <1>1 DEF Following
<1>2. ASSUME ledger = {}, NEW c \in Opens(Events), c.of[3] # 0, \A x \in recorded : x.of # c.of
      PROVE  Following'
  <2>1. c \in Opens(Events') /\ \A x \in recorded' : x.of # c.of
    BY <1>2
  <2> QED BY <1>2, <2>1 DEF Following
<1>3. CASE /\ ledger # None /\ ledger = recorded
           /\ phase \in {"between", "body"} => Found /\ Aligned /\ SameSessions
  <2>1. CASE ledger' = recorded' /\ (phase' \in {"between", "body"} => Found')
    BY <1>3, <2>1 DEF Following
  <2>2. CASE ledger' = {} /\ \E c \in Opens(Events') : MissedBy(c)'
    BY <2>2 DEF Following, MissedBy
  <2> QED BY <1>3, <2>1, <2>2 DEF Spent
<1> QED BY <1>1, <1>2, <1>3 DEF Following

LEMMA AlignedBegun ==
    ASSUME EngineAssumption, Replayable, Rites, RunInv, phase \in {"between", "body"},
           Found, Aligned, phase' = "body", UNCHANGED recorded, counter' = counter + 1,
           NEW e, e.rite = counter + 1, Opens(Events') = Opens(Events) \cup {e}
    PROVE  Aligned'
<1>1. counter \in Nat
  BY EventsOf
<1>2. ASSUME NEW said, Legal(said), RecordOf(said)',
             NEW c \in Opens(Events'), NEW d \in Opens(said), c.rite < counter'
      PROVE  c.rite = d.rite <=> c.of = d.of
  <2>1. c \in Opens(Events)
    BY <1>1, <1>2
  <2>2. RecordOf(said)
    BY <1>2 DEF RecordOf
  <2>3. CASE phase = "between"
    BY <1>2, <2>1, <2>2, <2>3 DEF Aligned
  <2>4. CASE phase = "body"
    BY <1>2, <2>1, <2>2, <2>4, AlignedNow
  <2> QED BY <2>3, <2>4
<1> QED BY <1>2 DEF Aligned

LEMMA AlignedEnded ==
    ASSUME EngineAssumption, Replayable, Rites, RunInv, phase = "body",
           Found, Aligned, UNCHANGED recorded, Opens(Events') = Opens(Events)
    PROVE  Aligned'
<1>1. ASSUME NEW said, Legal(said), RecordOf(said)',
             NEW c \in Opens(Events'), NEW d \in Opens(said)
      PROVE  c.rite = d.rite <=> c.of = d.of
  <2>1. RecordOf(said)
    BY <1>1 DEF RecordOf
  <2> QED BY <1>1, <2>1, AlignedNow
<1> QED BY <1>1 DEF Aligned

LEMMA BegunSame ==
    ASSUME Rites, SameSessions, UNCHANGED recorded, NEW e, e.event = "began",
           e.rite = counter + 1, Events' = Events \cup {e}
    PROVE  SameSessions'
<1>1. counter \in Nat /\ \A d \in Events : d.rite \in 1..counter
  BY EventsOf
<1>2. ASSUME NEW c \in Events', NEW f \in Events', Returned(c, f)
      PROVE  c \in Events /\ f \in Events
  <2>1. f \in Events
    BY <1>2 DEF Returned
  <2>2. f.rite # e.rite
    BY <1>1, <2>1
  <2> QED BY <1>2, <2>1, <2>2 DEF Returned
<1> QED BY <1>2 DEF SameSessions

LEMMA EntersThreads ==
    ASSUME EngineAssumption, Replayable, EngineInv, ReplayInv, Spent', ThreadInv, Enters
    PROVE  ThreadInv'
<1> DEFINE e == Began(counter + 1, StepOf[payload], <<payload, steps + 1, 0, 0>>)
<1>1. /\ phase = "between" /\ phase' = "body" /\ counter' = counter + 1 /\ Emit(e)
      /\ UNCHANGED <<sessions, carried, ledger, recorded, resumes>>
      /\ doing' = [b \in Branches |-> IF b \in DOMAIN Body[payload] THEN "ready" ELSE "done"]
  BY DEF Enters, memory, book
<1>2. e.event = "began" /\ e.rite = counter + 1
  BY DEF Began
<1> HIDE DEF e
<1>3. Rites /\ RunInv
  BY DEF EngineInv, ReplayInv
<1>4. Events' = Events \cup {e} /\ Opens(Events') = Opens(Events) \cup {e}
  <2>1. Events' = Events \cup {e}
    BY <1>1, <1>3, EventsOf
  <2> QED BY <1>2, <2>1, OpensMore
<1>5. /\ SessionsFiled' /\ OfCasts' /\ CarriedIn(Events, resumes)'
      /\ NamedByAgents(Events)' /\ Numbered'
  <2>1. PICK key : key = Thread[CallOf(e.of)]
    OBVIOUS
  <2> QED BY <1>1, <1>2, <1>3, <1>4, <2>1, BegunThreads DEF ThreadInv
<1>6. AgentLast'
  <2>1. \A b \in Branches : ~InCall(b)'
    BY <1>1 DEF InCall
  <2> QED BY <2>1 DEF AgentLast
<1>7. Resumable'
  BY <1>1, ResumableKept DEF ThreadInv
<1>8. Following'
  <2>1. Found /\ Aligned => Aligned'
    BY <1>1, <1>2, <1>3, <1>4, AlignedBegun
  <2>2. SameSessions => SameSessions'
    BY <1>1, <1>2, <1>3, <1>4, BegunSame
  <2> QED BY <1>1, <1>4, <2>1, <2>2, FollowingKept DEF ThreadInv
<1> QED BY <1>5, <1>6, <1>7, <1>8 DEF ThreadInv

LEMMA CallsThreads ==
    ASSUME EngineAssumption, Replayable, OneAgent, EngineInv, ReplayInv, Spent', ThreadInv,
           NEW b \in Branches, Calls(b)
    PROVE  ThreadInv'
<1> DEFINE e == Began(counter + 1, Medium[Call(b)], Here(b))
<1>1. /\ phase = "body" /\ phase' = "body" /\ doing[b] = "ready"
      /\ counter' = counter + 1 /\ Emit(e)
      /\ UNCHANGED <<payload, steps, pos, sessions, recorded, resumes>>
      /\ doing' \in {[doing EXCEPT ![b] = "replayed"], [doing EXCEPT ![b] = "live"]}
      /\ got' = [got EXCEPT ![b] = [result |-> None, rite |-> counter + 1]]
      /\ ledger' = IF ledger = None THEN None ELSE Left(counter + 1, Medium[Call(b)])
      /\ carried' = IF Call(b) \in Continues
                    THEN carried \cup {[cast |-> resumes, of |-> Here(b),
                                        session |-> Resumed(Call(b))]}
                    ELSE carried
  BY DEF Calls, walk, Here
<1>2. e.event = "began" /\ e.rite = counter + 1 /\ e.of = Here(b)
  BY DEF Began
<1> HIDE DEF e
<1>3. Rites /\ RunInv
  BY DEF EngineInv, ReplayInv
<1>4. Events' = Events \cup {e} /\ Opens(Events') = Opens(Events) \cup {e}
  <2>1. Events' = Events \cup {e}
    BY <1>1, <1>3, EventsOf
  <2> QED BY <1>2, <2>1, OpensMore
<1>5. CallOf(e.of) = Call(b) /\ (OfAgent(e) <=> Call(b) \in DOMAIN Thread)
  BY <1>2, CallIs
<1>6. /\ SessionsFiled' /\ OfCasts' /\ CarriedIn(Events, resumes)'
      /\ NamedByAgents(Events)' /\ Numbered'
  <2>1. PICK key : key = Thread[CallOf(e.of)]
    OBVIOUS
  <2>2. CASE Call(b) \in Continues
    <3>1. Call(b) \in DOMAIN Thread
      BY <2>2 DEF EngineAssumption
    <3>2. key \in DOMAIN NoSessions
      BY <1>5, <2>1, <3>1 DEF NoSessions
    <3>3. carried' = carried \cup
             {[cast |-> resumes, of |-> e.of, session |-> sessions[key]]}
      BY <1>1, <1>2, <1>5, <2>1, <2>2 DEF Resumed
    <3> QED BY <1>1, <1>2, <1>3, <1>4, <1>5, <2>1, <3>1, <3>2, <3>3, BegunThreads DEF ThreadInv
  <2>3. CASE Call(b) \notin Continues
    BY <1>1, <1>2, <1>3, <1>4, <2>1, <2>3, BegunThreads DEF ThreadInv
  <2> QED BY <2>2, <2>3
<1>7. AgentLast'
  <2>0. /\ DOMAIN doing = Branches /\ DOMAIN got = Branches /\ counter \in Nat
        /\ \A d \in Opens(Events) : d.rite \in 1..counter
    BY <1>3, EventsOf DEF Rites, EngineTypes, Opens
  <2>1. ASSUME NEW a \in Branches, InCall(a)', Call(a)' \in DOMAIN Thread,
               NEW d \in Opens(Events'), OfAgent(d)
        PROVE  d.rite <= got'[a].rite
    <3>1. CASE a = b
      <4>1. got'[b] = [result |-> None, rite |-> counter + 1]
        BY <1>1, <2>0
      <4>2. got'[a].rite = counter + 1
        BY <3>1, <4>1
      <4>3. d.rite \in 1..counter \/ d.rite = counter + 1
        BY <1>2, <1>4, <2>0
      <4> QED BY <2>0, <4>2, <4>3
    <3>2. CASE a # b
      <4>1. doing'[a] = doing[a] /\ got'[a] = got[a] /\ Call(a)' = Call(a)
        BY <1>1, <2>0, <3>2 DEF Call
      <4>2. InCall(a) /\ Call(a) \in DOMAIN Thread
        BY <2>1, <4>1 DEF InCall
      <4>3. CASE d \in Opens(Events)
        BY <2>1, <4>1, <4>2, <4>3 DEF ThreadInv, AgentLast
      <4>4. CASE d = e
        BY <1>1, <1>3, <1>5, <2>1, <4>2, <4>4, OneAgentCalled
      <4> QED BY <1>4, <4>3, <4>4
    <3> QED BY <3>1, <3>2
  <2> QED BY <2>1 DEF AgentLast
<1>8. Resumable'
  <2>1. \A x \in carried' : x \in carried \/ x.cast = resumes
    BY <1>1
  <2> QED BY <1>1, <2>1, ResumableKept DEF ThreadInv
<1>9. Following'
  <2>1. Found /\ Aligned => Aligned'
    BY <1>1, <1>2, <1>3, <1>4, AlignedBegun
  <2>2. SameSessions => SameSessions'
    BY <1>1, <1>2, <1>3, <1>4, BegunSame
  <2>3. /\ ledger = None => ledger' = None
        /\ ledger = {} => ledger' = {}
    BY <1>1 DEF Left
  <2>4. ledger # None => ledger' # None
    <3>1. {} = EntriesOf({})
      BY DEF EntriesOf
    <3>2. None # {}
      BY <3>1 DEF Replayable, NoneApart
    <3> QED BY <1>1, <3>2 DEF Left
  <2> QED BY <1>1, <1>4, <2>1, <2>2, <2>3, <2>4, FollowingKept DEF ThreadInv
<1> QED BY <1>6, <1>7, <1>8, <1>9 DEF ThreadInv

(* What a call returns names the session it was recorded with, and none    *)
(* where it is of no agent.                                                *)
LEMMA RepliesThreads ==
    ASSUME EngineAssumption, Replayable, EngineInv, ReplayInv, ThreadInv, phase = "body",
           NEW b \in Branches, InCall(b), NEW reply \in Returnable(b)
    PROVE  /\ reply.session # None => Call(b) \in DOMAIN Thread
           /\ doing[b] = "replayed" =>
                 \E x \in recorded : x.rite = got[b].rite /\ x.session = reply.session
<1>1. CASE doing[b] = "live"
  BY <1>1 DEF Returnable, Reply
<1>2. CASE doing[b] = "replayed"
  <2>1. PICK x \in Take(got[b].rite, Medium[Call(b)]) : reply.session = x.session
    BY <1>2 DEF Returnable, Prior
  <2>2. x.of = Here(b)
    BY <1>2, <2>1, ReplayedAsRecorded DEF ReplayedOwn, Here, EngineInv
  <2>3. x \in ledger /\ x.rite = got[b].rite
    BY <2>1 DEF Take
  <2>4. x \in recorded
    BY <1>2, <2>3 DEF ReplayInv, Spent
  <2>5. PICK said : Legal(said) /\ RecordOf(said) /\ SessionsOf(said) /\ NamedByAgents(said)
    BY DEF ThreadInv, Resumable
  <2>6. PICK c \in said, f \in said : Returned(c, f) /\ x.rite = c.rite /\ x.session = f.session
    BY <2>4, <2>5 DEF SessionsOf
  <2>7. PICK d \in said, g \in said : Returned(d, g) /\ x.rite = d.rite /\ x.of = d.of
    BY <2>4, <2>5 DEF RecordOf
  <2>8. d = c
    BY <2>5, <2>6, <2>7 DEF Legal, Apart, Returned
  <2>9. ASSUME x.session # None PROVE Call(b) \in DOMAIN Thread
    <3>1. PICK a \in Opens(said) : a.rite = f.rite /\ OfAgent(a)
      BY <2>5, <2>6, <2>9 DEF NamedByAgents, Returned
    <3>2. a = c
      BY <2>5, <2>6, <3>1 DEF Legal, Apart, Returned, Opens
    <3>3. a.of = Here(b)
      BY <2>2, <2>7, <2>8, <3>2
    <3> QED BY <3>1, <3>3, CallIs
  <2> QED BY <2>1, <2>3, <2>4, <2>9
<1> QED BY <1>1, <1>2 DEF InCall

(* A call that is over leaves the others, and the session it says.         *)
LEMMA OverThreads ==
    ASSUME EngineAssumption, Replayable, EngineInv, ReplayInv, ThreadInv, phase = "body",
           NEW b \in Branches, InCall(b),
           NEW e, e.event = "ended", e.rite = got[b].rite, Emit(e),
           e.session # None => Call(b) \in DOMAIN Thread, Files(b, e.session),
           UNCHANGED <<payload, steps, counter, carried, resumes, recorded>>,
           ~InCall(b)',
           \A a \in Branches \ {b} : /\ doing'[a] = doing[a] /\ pos'[a] = pos[a]
                                     /\ got'[a].rite = got[a].rite
    PROVE  /\ SessionsFiled' /\ OfCasts' /\ CarriedIn(Events, resumes)'
           /\ NamedByAgents(Events)' /\ Numbered' /\ AgentLast' /\ Resumable'
           /\ Events' = Events \cup {e} /\ Opens(Events') = Opens(Events)
<1>1. Rites /\ RunInv
  BY DEF EngineInv, ReplayInv
<1>2. Events' = Events \cup {e} /\ Opens(Events') = Opens(Events)
  <2>1. Events' = Events \cup {e}
    BY <1>1, EventsOf
  <2> QED BY <2>1, OpensMore
<1>3. PICK c \in Opens(Events) : c.rite = got[b].rite /\ c.of = Here(b)
  BY <1>1 DEF RunInv, InBody, TaskSaid, InCall
<1>4. /\ SessionsFiled' /\ OfCasts' /\ CarriedIn(Events, resumes)'
      /\ NamedByAgents(Events)' /\ Numbered'
  <2>1. Legal(Events)
    BY <1>1 DEF RunInv
  <2>2. CASE e.session = None
    <3>1. sessions' = sessions
      BY <2>2 DEF Files
    <3> QED BY <1>1, <1>2, <2>1, <2>2, <3>1, EndedThreads DEF ThreadInv
  <2>3. CASE e.session # None
    <3>1. sessions' = [k \in DOMAIN sessions |->
             IF k \in {None, Thread[Call(b)]} THEN e.session ELSE sessions[k]]
      BY <2>3 DEF Files
    <3>2. Call(b) \in DOMAIN Thread
      BY <2>3
    <3> QED BY <1>1, <1>2, <1>3, <2>1, <2>3, <3>1, <3>2, EndedThreads DEF ThreadInv
  <2> QED BY <2>2, <2>3
<1>5. AgentLast'
  <2>1. ASSUME NEW a \in Branches, InCall(a)', Call(a)' \in DOMAIN Thread,
               NEW d \in Opens(Events'), OfAgent(d)
        PROVE  d.rite <= got'[a].rite
    <3>1. a # b
      BY <2>1
    <3>2. InCall(a) /\ Call(a)' = Call(a) /\ got'[a].rite = got[a].rite
      BY <2>1, <3>1 DEF InCall, Call
    <3> QED BY <1>2, <2>1, <3>2 DEF ThreadInv, AgentLast
  <2> QED BY <2>1 DEF AgentLast
<1>6. Resumable'
  BY ResumableKept DEF ThreadInv
<1> QED BY <1>2, <1>4, <1>5, <1>6

LEMMA ReturnsThreads ==
    ASSUME EngineAssumption, Replayable, EngineInv, ReplayInv, Spent', ThreadInv,
           NEW b \in Branches, Returns(b)
    PROVE  ThreadInv'
<1>1. /\ phase = "body" /\ InCall(b)
      /\ UNCHANGED <<phase, payload, steps, counter, carried, resumes, ledger, recorded>>
      /\ \/ pos' = [pos EXCEPT ![b] = @ + 1] /\ doing' = [doing EXCEPT ![b] = "ready"]
         \/ doing' = [doing EXCEPT ![b] = "done"] /\ UNCHANGED pos
  BY DEF Returns, walk, InCall
<1>2. PICK reply \in Returnable(b) :
        /\ Emit(Ended(got[b].rite, "ok", reply.result, reply.session))
        /\ Files(b, reply.session)
        /\ got' = [got EXCEPT ![b].result = reply.result]
  BY DEF Returns
<1> DEFINE f == Ended(got[b].rite, "ok", reply.result, reply.session)
<1>3. /\ f.event = "ended" /\ f.rite = got[b].rite /\ f.session = reply.session /\ Emit(f)
  BY <1>2 DEF Ended
<1> HIDE DEF f
<1>4. Rites /\ RunInv /\ DOMAIN doing = Branches /\ pos \in [Branches -> Nat]
      /\ got = [a \in Branches |-> [result |-> got[a].result, rite |-> got[a].rite]]
  BY DEF EngineInv, ReplayInv, RunInv, Rites, EngineTypes
<1>5. /\ reply.session # None => Call(b) \in DOMAIN Thread
      /\ doing[b] = "replayed" =>
            \E x \in recorded : x.rite = got[b].rite /\ x.session = reply.session
  BY <1>1, RepliesThreads
<1>6. doing'[b] \in {"ready", "done"}
  BY <1>1, <1>4
<1>7. \A a \in Branches \ {b} : doing'[a] = doing[a] /\ pos'[a] = pos[a] /\ got'[a] = got[a]
  BY <1>1, <1>2, <1>4
<1>8. /\ SessionsFiled' /\ OfCasts' /\ CarriedIn(Events, resumes)'
      /\ NamedByAgents(Events)' /\ Numbered' /\ AgentLast' /\ Resumable'
      /\ Events' = Events \cup {f} /\ Opens(Events') = Opens(Events)
  <2>1. ~InCall(b)'
    BY <1>6 DEF InCall
  <2>2. Files(b, f.session) /\ (f.session # None => Call(b) \in DOMAIN Thread)
    BY <1>2, <1>3, <1>5
  <2>3. \A a \in Branches \ {b} : got'[a].rite = got[a].rite
    BY <1>7
  <2> QED BY <1>1, <1>3, <1>7, <2>1, <2>2, <2>3, OverThreads
<1>9. Following'
  <2>1. Found /\ Aligned => Aligned'
    BY <1>1, <1>4, <1>8, AlignedEnded
  <2>2. Found /\ SameSessions => SameSessions'
    <3> SUFFICES ASSUME Found, SameSessions, NEW c \in Events', NEW g \in Events', Returned(c, g)
                 PROVE  \E x \in recorded : x.rite = c.rite /\ x.session = g.session
      BY <1>1 DEF SameSessions
    <3>1. c \in Events
      BY <1>3, <1>8 DEF Returned
    <3>2. CASE g \in Events
      BY <3>1, <3>2 DEF SameSessions
    <3>3. CASE g = f
      <4>1. doing[b] = "replayed"
        BY <1>1 DEF Found, InCall
      <4>2. c.rite = got[b].rite /\ g.session = reply.session
        BY <1>3, <3>3 DEF Returned
      <4> QED BY <1>5, <4>1, <4>2
    <3> QED BY <1>8, <3>2, <3>3
  <2> QED BY <1>1, <1>8, <2>1, <2>2, FollowingKept DEF ThreadInv
<1> QED BY <1>8, <1>9 DEF ThreadInv

LEMMA FailsThreads ==
    ASSUME EngineAssumption, Replayable, EngineInv, ReplayInv, Spent', ThreadInv,
           NEW b \in Branches, Fails(b)
    PROVE  ThreadInv'
<1>1. /\ phase = "body" /\ doing[b] = "live" /\ InCall(b)
      /\ UNCHANGED <<phase, payload, steps, counter, carried, resumes, ledger, recorded, pos, got>>
      /\ doing' \in {[doing EXCEPT ![b] = "cut"], [doing EXCEPT ![b] = "failed"]}
  BY DEF Fails, walk, InCall
<1>2. PICK f : /\ f.event = "ended" /\ f.rite = got[b].rite /\ Emit(f)
               /\ Files(b, f.session) /\ (f.session # None => Call(b) \in DOMAIN Thread)
  <2>1. ASSUME NEW status, Emit(Ended(got[b].rite, status, None, None)), UNCHANGED sessions
        PROVE  \E f : /\ f.event = "ended" /\ f.rite = got[b].rite /\ Emit(f)
                      /\ Files(b, f.session) /\ (f.session # None => Call(b) \in DOMAIN Thread)
    BY <2>1 DEF Ended, Files
  <2>2. ASSUME NEW reply, Emit(Ended(got[b].rite, "error", reply.result, reply.session)),
               Files(b, reply.session), Call(b) \in DOMAIN Thread
        PROVE  \E f : /\ f.event = "ended" /\ f.rite = got[b].rite /\ Emit(f)
                      /\ Files(b, f.session) /\ (f.session # None => Call(b) \in DOMAIN Thread)
    BY <2>2 DEF Ended
  <2> QED BY <2>1, <2>2 DEF Fails
<1>3. Rites /\ RunInv /\ DOMAIN doing = Branches
  BY DEF EngineInv, ReplayInv, RunInv, Rites, EngineTypes
<1>4. /\ SessionsFiled' /\ OfCasts' /\ CarriedIn(Events, resumes)'
      /\ NamedByAgents(Events)' /\ Numbered' /\ AgentLast' /\ Resumable'
      /\ Events' = Events \cup {f} /\ Opens(Events') = Opens(Events)
  <2>1. ~InCall(b)'
    BY <1>1, <1>3 DEF InCall
  <2>2. \A a \in Branches \ {b} :
            doing'[a] = doing[a] /\ pos'[a] = pos[a] /\ got'[a].rite = got[a].rite
    BY <1>1, <1>3
  <2> QED BY <1>1, <1>2, <2>1, <2>2, OverThreads
<1>5. Following'
  <2>1. ~Found
    BY <1>1 DEF Found
  <2> QED BY <1>1, <1>4, <2>1, FollowingKept DEF ThreadInv
<1> QED BY <1>4, <1>5 DEF ThreadInv

LEMMA LeavesThreads ==
    ASSUME EngineAssumption, Replayable, EngineInv, ReplayInv, Spent', ThreadInv, Leaves
    PROVE  ThreadInv'
<1>1. /\ phase = "body"
      /\ UNCHANGED <<steps, counter, pos, got, ledger, recorded, resumes, sessions, carried>>
      /\ doing' = Idle
  BY DEF Leaves, memory, book
<1>2. PICK f : f.event = "ended" /\ f.session = None /\ Emit(f)
  BY DEF Leaves, Ended
<1>3. Rites /\ RunInv /\ Legal(Events)
  BY DEF EngineInv, ReplayInv, RunInv
<1>4. Events' = Events \cup {f} /\ Opens(Events') = Opens(Events)
  <2>1. Events' = Events \cup {f}
    BY <1>2, <1>3, EventsOf
  <2> QED BY <1>2, <2>1, OpensMore
<1>5. /\ SessionsFiled' /\ OfCasts' /\ CarriedIn(Events, resumes)'
      /\ NamedByAgents(Events)' /\ Numbered'
  BY <1>1, <1>2, <1>3, <1>4, EndedThreads DEF ThreadInv
<1>6. AgentLast'
  <2>1. \A b \in Branches : ~InCall(b)'
    BY <1>1 DEF InCall, Idle
  <2> QED BY <2>1 DEF AgentLast
<1>7. Resumable'
  BY <1>1, ResumableKept DEF ThreadInv
<1>8. Following'
  <2>1. Found /\ Aligned => Aligned'
    BY <1>1, <1>3, <1>4, AlignedEnded
  <2>2. SameSessions => SameSessions'
    <3>1. \A c \in Events', g \in Events' : Returned(c, g) => c \in Events /\ g \in Events
      BY <1>3, LeavesSays
    <3> QED BY <1>1, <3>1 DEF SameSessions
  <2> QED BY <1>1, <1>4, <2>1, <2>2, FollowingKept DEF ThreadInv
<1> QED BY <1>5, <1>6, <1>7, <1>8 DEF ThreadInv

(* Nothing of a session is in what the daemon, the disk or a cut does.     *)
LEMMA ThreadsAlike ==
    ASSUME ReplayInv, Spent', ThreadInv,
           UNCHANGED <<payload, steps, counter, grimoire, doing, pos, got,
                       ledger, recorded, resumes, sessions, carried>>,
           phase' = phase \/ phase' \notin {"between", "body"}
    PROVE  ThreadInv'
<1>1. Events' = Events
  BY DEF Events
<1>2. /\ SessionsFiled' /\ OfCasts' /\ CarriedIn(Events, resumes)'
      /\ NamedByAgents(Events)' /\ Numbered'
  BY <1>1 DEF ThreadInv, SessionsFiled, OfCasts, CarriedIn, NamedByAgents, Numbered, NoSessions
<1>3. AgentLast'
  <2>1. \A b : (InCall(b)' <=> InCall(b)) /\ Call(b)' = Call(b)
    BY DEF InCall, Call
  <2> QED BY <1>1, <2>1 DEF ThreadInv, AgentLast
<1>4. Resumable'
  BY ResumableKept DEF ThreadInv
<1>5. Following'
  <2>1. Aligned /\ phase' = phase => Aligned'
    <3> SUFFICES ASSUME Aligned, phase' = phase,
                        NEW said, Legal(said), RecordOf(said)',
                        NEW c \in Opens(Events'), NEW d \in Opens(said),
                        c.rite < counter' \/ phase' # "body"
                 PROVE  c.rite = d.rite <=> c.of = d.of
      BY DEF Aligned
    <3>1. RecordOf(said)
      BY DEF RecordOf
    <3> QED BY <1>1, <3>1 DEF Aligned
  <2>2. SameSessions => SameSessions'
    BY <1>1 DEF SameSessions
  <2> QED BY <1>1, <2>1, <2>2, FollowingKept DEF ThreadInv
<1> QED BY <1>2, <1>3, <1>4, <1>5 DEF ThreadInv

LEMMA ThreadsNone ==
    ASSUME Events = {}, counter = 0, sessions = NoSessions, doing = Idle
    PROVE  /\ SessionsFiled /\ AgentLast /\ NamedByAgents(Events) /\ Numbered
           /\ Opens(Events) = {}
<1>1. \A n, key : Filing(Events, n, key) = {}
  BY DEF Filing
<1>2. SessionsFiled
  BY <1>1 DEF SessionsFiled, FiledLast, LastOf, NoSessions
<1> QED BY <1>2 DEF AgentLast, InCall, Idle, NamedByAgents, Numbered, Opens

(* The cast resumed is the run recorded.                                   *)
LEMMA ResumesThreads ==
    ASSUME EngineAssumption, Replayable, EngineInv, ReplayInv, ReplayInv', ThreadInv, Resumes
    PROVE  ThreadInv'
<1>1. /\ resumes' = resumes + 1 /\ ledger' = Entries /\ recorded' = Entries
      /\ phase' = "between" /\ counter' = 0 /\ grimoire' = <<>> /\ doing' = Idle
      /\ sessions' = NoSessions /\ carried' = carried
  BY DEF Resumes
<1>2. Events' = {}
  BY <1>1 DEF Events
<1>3. /\ SessionsFiled' /\ AgentLast' /\ NamedByAgents(Events)' /\ Numbered'
      /\ Opens(Events') = {}
  <2>1. \A n, key : Filing({}, n, key) = {}
    BY DEF Filing
  <2>2. SessionsFiled'
    BY <1>1, <1>2, <2>1 DEF SessionsFiled, FiledLast, LastOf, NoSessions
  <2> QED BY <1>1, <1>2, <2>2 DEF AgentLast, InCall, Idle, NamedByAgents, Numbered, Opens
<1>4. resumes \in Nat /\ \A x \in carried : x.cast \in 0..resumes
  BY DEF ThreadInv, OfCasts
<1>5. OfCasts' /\ CarriedIn(Events, resumes)'
  <2>1. \A x \in carried' : x.cast # resumes'
    BY <1>1, <1>4
  <2> QED BY <1>1, <1>4, <2>1 DEF OfCasts, CarriedIn
<1>6. PICK ran : ran = Events
  OBVIOUS
<1>7. log \ {Hello} \subseteq ran
  <2>1. PICK n \in 0..Len(grimoire) : log \ {Hello} = {grimoire[i] : i \in 1..n}
    BY DEF EngineInv, LogIsPrefix
  <2>2. Len(grimoire) \in Nat /\ DOMAIN grimoire = 1..Len(grimoire)
    BY OwnRange DEF EngineInv, Rites, EngineTypes
  <2>3. \A i \in 1..n : i \in DOMAIN grimoire
    BY <2>2
  <2> QED BY <1>6, <2>1, <2>3 DEF Events
<1>8. ASSUME NEW x \in Entries
      PROVE  \E c, f \in ran :
                /\ Returned(c, f) /\ x.rite = c.rite /\ x.of = c.of /\ x.name = c.name
                /\ x.result = f.result /\ x.session = f.session
  <2>1. PICK c \in log, f \in log :
          /\ Returned(c, f) /\ x.rite = c.rite /\ x.of = c.of /\ x.name = c.name
          /\ x.result = f.result /\ x.session = f.session
    <3>1. PICK p \in log \X log :
            /\ p[1].event = "began" /\ p[2].event = "ended" /\ p[1].rite = p[2].rite
            /\ p[1].of[3] # 0 /\ p[2].status = "ok"
            /\ x = [rite |-> p[1].rite, name |-> p[1].name, of |-> p[1].of,
                    result |-> p[2].result, session |-> p[2].session]
      BY DEF Entries
    <3>2. /\ x.rite = p[1].rite /\ x.name = p[1].name /\ x.of = p[1].of
          /\ x.result = p[2].result /\ x.session = p[2].session
      BY <3>1
    <3>3. Returned(p[1], p[2])
      BY <3>1 DEF Returned
    <3> QED BY <3>2, <3>3
  <2>2. c # Hello /\ f # Hello
    BY <2>1 DEF Hello, Returned
  <2> QED BY <1>7, <2>1, <2>2
<1>9. Resumable'
  <2>1. Legal(ran) /\ NamedByAgents(ran)
    BY <1>6 DEF ReplayInv, RunInv, ThreadInv
  <2>2. RecordOf(ran)' /\ SessionsOf(ran)'
    BY <1>1, <1>8 DEF RecordOf, SessionsOf
  <2>3. CarriedIn(ran, resumes - 1)'
    <3>1. resumes' - 1 = resumes
      BY <1>1, <1>4
    <3> QED BY <1>1, <1>6, <3>1 DEF ThreadInv, CarriedIn
  <2> QED BY <2>1, <2>2, <2>3 DEF Resumable
<1>10. Following'
  <2>1. ledger' # None
    <3>1. Entries = EntriesOf(log)
      BY DEF Entries, EntriesOf
    <3> QED BY <1>1, <3>1 DEF Replayable, NoneApart
  <2>2. Aligned' /\ SameSessions'
    BY <1>2, <1>3 DEF Aligned, SameSessions
  <2>3. Found'
    BY <1>1, <1>2, <1>3 DEF Found, Resumes, Idle
  <2> QED BY <1>1, <2>1, <2>2, <2>3 DEF Following
<1> QED BY <1>3, <1>5, <1>9, <1>10 DEF ThreadInv

LEMMA ThreadInit ==
    ASSUME Init
    PROVE  ThreadInv
<1>1. Events = {}
  BY DEF Init, Events
<1>2. /\ counter = 0 /\ sessions = NoSessions /\ doing = Idle /\ carried = {}
      /\ resumes = 0 /\ recorded = {} /\ ledger = None
  BY DEF Init
<1>3. OfCasts /\ CarriedIn(Events, resumes) /\ Following
  BY <1>2 DEF OfCasts, CarriedIn, Following
<1>4. Resumable
  <2>1. /\ Legal({}) /\ RecordOf({}) /\ SessionsOf({}) /\ NamedByAgents({})
        /\ CarriedIn({}, resumes - 1)
    BY <1>2, NothingLegal DEF RecordOf, SessionsOf, NamedByAgents, CarriedIn
  <2> QED BY <2>1 DEF Resumable
<1> QED BY <1>1, <1>2, <1>3, <1>4, ThreadsNone DEF ThreadInv

LEMMA ThreadStep ==
    ASSUME EngineAssumption, Replayable, OneAgent, EngineInv, ReplayInv, ReplayInv', ThreadInv,
           [Next]_vars
    PROVE  ThreadInv'
<1>1. Spent'
  BY DEF ReplayInv
<1>2. CASE Enters
  BY <1>1, <1>2, EntersThreads
<1>3. ASSUME NEW b \in Branches, Calls(b) \/ Returns(b) \/ Fails(b) PROVE ThreadInv'
  BY <1>1, <1>3, CallsThreads, ReturnsThreads, FailsThreads
<1>4. CASE Leaves
  BY <1>1, <1>4, LeavesThreads
<1>5. CASE Attaches \/ Restarts \/ Drops \/ Cuts \/ Dies \/ Ends \/ Raises \/ UNCHANGED vars
  <2>1. UNCHANGED <<payload, steps, counter, grimoire, doing, pos, got,
                    ledger, recorded, resumes, sessions, carried>>
    BY <1>5 DEF Attaches, Restarts, Drops, Cuts, Dies, Ends, Raises, vars, walk, tasks,
                memory, book
  <2>2. phase' = phase \/ phase' \notin {"between", "body"}
    BY <1>5 DEF Attaches, Restarts, Drops, Cuts, Dies, Ends, Raises, Finishes, vars
  <2> QED BY <1>1, <2>1, <2>2, ThreadsAlike
<1>6. CASE Resumes
  BY <1>6, ResumesThreads
<1> QED BY <1>2, <1>3, <1>4, <1>5, <1>6 DEF Next, Work

(* Only a call is started by a step.                                       *)
LEMMA OnlyCallsStart ==
    ASSUME EngineInv, [Next]_vars, NEW b \in Branches, doing[b] = "ready", doing'[b] = "live"
    PROVE  Calls(b)
<1>0. DOMAIN doing = Branches
  BY DEF EngineInv, Rites, EngineTypes
<1>1. CASE Enters
  BY <1>1 DEF Enters
<1>2. ASSUME NEW a \in Branches, Calls(a) PROVE Calls(b)
  <2>1. a # b => doing'[b] = doing[b]
    BY <1>0, <1>2 DEF Calls
  <2> QED BY <1>2, <2>1
<1>3. ASSUME NEW a \in Branches, Returns(a) PROVE FALSE
  <2>1. doing'[b] \in {doing[b], "ready", "done"}
    BY <1>0, <1>3 DEF Returns
  <2> QED BY <2>1
<1>4. ASSUME NEW a \in Branches, Fails(a) PROVE FALSE
  <2>1. doing'[b] \in {doing[b], "cut", "failed"}
    BY <1>0, <1>4 DEF Fails
  <2> QED BY <2>1
<1>5. CASE Leaves \/ Resumes
  <2>1. doing' = Idle
    BY <1>5 DEF Leaves, Resumes
  <2> QED BY <2>1 DEF Idle
<1>6. CASE Attaches \/ Restarts \/ Drops \/ Cuts \/ Dies \/ Ends \/ Raises \/ UNCHANGED vars
  <2>1. UNCHANGED doing
    BY <1>6 DEF Attaches, Restarts, Drops, Cuts, Dies, Ends, Raises, vars, tasks
  <2> QED BY <2>1
<1> QED BY <1>1, <1>2, <1>3, <1>4, <1>5, <1>6 DEF Next, Work

(* A call that was cut short carries on, in the resume, the session it     *)
(* carried on in the cast resumed, as long as every call before it came    *)
(* back off the record: whatever of its thread was replayed, failed after  *)
(* it was filed or raced, and however often the cast is resumed            *)
(* (coding/_mills.py:225).                                                 *)
THEOREM ThreadKeptCorrect ==
    ASSUME Replayable, OneAgent
    PROVE  Spec => ThreadKept
<1> DEFINE Keeps ==
        \A b \in Branches :
            (/\ resumes > 0 /\ doing[b] = "ready" /\ doing'[b] = "live" /\ Call(b) \in Continues
             /\ ~\E id \in 1..counter : Missed(id))
            => \A c \in carried :
                   c.cast = resumes - 1 /\ c.of = <<payload, steps, b, pos[b]>>
                       => c.session = Resumed(Call(b))
<1>1. EngineInv /\ ReplayInv /\ ThreadInv /\ [Next]_vars
         => (EngineInv /\ ReplayInv /\ ThreadInv)'
  BY EngineStep, ReplayStep, ThreadStep, EngineAssumption
<1>2. Init => EngineInv /\ ReplayInv /\ ThreadInv
  BY InitEstablishes, ReplayInit, ThreadInit, EngineAssumption
<1>3. EngineInv /\ ReplayInv /\ ThreadInv /\ [Next]_vars => Keeps
  <2> SUFFICES ASSUME EngineInv, ReplayInv, ThreadInv, [Next]_vars,
                      NEW b \in Branches, resumes > 0, doing[b] = "ready", doing'[b] = "live",
                      Call(b) \in Continues, ~\E id \in 1..counter : Missed(id),
                      NEW c \in carried, c.cast = resumes - 1, c.of = Here(b)
               PROVE  c.session = Resumed(Call(b))
    BY DEF Here
  <2>1. Calls(b)
    BY OnlyCallsStart
  <2> QED BY <2>1, CarriedOn, EngineAssumption
<1>4. EngineInv /\ ReplayInv /\ ThreadInv /\ [Next]_vars => [Keeps]_vars
  BY <1>3
<1> QED BY <1>1, <1>2, <1>4, PTL DEF Spec, ThreadKept

-----------------------------------------------------------------------------
(* Types.                                                                  *)

BegunAt == {i \in DOMAIN grimoire : grimoire[i].event = "began"}

EngineKinds ==
    /\ phase \in {"between", "body", "raised", "done", "failed", "killed"}
    /\ payload \in Payload \cup {Done} /\ steps \in 0..MaxSteps
    /\ visits \in [DOMAIN MaxVisits -> Nat]
    /\ \A s \in DOMAIN MaxVisits : visits[s] \in 0..MaxVisits[s]
    /\ turn \in Branches \cup {None} /\ outer \in {None, "timeout", "cancel"}
    /\ \A b \in Branches : got[b].rite \in 0..counter
    /\ Cardinality(BegunAt) = counter

LEMMA KindsAreTypes ==
    ASSUME EngineInv, ReplayInv, EngineKinds
    PROVE  TypeOK
  BY DEF EngineInv, Rites, EngineTypes, ReplayInv, RunInv, EngineKinds, BegunAt, TypeOK

(* One more event is one more rite, if it begins one.                      *)
LEMMA OneMoreBegun ==
    ASSUME Rites, Cardinality(BegunAt) = counter, NEW e, Emit(e)
    PROVE  Cardinality(BegunAt') = IF e.event = "began" THEN counter + 1 ELSE counter
<1>1. /\ Len(grimoire) \in Nat /\ DOMAIN grimoire = 1..Len(grimoire)
      /\ DOMAIN grimoire' = 1..Len(grimoire) + 1
      /\ \A i \in 1..Len(grimoire) : grimoire'[i] = grimoire[i]
      /\ grimoire'[Len(grimoire) + 1] = e
  BY OneMore DEF Rites, EngineTypes, Emit
<1>2. IsFiniteSet(BegunAt)
  <2>1. IsFiniteSet(1..Len(grimoire))
    BY <1>1, FS_Interval
  <2> QED BY <1>1, <2>1, FS_Subset DEF BegunAt
<1>3. CASE e.event = "began"
  <2>1. BegunAt' = BegunAt \cup {Len(grimoire) + 1} /\ Len(grimoire) + 1 \notin BegunAt
    BY <1>1, <1>3 DEF BegunAt
  <2> QED BY <1>2, <1>3, <2>1, FS_AddElement
<1>4. CASE e.event # "began"
  <2>1. BegunAt' = BegunAt
    BY <1>1, <1>4 DEF BegunAt
  <2> QED BY <1>4, <2>1
<1> QED BY <1>3, <1>4

LEMMA KindsStep ==
    ASSUME EngineAssumption, VisitsAssumption, EngineInv, ReplayInv, ReplayInv', EngineKinds, [Next]_vars
    PROVE  EngineKinds'
<1>1. Rites /\ counter \in Nat /\ DOMAIN got = Branches
  BY DEF EngineInv, Rites, EngineTypes
<1> DEFINE Quiet == UNCHANGED <<visits, counter, got, grimoire>>
<1>2. /\ phase' \in {"between", "body", "raised", "done", "failed", "killed"}
      /\ \/ phase' \in {"between", "body"}
         \/ UNCHANGED <<payload, steps>> /\ turn' \in {turn, None} /\ outer' \in {outer, None}
  <2>1. CASE Work
    BY <2>1 DEF Work, Enters, Ends, Leaves, Raises, Calls, Returns, Fails, Finishes,
      walk, tasks, ReplayInv, RunInv
  <2>2. CASE Attaches \/ Restarts \/ Drops \/ Cuts \/ Dies \/ Resumes \/ UNCHANGED vars
    BY <2>2 DEF Attaches, Restarts, Drops, Cuts, Dies, Resumes, vars, walk, tasks, EngineKinds
  <2> QED BY <2>1, <2>2 DEF Next
<1>3. (/\ payload \in Payload \cup {Done} /\ steps \in 0..MaxSteps
       /\ turn \in Branches \cup {None} /\ outer \in {None, "timeout", "cancel"})'
  <2>1. CASE phase' = "body"
    <3>1. (/\ payload \in Payload /\ steps \in 1..MaxSteps /\ (turn # None => turn \in Mine)
           /\ outer \in {None, "timeout", "cancel"})'
      BY <2>1 DEF ReplayInv, RunInv, InBody
    <3>2. Mine' \subseteq Branches
      BY <3>1 DEF Mine, Branches
    <3> QED BY <3>1, <3>2 DEF EngineAssumption
  <2>2. CASE phase' = "between"
    BY <2>2 DEF ReplayInv, RunInv, InBetween
  <2>3. CASE phase' \notin {"between", "body"}
    BY <1>2, <2>3 DEF EngineKinds
  <2> QED BY <2>1, <2>2, <2>3
<1>4. ASSUME Quiet
      PROVE  /\ (\A b \in Branches : got[b].rite \in 0..counter)'
             /\ Cardinality(BegunAt') = counter'
             /\ (visits \in [DOMAIN MaxVisits -> Nat])'
             /\ (\A s \in DOMAIN MaxVisits : visits[s] \in 0..MaxVisits[s])'
  BY <1>4 DEF EngineKinds, BegunAt
<1> DEFINE Rest == /\ (\A b \in Branches : got[b].rite \in 0..counter)'
                   /\ Cardinality(BegunAt') = counter'
                   /\ (visits \in [DOMAIN MaxVisits -> Nat])'
                   /\ (\A s \in DOMAIN MaxVisits : visits[s] \in 0..MaxVisits[s])'
<1>5. Rest
  <2>1. CASE Enters
    <3>1. PICK e : e.event = "began" /\ Emit(e)
      BY <2>1 DEF Enters, Began
    <3>2. /\ counter' = counter + 1 /\ \A b \in Branches : got'[b].rite = 0
      BY <2>1 DEF Enters, Nothing
    <3>3. PICK s \in DOMAIN MaxVisits :
            visits[s] < MaxVisits[s] /\ visits' = [visits EXCEPT ![s] = @ + 1]
      <4>1. payload \in Payload
        BY <2>1 DEF Enters, EngineKinds
      <4> QED BY <2>1, <4>1 DEF Enters, EngineAssumption
    <3>4. (visits \in [DOMAIN MaxVisits -> Nat])'
      BY <3>3 DEF EngineKinds
    <3>5. (\A t \in DOMAIN MaxVisits : visits[t] \in 0..MaxVisits[t])'
      BY <3>3 DEF EngineKinds, VisitsAssumption
    <3>6. Cardinality(BegunAt') = counter'
      BY <1>1, <3>1, <3>2, OneMoreBegun DEF EngineKinds
    <3> QED BY <1>1, <3>2, <3>4, <3>5, <3>6
  <2>2. ASSUME NEW b \in Branches, Calls(b) PROVE Rest
    <3>1. PICK e : e.event = "began" /\ Emit(e)
      BY <2>2 DEF Calls, Began
    <3>2. /\ counter' = counter + 1 /\ visits' = visits
          /\ got' = [got EXCEPT ![b] = [result |-> None, rite |-> counter']]
      BY <2>2 DEF Calls, walk
    <3>3. Cardinality(BegunAt') = counter'
      BY <1>1, <3>1, <3>2, OneMoreBegun DEF EngineKinds
    <3>4. ASSUME NEW a \in Branches PROVE got'[a].rite \in 0..counter'
      <4>1. CASE a = b
        <5>1. got'[a] = [result |-> None, rite |-> counter']
          BY <1>1, <3>2, <4>1
        <5> QED BY <1>1, <3>2, <5>1
      <4>2. CASE a # b
        <5>1. got'[a] = got[a] /\ got[a].rite \in 0..counter
          BY <1>1, <3>2, <4>2 DEF EngineKinds
        <5> QED BY <1>1, <3>2, <5>1
      <4> QED BY <4>1, <4>2
    <3> QED BY <3>2, <3>3, <3>4 DEF EngineKinds
  <2>3. ASSUME NEW e, e.event = "ended", Emit(e), UNCHANGED <<counter, visits>>,
               \A b \in Branches : got'[b].rite = got[b].rite
        PROVE  Rest
    <3>1. Cardinality(BegunAt') = counter'
      BY <1>1, <2>3, OneMoreBegun DEF EngineKinds
    <3> QED BY <2>3, <3>1 DEF EngineKinds
  <2>4. ASSUME NEW b \in Branches, Returns(b) PROVE Rest
    <3>1. PICK e, r : e.event = "ended" /\ Emit(e) /\ got' = [got EXCEPT ![b].result = r]
      BY <2>4 DEF Returns, Ended
    <3>2. \A a \in Branches : got'[a].rite = got[a].rite
      <4>1. \A a \in Branches : got[a] = [result |-> got[a].result, rite |-> got[a].rite]
        BY DEF EngineInv, Rites, EngineTypes
      <4> QED BY <1>1, <3>1, <4>1
    <3>3. UNCHANGED <<counter, visits>>
      BY <2>4 DEF Returns, walk
    <3> QED BY <2>3, <3>1, <3>2, <3>3
  <2>5. ASSUME NEW b \in Branches, Fails(b) PROVE Rest
    <3>1. PICK e : e.event = "ended" /\ Emit(e)
      BY <2>5 DEF Fails, Ended
    <3>2. UNCHANGED <<counter, visits, got>>
      BY <2>5 DEF Fails, walk
    <3> QED BY <2>3, <3>1, <3>2
  <2>6. CASE Leaves
    <3>1. PICK e : e.event = "ended" /\ Emit(e)
      BY <2>6 DEF Leaves, Ended
    <3>2. UNCHANGED <<counter, visits, got>>
      BY <2>6 DEF Leaves
    <3> QED BY <2>3, <3>1, <3>2
  <2>7. CASE Ends \/ Raises \/ Attaches \/ Restarts \/ Drops \/ Cuts \/ Dies \/ UNCHANGED vars
    <3>1. Quiet
      BY <2>7 DEF Ends, Raises, Attaches, Restarts, Drops, Cuts, Dies, vars, walk, tasks
    <3> QED BY <1>4, <3>1
  <2>8. CASE Resumes
    <3>1. /\ counter' = 0 /\ grimoire' = <<>> /\ visits' = [s \in DOMAIN MaxVisits |-> 0]
          /\ \A b \in Branches : got'[b].rite = 0
      BY <2>8 DEF Resumes, Nothing
    <3>2. BegunAt' = {}
      BY <3>1 DEF BegunAt
    <3>3. Cardinality(BegunAt') = counter'
      BY <3>1, <3>2, FS_EmptySet
    <3> QED BY <3>1, <3>3 DEF VisitsAssumption
  <2> HIDE DEF Rest
  <2> QED BY <2>1, <2>2, <2>4, <2>5, <2>6, <2>7, <2>8 DEF Next, Work
<1> QED BY <1>2, <1>3, <1>5 DEF EngineKinds

LEMMA KindsInit ==
    ASSUME EngineAssumption, VisitsAssumption, Init
    PROVE  EngineKinds
<1>1. grimoire = <<>> /\ counter = 0
  BY DEF Init
<1>2. BegunAt = {}
  BY <1>1 DEF BegunAt
<1>3. Cardinality(BegunAt) = counter
  BY <1>1, <1>2, FS_EmptySet
<1> QED BY <1>3 DEF Init, EngineKinds, EngineAssumption, VisitsAssumption, Nothing

(* The trampoline keeps its budgets, numbers its rites from one up, and    *)
(* leaves no task behind between two steps (engine.py).                    *)
THEOREM TypeCorrect ==
    ASSUME Replayable
    PROVE  Spec => []TypeOK
<1> DEFINE I == EngineInv /\ ReplayInv /\ EngineKinds
<1>1. I /\ [Next]_vars => I'
  BY EngineStep, ReplayStep, KindsStep, EngineAssumption, VisitsAssumption
<1>2. Init => I
  BY InitEstablishes, ReplayInit, KindsInit, EngineAssumption, VisitsAssumption
<1>3. I => TypeOK
  BY KindsAreTypes
<1> HIDE DEF I
<1> QED BY <1>1, <1>2, <1>3, PTL DEF Spec
=============================================================================
