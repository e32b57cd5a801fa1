--------------------------- MODULE TerminalProofs ---------------------------
(***************************************************************************)
(* Proofs about Terminal, for any number of prompts, of casts followed and *)
(* of askings, and whatever rites are written beside the questions.        *)
(***************************************************************************)
EXTENDS Terminal, SequenceTheorems, FiniteSetTheorems, WellFoundedInduction, TLAPS

Task == [n : Nat \ {0}, prompt : Prompt, on : BOOLEAN, tries : Nat, cut : BOOLEAN]

Tasks == DOMAIN line
Waits(p) == \E i \in Tasks : line[i].prompt = p /\ ~line[i].cut

QuestionTypes ==
    /\ line \in Seq(Task)
    /\ asking \in [Prompt -> Nat] /\ asks \in Nat
    /\ stage \in [Prompt -> {"unasked", "open", "settled", "over"}]

(* Askings are numbered as they begin, and the one that is known of a      *)
(* prompt is of that prompt.                                               *)
AskingsApart ==
    /\ \A i \in Tasks : line[i].n <= asks
    /\ \A p \in Prompt : asking[p] <= asks
    /\ \A i, j \in Tasks : line[i].n = line[j].n => i = j
    /\ \A i \in Tasks, p \in Prompt : line[i].n = asking[p] => line[i].prompt = p

(* A prompt of the cast itself has no asking but the one known; that of a  *)
(* prompt it follows is still in line.                                     *)
AskingsKnown ==
    /\ \A i \in Tasks : line[i].prompt \in OwnPrompt /\ ~line[i].cut
           => line[i].n = asking[line[i].prompt]
    /\ \A p \in FollowedPrompt : asking[p] # 0
           => \E i \in Tasks : line[i].n = asking[p] /\ ~line[i].cut

(* What is claimed has no asking, of the prompts of the cast itself.       *)
OwnQuiet ==
    \A p \in OwnPrompt :
        /\ p \in claimed => asking[p] = 0 /\ stage[p] # "unasked"
        /\ stage[p] \in {"unasked", "over"} => asking[p] = 0

Asking ==
    /\ \A p \in OwnPrompt : stage[p] = "open" => p \in claimed \/ Waits(p)
    /\ \A p \in FollowedPrompt : stage[p] = "open" => p \in claimed \cup spent \/ Waits(p)

(* The inductive invariant of AskedUnlessClaimed.                          *)
LineInv == QuestionTypes /\ AskingsApart /\ AskingsKnown
AskedInv == LineInv /\ OwnQuiet /\ Asking

(* That of AnsweredAsHeard.                                                *)
AnsweredInv == line \in Seq(Task) /\ AnsweredAsHeard

-----------------------------------------------------------------------------
(* The line.                                                               *)

LEMMA LineIsSeq ==
    ASSUME line \in Seq(Task)
    PROVE  /\ Len(line) \in Nat /\ Tasks = 1..Len(line)
           /\ \A i \in Tasks : line[i] \in Task
<1> QED BY LenProperties DEF Tasks

(* A task that is appended leaves the others where they were.              *)
LEMMA LineAppended ==
    ASSUME line \in Seq(Task), NEW t \in Task, line' = Append(line, t)
    PROVE  /\ line' \in Seq(Task)
           /\ Tasks' = Tasks \cup {Len(line) + 1} /\ Len(line) + 1 \notin Tasks
           /\ \A i \in Tasks : line'[i] = line[i]
           /\ line'[Len(line) + 1] = t
<1>1. /\ Append(line, t) \in Seq(Task)
      /\ Len(Append(line, t)) = Len(line) + 1
      /\ \A i \in 1..Len(line) : Append(line, t)[i] = line[i]
      /\ Append(line, t)[Len(line) + 1] = t
  BY AppendProperties
<1>2. Len(line) \in Nat /\ Tasks = 1..Len(line) BY LineIsSeq
<1>3. Tasks' = 1..(Len(line) + 1) BY <1>1, LenProperties DEF Tasks
<1> QED BY <1>1, <1>2, <1>3

(* A task that is removed leaves the others, in their order.               *)
LEMMA LineRemoved ==
    ASSUME line \in Seq(Task), NEW i \in Tasks, line' = RemoveAt(line, i)
    PROVE  /\ line' \in Seq(Task)
           /\ Tasks' = 1..(Len(line) - 1)
           /\ \A j \in Tasks' : line'[j] = (IF j < i THEN line[j] ELSE line[j + 1])
           /\ \A j \in Tasks' : \E k \in Tasks : k # i /\ line'[j] = line[k]
           /\ \A k \in Tasks : k # i => \E j \in Tasks' : line'[j] = line[k]
<1>1. Len(line) \in Nat /\ Tasks = 1..Len(line) BY LineIsSeq
<1>2. i \in 1..Len(line) BY <1>1
<1> DEFINE before == SubSeq(line, 1, i - 1)
           after == SubSeq(line, i + 1, Len(line))
<1>3. /\ before \in Seq(Task) /\ Len(before) = i - 1
      /\ \A j \in 1..i - 1 : before[j] = line[j]
  BY <1>1, <1>2, SubSeqProperties
<1>4. /\ after \in Seq(Task) /\ Len(after) = Len(line) - i
      /\ \A j \in 1..Len(line) - i : after[j] = line[j + i]
  <2>1. \A j \in i + 1..Len(line) : line[j] \in Task BY <1>1, <1>2, LineIsSeq
  <2>2. /\ after \in Seq(Task)
        /\ Len(after) = IF i + 1 <= Len(line) THEN Len(line) - (i + 1) + 1 ELSE 0
        /\ \A j \in 1..Len(line) - (i + 1) + 1 : after[j] = line[i + 1 + j - 1]
    <3> DEFINE m == i + 1
    <3>1. m \in Int /\ Len(line) \in Int BY <1>1, <1>2
    <3>2. \A j \in m..Len(line) : line[j] \in Task BY <2>1
    <3> HIDE DEF m
    <3>3. /\ SubSeq(line, m, Len(line)) \in Seq(Task)
          /\ Len(SubSeq(line, m, Len(line))) = IF m <= Len(line) THEN Len(line) - m + 1 ELSE 0
          /\ \A j \in 1..Len(line) - m + 1 : SubSeq(line, m, Len(line))[j] = line[m + j - 1]
      BY <3>1, <3>2, SubSeqProperties
    <3> QED BY <3>3 DEF m
  <2> HIDE DEF after
  <2>3. Len(after) = Len(line) - i BY <1>1, <1>2, <2>2
  <2>4. ASSUME NEW j \in 1..Len(line) - i PROVE after[j] = line[j + i]
    <3>1. j \in 1..Len(line) - (i + 1) + 1 /\ i + 1 + j - 1 = j + i BY <1>1, <1>2
    <3>2. after[j] = line[i + 1 + j - 1] BY <3>1, <2>2
    <3> QED BY <3>1, <3>2
  <2> QED BY <2>2, <2>3, <2>4
<1>5. /\ before \o after \in Seq(Task)
      /\ Len(before \o after) = Len(line) - 1
      /\ \A j \in 1..Len(line) - 1 :
             (before \o after)[j] = (IF j < i THEN line[j] ELSE line[j + 1])
  <2> HIDE DEF before, after
  <2>1. /\ before \o after \in Seq(Task)
        /\ Len(before \o after) = Len(before) + Len(after)
        /\ \A j \in 1..Len(before) + Len(after) : (before \o after)[j] =
               IF j <= Len(before) THEN before[j] ELSE after[j - Len(before)]
    BY <1>3, <1>4, ConcatProperties
  <2>2. Len(before) + Len(after) = Len(line) - 1 BY <1>1, <1>2, <1>3, <1>4
  <2>3. ASSUME NEW j \in 1..Len(line) - 1
        PROVE  (before \o after)[j] = (IF j < i THEN line[j] ELSE line[j + 1])
    <3>1. CASE j < i
      <4>1. j \in 1..i - 1 /\ j <= i - 1 BY <3>1, <1>1, <1>2
      <4> QED BY <4>1, <3>1, <2>1, <2>2, <1>3
    <3>2. CASE ~(j < i)
      <4>1. j - (i - 1) \in 1..Len(line) - i /\ ~(j <= i - 1) /\ j - (i - 1) + i = j + 1
        BY <3>2, <1>1, <1>2
      <4> QED BY <4>1, <3>2, <2>1, <2>2, <1>3, <1>4
    <3> QED BY <3>1, <3>2
  <2> QED BY <2>1, <2>2, <2>3
<1>6. line' = before \o after BY DEF RemoveAt
<1>7. Tasks' = 1..(Len(line) - 1) BY <1>5, <1>6, LenProperties DEF Tasks
<1>8. \A j \in Tasks' : line'[j] = (IF j < i THEN line[j] ELSE line[j + 1])
  BY <1>5, <1>6, <1>7
<1>9. ASSUME NEW j \in Tasks' PROVE \E k \in Tasks : k # i /\ line'[j] = line[k]
  <2>1. CASE j < i BY <2>1, <1>1, <1>2, <1>7, <1>8
  <2>2. CASE ~(j < i)
    <3>1. j + 1 \in Tasks /\ j + 1 # i BY <2>2, <1>1, <1>2, <1>7
    <3> QED BY <3>1, <2>2, <1>8
  <2> QED BY <2>1, <2>2
<1>10. ASSUME NEW k \in Tasks, k # i PROVE \E j \in Tasks' : line'[j] = line[k]
  <2>1. CASE k < i BY <2>1, <1>1, <1>2, <1>7, <1>8
  <2>2. CASE ~(k < i)
    <3>1. k - 1 \in Tasks' /\ ~(k - 1 < i) /\ k - 1 + 1 = k BY <2>2, <1>10, <1>1, <1>2, <1>7
    <3> QED BY <3>1, <1>8
  <2> QED BY <2>1, <2>2
<1> QED BY <1>5, <1>6, <1>7, <1>8, <1>9, <1>10

(* Cut, an asking keeps its place and all else of it.                      *)
LEMMA LineCut ==
    ASSUME line \in Seq(Task), NEW n, line' = Cut(n)
    PROVE  /\ line' \in Seq(Task) /\ Tasks' = Tasks
           /\ \A i \in Tasks :
                  /\ line'[i].n = line[i].n /\ line'[i].prompt = line[i].prompt
                  /\ line'[i].on = line[i].on
                  /\ line'[i].cut <=> line[i].cut \/ line[i].n = n
<1>1. Len(line) \in Nat /\ Tasks = 1..Len(line) /\ \A i \in Tasks : line[i] \in Task BY LineIsSeq
<1>2. line' = [i \in Tasks |-> [line[i] EXCEPT !.cut = line[i].cut \/ line[i].n = n]] BY DEF Cut, Tasks
<1>3. \A i \in Tasks : [line[i] EXCEPT !.cut = line[i].cut \/ line[i].n = n] \in Task
  BY <1>1 DEF Task
<1>4. line' \in [1..Len(line) -> Task] BY <1>1, <1>2, <1>3
<1>5. line' \in Seq(Task) BY <1>1, <1>4, SeqDef
<1>6. Tasks' = Tasks BY <1>1, <1>4 DEF Tasks
<1>7. ASSUME NEW i \in Tasks
      PROVE  /\ line'[i].n = line[i].n /\ line'[i].prompt = line[i].prompt
             /\ line'[i].on = line[i].on
             /\ line'[i].cut <=> line[i].cut \/ line[i].n = n
  <2>1. line[i] \in Task BY <1>1
  <2>2. line'[i] = [line[i] EXCEPT !.cut = line[i].cut \/ line[i].n = n] BY <1>2
  <2> QED BY <2>1, <2>2 DEF Task
<1> QED BY <1>5, <1>6, <1>7

(* A question put on the screen, or asked again, is the asking it was.     *)
LEMMA LineTouched ==
    ASSUME line \in Seq(Task), NEW i \in Tasks,
           \/ line' = [line EXCEPT ![i].on = TRUE]
           \/ line' = [line EXCEPT ![i].tries = @ + 1]
    PROVE  /\ line' \in Seq(Task) /\ Tasks' = Tasks
           /\ \A j \in Tasks :
                  /\ line'[j].n = line[j].n /\ line'[j].prompt = line[j].prompt
                  /\ line'[j].cut = line[j].cut
                  /\ line'[j].on => line[j].on \/ j = i
<1>1. Len(line) \in Nat /\ Tasks = 1..Len(line) /\ \A j \in Tasks : line[j] \in Task BY LineIsSeq
<1>2. PICK t \in Task :
          /\ line' = [line EXCEPT ![i] = t]
          /\ t.n = line[i].n /\ t.prompt = line[i].prompt /\ t.cut = line[i].cut
  <2>1. CASE line' = [line EXCEPT ![i].on = TRUE]
    <3>1. [line[i] EXCEPT !.on = TRUE] \in Task BY <1>1 DEF Task
    <3> QED BY <2>1, <3>1, <1>1 DEF Task
  <2>2. CASE line' = [line EXCEPT ![i].tries = @ + 1]
    <3>1. line[i].tries + 1 \in Nat BY <1>1 DEF Task
    <3>2. [line[i] EXCEPT !.tries = @ + 1] = [line[i] EXCEPT !.tries = line[i].tries + 1]
      OBVIOUS
    <3>3. [line[i] EXCEPT !.tries = line[i].tries + 1] \in Task BY <3>1, <1>1 DEF Task
    <3> QED BY <2>2, <3>2, <3>3, <1>1 DEF Task
  <2> QED BY <2>1, <2>2
<1>3. /\ line' \in Seq(Task) /\ Len(line') = Len(line)
      /\ \A j \in 1..Len(line) : line'[j] = IF j = i THEN t ELSE line[j]
  BY <1>1, <1>2, ExceptSeq
<1>4. Tasks' = Tasks BY <1>1, <1>3, LenProperties DEF Tasks
<1> QED BY <1>1, <1>2, <1>3, <1>4

-----------------------------------------------------------------------------
(* Askings begun, stopped and done with.                                   *)

LEMMA StartsKeeps ==
    ASSUME TerminalAssumption, LineInv, NEW p \in Prompt, NEW held, Starts(p, held),
           stage' \in [Prompt -> {"unasked", "open", "settled", "over"}]
    PROVE  /\ LineInv'
           /\ \A q \in Prompt \ {p} :
                  asking'[q] = asking[q] /\ (Waits(q)' <=> Waits(q)) /\ (q \in spent => q \in spent')
           /\ p \in held => UNCHANGED <<line, asking, spent>>
           /\ p \notin held /\ (p \in OwnPrompt => asking[p] = 0) => Waits(p)'
           /\ Waits(p) => Waits(p)'
           /\ ~UNCHANGED <<line, asking, spent>> => Waits(p)' /\ asking[p] = 0
<1>1. CASE p \in held \/ asking[p] # 0
  <2>1. UNCHANGED <<line, asking, spent, asks>> BY <1>1 DEF Starts
  <2>2. LineInv'
    BY <2>1 DEF LineInv, QuestionTypes, AskingsApart, AskingsKnown, Tasks
  <2>3. \A q \in Prompt : Waits(q)' <=> Waits(q) BY <2>1 DEF Waits, Tasks
  <2>4. p \notin held /\ (p \in OwnPrompt => asking[p] = 0) => Waits(p)
    <3> SUFFICES ASSUME p \in FollowedPrompt, asking[p] # 0 PROVE Waits(p)
      BY <1>1 DEF Prompt
    <3>1. PICK i \in Tasks : line[i].n = asking[p] /\ ~line[i].cut
      BY DEF LineInv, AskingsKnown
    <3>2. line[i].prompt = p BY <3>1 DEF LineInv, AskingsApart
    <3> QED BY <3>1, <3>2 DEF Waits
  <2> QED BY <2>1, <2>2, <2>3, <2>4
<1>2. CASE ~(p \in held \/ asking[p] # 0)
  <2> DEFINE t == [n |-> asks', prompt |-> p, on |-> FALSE, tries |-> 0, cut |-> FALSE]
             new == Len(line) + 1
  <2>1. /\ asks' = asks + 1 /\ asking' = [asking EXCEPT ![p] = asks']
        /\ line' = Append(line, t) /\ spent' = spent \ {p}
    BY <1>2 DEF Starts
  <2>2. line \in Seq(Task) /\ asks \in Nat /\ asking \in [Prompt -> Nat]
    BY DEF LineInv, QuestionTypes
  <2>3. asks' \in Nat \ {0} /\ asks < asks' BY <2>1, <2>2
  <2>4. t \in Task BY <2>3 DEF Task
  <2>5. /\ line' \in Seq(Task)
        /\ Tasks' = Tasks \cup {new} /\ new \notin Tasks
        /\ \A i \in Tasks : line'[i] = line[i]
        /\ line'[new] = t
    BY <2>1, <2>2, <2>4, LineAppended
  <2>6. t.n = asks' /\ t.prompt = p /\ t.cut = FALSE OBVIOUS
  <2> HIDE DEF t, new
  <2>7. \A i \in Tasks : line[i] \in Task /\ line[i].n \in Nat \ {0} /\ line[i].n <= asks
    BY <2>2, LineIsSeq DEF LineInv, AskingsApart, Task
  <2>8. \A q \in Prompt : asking[q] \in Nat /\ asking[q] <= asks
    BY <2>2 DEF LineInv, AskingsApart
  <2>9. asking'[p] = asks' /\ \A q \in Prompt \ {p} : asking'[q] = asking[q] BY <2>1, <2>2
  <2>10. QuestionTypes'
    BY <2>1, <2>2, <2>3, <2>5 DEF QuestionTypes
  <2>11. AskingsApart'
    <3>1. \A i \in Tasks' : line'[i].n <= asks'
      BY <2>2, <2>3, <2>5, <2>6, <2>7
    <3>2. \A q \in Prompt : asking'[q] <= asks'
      BY <2>2, <2>3, <2>8, <2>9
    <3>3. \A i \in Tasks : line'[i].n # asks'
      BY <2>2, <2>3, <2>5, <2>7
    <3>4. \A i, j \in Tasks' : line'[i].n = line'[j].n => i = j
      BY <3>3, <2>5, <2>6 DEF LineInv, AskingsApart
    <3>5. ASSUME NEW i \in Tasks', NEW q \in Prompt, line'[i].n = asking'[q]
          PROVE  line'[i].prompt = q
      <4>1. CASE i = new /\ q = p BY <4>1, <2>5, <2>6
      <4>2. CASE i = new /\ q # p BY <4>2, <3>5, <2>5, <2>6, <2>8, <2>9, <2>3, <2>2
      <4>3. CASE i # new /\ q = p BY <4>3, <3>5, <3>3, <2>5, <2>9
      <4>4. CASE i # new /\ q # p BY <4>4, <3>5, <2>5, <2>9 DEF LineInv, AskingsApart
      <4> QED BY <4>1, <4>2, <4>3, <4>4
    <3> QED BY <3>1, <3>2, <3>4, <3>5 DEF AskingsApart
  <2>12. AskingsKnown'
    <3>1. ASSUME NEW i \in Tasks', line'[i].prompt \in OwnPrompt, ~line'[i].cut
          PROVE  line'[i].n = asking'[line'[i].prompt]
      <4>1. CASE i = new BY <4>1, <2>5, <2>6, <2>9
      <4>2. CASE i # new
        <5>1. i \in Tasks /\ line'[i] = line[i] BY <4>2, <2>5
        <5>2. line[i].n = asking[line[i].prompt] BY <3>1, <5>1 DEF LineInv, AskingsKnown
        <5>3. line[i].prompt # p BY <5>1, <5>2, <2>7, <1>2
        <5> QED BY <5>1, <5>2, <5>3, <3>1, <2>9 DEF Prompt
      <4> QED BY <4>1, <4>2
    <3>2. ASSUME NEW q \in FollowedPrompt, asking'[q] # 0
          PROVE  \E i \in Tasks' : line'[i].n = asking'[q] /\ ~line'[i].cut
      <4>1. CASE q = p BY <4>1, <2>5, <2>6, <2>9
      <4>2. CASE q # p
        <5>1. asking'[q] = asking[q] BY <4>2, <2>9 DEF Prompt
        <5>2. PICK i \in Tasks : line[i].n = asking[q] /\ ~line[i].cut
          BY <5>1, <3>2 DEF LineInv, AskingsKnown
        <5> QED BY <5>1, <5>2, <2>5
      <4> QED BY <4>1, <4>2
    <3> QED BY <3>1, <3>2 DEF AskingsKnown
  <2>13. Waits(p)' BY <2>5, <2>6 DEF Waits
  <2>14. \A q \in Prompt \ {p} : Waits(q)' <=> Waits(q)
    BY <2>5, <2>6 DEF Waits
  <2>15. LineInv' BY <2>10, <2>11, <2>12 DEF LineInv
  <2> QED BY <1>2, <2>1, <2>9, <2>13, <2>14, <2>15
<1> QED BY <1>1, <1>2

LEMMA StopsKeeps ==
    ASSUME TerminalAssumption, LineInv, NEW p \in Prompt, Stops(p),
           stage' \in [Prompt -> {"unasked", "open", "settled", "over"}]
    PROVE  /\ LineInv'
           /\ asking'[p] = 0
           /\ \A q \in Prompt \ {p} : asking'[q] = asking[q] /\ (Waits(q)' <=> Waits(q))
           /\ p \in OwnPrompt => ~Waits(p)'
           /\ spent' = spent
<1>1. /\ line' = Cut(asking[p]) /\ asking' = [asking EXCEPT ![p] = 0]
      /\ spent' = spent /\ asks' = asks
  BY DEF Stops
<1>2. line \in Seq(Task) /\ asks \in Nat /\ asking \in [Prompt -> Nat]
  BY DEF LineInv, QuestionTypes
<1>3. /\ line' \in Seq(Task) /\ Tasks' = Tasks
      /\ \A i \in Tasks :
             /\ line'[i].n = line[i].n /\ line'[i].prompt = line[i].prompt
             /\ line'[i].on = line[i].on
             /\ line'[i].cut <=> line[i].cut \/ line[i].n = asking[p]
  BY <1>1, <1>2, LineCut
<1>4. asking'[p] = 0 /\ \A q \in Prompt \ {p} : asking'[q] = asking[q] BY <1>1, <1>2
<1>5. \A i \in Tasks : line[i].n \in Nat \ {0}
  BY <1>2, LineIsSeq DEF Task
<1>6. \A i \in Tasks : line[i].n = asking[p] => line[i].prompt = p
  BY DEF LineInv, AskingsApart
<1>7. QuestionTypes' BY <1>1, <1>2, <1>3 DEF QuestionTypes
<1>8. AskingsApart'
  <2>1. \A i \in Tasks' : line'[i].n <= asks' BY <1>1, <1>3 DEF LineInv, AskingsApart
  <2>2. \A q \in Prompt : asking'[q] <= asks' BY <1>1, <1>2, <1>4 DEF LineInv, AskingsApart
  <2>3. \A i, j \in Tasks' : line'[i].n = line'[j].n => i = j
    BY <1>3 DEF LineInv, AskingsApart
  <2>4. \A i \in Tasks', q \in Prompt : line'[i].n = asking'[q] => line'[i].prompt = q
    BY <1>3, <1>4, <1>5 DEF LineInv, AskingsApart
  <2> QED BY <2>1, <2>2, <2>3, <2>4 DEF AskingsApart
<1>9. p \in OwnPrompt => ~Waits(p)'
  BY <1>3 DEF LineInv, AskingsKnown, Waits
<1>10. \A q \in Prompt \ {p} : Waits(q)' <=> Waits(q)
  BY <1>3, <1>6 DEF Waits
<1>11. AskingsKnown'
  <2>1. ASSUME NEW i \in Tasks', line'[i].prompt \in OwnPrompt, ~line'[i].cut
        PROVE  line'[i].n = asking'[line'[i].prompt]
    <3>1. line[i].n = asking[line[i].prompt] /\ line[i].n # asking[p]
      BY <2>1, <1>3 DEF LineInv, AskingsKnown
    <3>2. line[i].prompt \in Prompt \ {p} BY <3>1, <2>1, <1>3 DEF Prompt
    <3> QED BY <3>1, <3>2, <1>3, <1>4
  <2>2. ASSUME NEW q \in FollowedPrompt, asking'[q] # 0
        PROVE  \E i \in Tasks' : line'[i].n = asking'[q] /\ ~line'[i].cut
    <3>1. q \in Prompt \ {p} BY <2>2, <1>4 DEF Prompt
    <3>2. PICK i \in Tasks : line[i].n = asking[q] /\ ~line[i].cut
      BY <3>1, <2>2, <1>4 DEF LineInv, AskingsKnown
    <3>3. line[i].prompt = q BY <3>1, <3>2 DEF LineInv, AskingsApart
    <3>4. line[i].n # asking[p] BY <3>1, <3>3, <1>6
    <3> QED BY <3>1, <3>2, <3>4, <1>3, <1>4
  <2> QED BY <2>1, <2>2 DEF AskingsKnown
<1> QED BY <1>1, <1>4, <1>7, <1>8, <1>9, <1>10, <1>11 DEF LineInv

LEMMA DoneKeeps ==
    ASSUME TerminalAssumption, LineInv, NEW i \in Tasks, Done(i),
           stage' \in [Prompt -> {"unasked", "open", "settled", "over"}]
    PROVE  /\ LineInv'
           /\ line[i].prompt \in Prompt
           /\ \A q \in OwnPrompt : asking'[q] = asking[q]
           /\ \A q \in Prompt : q # line[i].prompt \/ line[i].cut => (Waits(q) => Waits(q)')
<1> DEFINE p == line[i].prompt
<1>1. /\ line' = RemoveAt(line, i) /\ asks' = asks
      /\ asking' = IF p \in FollowedPrompt THEN [asking EXCEPT ![p] = 0] ELSE asking
  BY DEF Done
<1>2. line \in Seq(Task) /\ asks \in Nat /\ asking \in [Prompt -> Nat]
  BY DEF LineInv, QuestionTypes
<1>3. /\ line' \in Seq(Task)
      /\ \A j \in Tasks' : \E k \in Tasks : k # i /\ line'[j] = line[k]
      /\ \A k \in Tasks : k # i => \E j \in Tasks' : line'[j] = line[k]
      /\ Tasks' = 1..(Len(line) - 1)
      /\ \A j \in Tasks' : line'[j] = (IF j < i THEN line[j] ELSE line[j + 1])
  BY <1>1, <1>2, LineRemoved
<1>4. Len(line) \in Nat /\ Tasks = 1..Len(line) /\ \A j \in Tasks : line[j] \in Task
  BY <1>2, LineIsSeq
<1>5. p \in Prompt /\ \A j \in Tasks : line[j].n \in Nat \ {0} BY <1>4 DEF Task
<1>6. \A q \in Prompt : asking'[q] = asking[q] \/ (q = p /\ q \in FollowedPrompt /\ asking'[q] = 0)
  BY <1>1, <1>2, <1>5
<1> HIDE DEF p
<1>7. QuestionTypes'
  BY <1>1, <1>2, <1>3, <1>5 DEF QuestionTypes
<1>8. \A q \in OwnPrompt : asking'[q] = asking[q]
  BY <1>6 DEF Prompt, TerminalAssumption
<1>9. AskingsApart'
  <2>1. \A j \in Tasks' : line'[j].n <= asks' BY <1>1, <1>3 DEF LineInv, AskingsApart
  <2>2. \A q \in Prompt : asking'[q] <= asks' BY <1>1, <1>2, <1>6 DEF LineInv, AskingsApart
  <2>3. ASSUME NEW j \in Tasks', NEW k \in Tasks', line'[j].n = line'[k].n PROVE j = k
    <3> DEFINE From(x) == IF x < i THEN x ELSE x + 1
    <3>1. From(j) \in Tasks /\ From(k) \in Tasks /\ (From(j) = From(k) => j = k)
      BY <1>3, <1>4
    <3>2. line'[j] = line[From(j)] /\ line'[k] = line[From(k)] BY <1>3
    <3> HIDE DEF From
    <3> QED BY <3>1, <3>2, <2>3 DEF LineInv, AskingsApart
  <2>4. ASSUME NEW j \in Tasks', NEW q \in Prompt, line'[j].n = asking'[q]
        PROVE  line'[j].prompt = q
    <3>1. PICK k \in Tasks : line'[j] = line[k] BY <1>3
    <3>2. asking'[q] = asking[q] BY <3>1, <2>4, <1>5, <1>6
    <3> QED BY <3>1, <3>2, <2>4 DEF LineInv, AskingsApart
  <2> QED BY <2>1, <2>2, <2>3, <2>4 DEF AskingsApart
<1>10. AskingsKnown'
  <2>1. ASSUME NEW j \in Tasks', line'[j].prompt \in OwnPrompt, ~line'[j].cut
        PROVE  line'[j].n = asking'[line'[j].prompt]
    <3>1. PICK k \in Tasks : line'[j] = line[k] BY <1>3
    <3> QED BY <3>1, <2>1, <1>8 DEF LineInv, AskingsKnown
  <2>2. ASSUME NEW q \in FollowedPrompt, asking'[q] # 0
        PROVE  \E j \in Tasks' : line'[j].n = asking'[q] /\ ~line'[j].cut
    <3>1. q \in Prompt BY DEF Prompt
    <3>2. asking'[q] = asking[q] /\ q # p BY <3>1, <2>2, <1>1, <1>2, <1>5, <1>6
    <3>3. PICK k \in Tasks : line[k].n = asking[q] /\ ~line[k].cut
      BY <3>2, <2>2 DEF LineInv, AskingsKnown
    <3>4. line[k].prompt = q BY <3>1, <3>3 DEF LineInv, AskingsApart
    <3>5. k # i BY <3>2, <3>4 DEF p
    <3>6. PICK j \in Tasks' : line'[j] = line[k] BY <3>5, <1>3
    <3> QED BY <3>2, <3>3, <3>6
  <2> QED BY <2>1, <2>2 DEF AskingsKnown
<1>11. ASSUME NEW q \in Prompt, q # line[i].prompt \/ line[i].cut, Waits(q) PROVE Waits(q)'
  <2>1. PICK k \in Tasks : line[k].prompt = q /\ ~line[k].cut BY <1>11 DEF Waits
  <2>2. k # i BY <1>11, <2>1
  <2>3. PICK j \in Tasks' : line'[j] = line[k] BY <2>2, <1>3
  <2> QED BY <2>1, <2>3 DEF Waits
<1> QED BY <1>5, <1>7, <1>8, <1>9, <1>10, <1>11 DEF LineInv, p

LEMMA TouchedKeeps ==
    ASSUME LineInv, NEW i \in Tasks,
           \/ line' = [line EXCEPT ![i].on = TRUE]
           \/ line' = [line EXCEPT ![i].tries = @ + 1],
           UNCHANGED <<asking, asks, stage>>
    PROVE  LineInv' /\ \A q \in Prompt : Waits(q) => Waits(q)'
<1>1. line \in Seq(Task) BY DEF LineInv, QuestionTypes
<1>2. /\ line' \in Seq(Task) /\ Tasks' = Tasks
      /\ \A j \in Tasks :
             /\ line'[j].n = line[j].n /\ line'[j].prompt = line[j].prompt
             /\ line'[j].cut = line[j].cut
             /\ line'[j].on => line[j].on \/ j = i
  BY <1>1, LineTouched
<1>3. QuestionTypes' BY <1>2 DEF LineInv, QuestionTypes
<1>4. AskingsApart' BY <1>2 DEF LineInv, AskingsApart
<1>5. AskingsKnown' BY <1>2 DEF LineInv, AskingsKnown
<1> QED BY <1>2, <1>3, <1>4, <1>5 DEF LineInv, Waits

-----------------------------------------------------------------------------
(* A question is asked, or it is claimed or answered.                      *)

LEMMA AskedInit == ASSUME TerminalAssumption, Init PROVE AskedInv
<1>1. line = <<>> /\ Tasks = {} BY DEF Init, TerminalInit, Tasks
<1>2. line \in Seq(Task) BY <1>1, IsASeq
<1> QED BY <1>1, <1>2
     DEF Init, TerminalInit, AskedInv, LineInv, QuestionTypes, AskingsApart, AskingsKnown,
         OwnQuiet, Asking, Prompt

LEMMA OwnIsNotFollowed ==
    ASSUME TerminalAssumption
    PROVE  /\ OwnPrompt \subseteq Prompt /\ FollowedPrompt \subseteq Prompt
           /\ \A p \in Prompt : p \in OwnPrompt <=> p \notin FollowedPrompt
  BY DEF TerminalAssumption, Prompt

LEMMA NothingAsked ==
    ASSUME AskedInv, UNCHANGED <<stage, claimed, line, asking, spent, asks>>
    PROVE  AskedInv'
<1>1. Tasks' = Tasks BY DEF Tasks
<1>2. LineInv' BY <1>1 DEF AskedInv, LineInv, QuestionTypes, AskingsApart, AskingsKnown
<1>3. \A p \in Prompt : Waits(p)' <=> Waits(p) BY <1>1 DEF Waits
<1> QED BY <1>2, <1>3 DEF AskedInv, OwnQuiet, Asking, Prompt

LEMMA DecidesAsked ==
    ASSUME TerminalAssumption, AskedInv, NEW p \in Prompt, Decides(p)
    PROVE  AskedInv'
<1>1. /\ stage[p] = "unasked" /\ stage' = [stage EXCEPT ![p] = "open"]
      /\ Starts(p, claimed) /\ claimed' = claimed
  BY DEF Decides
<1>2. stage \in [Prompt -> {"unasked", "open", "settled", "over"}] /\ LineInv
  BY DEF AskedInv, LineInv, QuestionTypes
<1>3. /\ stage' \in [Prompt -> {"unasked", "open", "settled", "over"}]
      /\ stage'[p] = "open" /\ \A q \in Prompt \ {p} : stage'[q] = stage[q]
  BY <1>1, <1>2
<1>4. /\ LineInv'
      /\ \A q \in Prompt \ {p} :
             asking'[q] = asking[q] /\ (Waits(q)' <=> Waits(q)) /\ (q \in spent => q \in spent')
      /\ p \in claimed => UNCHANGED <<line, asking, spent>>
      /\ p \notin claimed /\ (p \in OwnPrompt => asking[p] = 0) => Waits(p)'
      /\ Waits(p) => Waits(p)'
      /\ ~UNCHANGED <<line, asking, spent>> => Waits(p)' /\ asking[p] = 0
  BY <1>1, <1>2, <1>3, StartsKeeps
<1>5. p \in OwnPrompt => p \notin claimed /\ asking[p] = 0
  BY <1>1 DEF AskedInv, OwnQuiet
<1>6. OwnQuiet'
  BY <1>1, <1>3, <1>4, <1>5, OwnIsNotFollowed DEF AskedInv, OwnQuiet
<1>7. Asking'
  BY <1>1, <1>3, <1>4, <1>5, OwnIsNotFollowed DEF AskedInv, Asking
<1> QED BY <1>4, <1>6, <1>7 DEF AskedInv

LEMMA SaidAgainAsked ==
    ASSUME TerminalAssumption, AskedInv, NEW p \in Prompt, SaidAgain(p)
    PROVE  AskedInv'
<1>1. /\ p \in FollowedPrompt /\ stage[p] = "open" /\ stage' = stage
      /\ Starts(p, claimed) /\ claimed' = claimed
  BY DEF SaidAgain
<1>2. stage' \in [Prompt -> {"unasked", "open", "settled", "over"}] /\ LineInv
  BY <1>1 DEF AskedInv, LineInv, QuestionTypes
<1>3. p \notin OwnPrompt BY <1>1, OwnIsNotFollowed
<1>4. /\ LineInv'
      /\ \A q \in Prompt \ {p} :
             asking'[q] = asking[q] /\ (Waits(q)' <=> Waits(q)) /\ (q \in spent => q \in spent')
      /\ p \in claimed => UNCHANGED <<line, asking, spent>>
      /\ p \notin claimed /\ (p \in OwnPrompt => asking[p] = 0) => Waits(p)'
      /\ Waits(p) => Waits(p)'
      /\ ~UNCHANGED <<line, asking, spent>> => Waits(p)' /\ asking[p] = 0
  BY <1>1, <1>2, StartsKeeps
<1>5. OwnQuiet'
  BY <1>1, <1>3, <1>4, OwnIsNotFollowed DEF AskedInv, OwnQuiet
<1>6. Asking'
  BY <1>1, <1>3, <1>4, OwnIsNotFollowed DEF AskedInv, Asking
<1> QED BY <1>4, <1>5, <1>6 DEF AskedInv

LEMMA HearsClaimAsked ==
    ASSUME TerminalAssumption, AskedInv, NEW p \in Prompt, HearsClaim(p)
    PROVE  AskedInv'
<1>1. /\ stage[p] \in {"open", "settled"} /\ stage' = stage
      /\ claimed' = claimed \cup {p}
  BY DEF HearsClaim
<1>2. stage' \in [Prompt -> {"unasked", "open", "settled", "over"}] /\ LineInv
  BY <1>1 DEF AskedInv, LineInv, QuestionTypes
<1>3. CASE p \in OwnPrompt \cap claimed
  <2>1. UNCHANGED <<line, asking, spent, asks>> BY <1>3 DEF HearsClaim
  <2>2. claimed' = claimed BY <1>1, <1>3
  <2> QED BY <1>1, <2>1, <2>2, NothingAsked
<1>4. CASE ~(p \in OwnPrompt \cap claimed)
  <2>1. Stops(p) BY <1>4 DEF HearsClaim
  <2>2. /\ LineInv'
        /\ asking'[p] = 0
        /\ \A q \in Prompt \ {p} : asking'[q] = asking[q] /\ (Waits(q)' <=> Waits(q))
        /\ p \in OwnPrompt => ~Waits(p)'
        /\ spent' = spent
    BY <2>1, <1>2, StopsKeeps
  <2>3. OwnQuiet'
    BY <1>1, <2>2, OwnIsNotFollowed DEF AskedInv, OwnQuiet
  <2>4. Asking'
    BY <1>1, <2>2, OwnIsNotFollowed DEF AskedInv, Asking
  <2> QED BY <2>2, <2>3, <2>4 DEF AskedInv
<1> QED BY <1>3, <1>4

LEMMA HearsReleaseAsked ==
    ASSUME TerminalAssumption, AskedInv, NEW p \in Prompt, HearsRelease(p)
    PROVE  AskedInv'
<1>1. /\ stage[p] \in {"open", "settled"} /\ stage' = stage /\ p \in claimed
      /\ claimed' = claimed \ {p}
      /\ Starts(p, claimed')
  BY DEF HearsRelease
<1>2. stage' \in [Prompt -> {"unasked", "open", "settled", "over"}] /\ LineInv
  BY <1>1 DEF AskedInv, LineInv, QuestionTypes
<1>3. p \notin claimed' BY <1>1
<1>4. /\ LineInv'
      /\ \A q \in Prompt \ {p} :
             asking'[q] = asking[q] /\ (Waits(q)' <=> Waits(q)) /\ (q \in spent => q \in spent')
      /\ p \in claimed' => UNCHANGED <<line, asking, spent>>
      /\ p \notin claimed' /\ (p \in OwnPrompt => asking[p] = 0) => Waits(p)'
      /\ Waits(p) => Waits(p)'
      /\ ~UNCHANGED <<line, asking, spent>> => Waits(p)' /\ asking[p] = 0
  BY <1>1, <1>2, StartsKeeps
<1>5. p \in OwnPrompt => asking[p] = 0
  BY <1>1 DEF AskedInv, OwnQuiet
<1>6. OwnQuiet'
  BY <1>1, <1>3, <1>4, OwnIsNotFollowed DEF AskedInv, OwnQuiet
<1>7. Asking'
  BY <1>1, <1>3, <1>4, <1>5, OwnIsNotFollowed DEF AskedInv, Asking
<1> QED BY <1>4, <1>6, <1>7 DEF AskedInv

LEMMA SettlesAsked ==
    ASSUME TerminalAssumption, AskedInv, NEW p \in Prompt, Settles(p)
    PROVE  AskedInv'
<1>1. /\ p \in OwnPrompt /\ stage[p] = "open" /\ stage' = [stage EXCEPT ![p] = "settled"]
      /\ UNCHANGED <<claimed, line, asking, spent, asks>>
  BY DEF Settles
<1>2. stage \in [Prompt -> {"unasked", "open", "settled", "over"}]
  BY DEF AskedInv, LineInv, QuestionTypes
<1>3. /\ stage' \in [Prompt -> {"unasked", "open", "settled", "over"}]
      /\ stage'[p] = "settled" /\ \A q \in Prompt \ {p} : stage'[q] = stage[q]
  BY <1>1, <1>2
<1>4. Tasks' = Tasks BY <1>1 DEF Tasks
<1>5. LineInv'
  BY <1>1, <1>3, <1>4 DEF AskedInv, LineInv, QuestionTypes, AskingsApart, AskingsKnown
<1>6. \A q \in Prompt : Waits(q)' <=> Waits(q) BY <1>1, <1>4 DEF Waits
<1>7. OwnQuiet' BY <1>1, <1>3, OwnIsNotFollowed DEF AskedInv, OwnQuiet
<1>8. Asking' BY <1>1, <1>3, <1>6, OwnIsNotFollowed DEF AskedInv, Asking
<1> QED BY <1>5, <1>7, <1>8 DEF AskedInv

(* The step goes on, or a followed cast's prompt is over.                  *)
LEMMA OverAsked ==
    ASSUME TerminalAssumption, AskedInv, NEW p \in Prompt, GoesOn(p) \/ HearsEnd(p)
    PROVE  AskedInv'
<1>1. /\ stage' = [stage EXCEPT ![p] = "over"] /\ Stops(p)
      /\ claimed' = claimed \/ (p \in FollowedPrompt /\ claimed' = claimed \ {p})
      /\ p \in OwnPrompt => stage[p] = "settled"
  BY OwnIsNotFollowed DEF GoesOn, HearsEnd
<1>2. stage \in [Prompt -> {"unasked", "open", "settled", "over"}] /\ LineInv
  BY DEF AskedInv, LineInv, QuestionTypes
<1>3. /\ stage' \in [Prompt -> {"unasked", "open", "settled", "over"}]
      /\ stage'[p] = "over" /\ \A q \in Prompt \ {p} : stage'[q] = stage[q]
  BY <1>1, <1>2
<1>4. /\ LineInv'
      /\ asking'[p] = 0
      /\ \A q \in Prompt \ {p} : asking'[q] = asking[q] /\ (Waits(q)' <=> Waits(q))
      /\ p \in OwnPrompt => ~Waits(p)'
      /\ spent' = spent
  BY <1>1, <1>2, <1>3, StopsKeeps
<1>5. \A q \in Prompt \ {p} : q \in claimed' <=> q \in claimed BY <1>1
<1>6. OwnQuiet' BY <1>1, <1>3, <1>4, <1>5, OwnIsNotFollowed DEF AskedInv, OwnQuiet
<1>7. Asking' BY <1>1, <1>3, <1>4, <1>5, OwnIsNotFollowed DEF AskedInv, Asking
<1> QED BY <1>4, <1>6, <1>7 DEF AskedInv

(* A task that was cut is out of the line.                                 *)
LEMMA CutAsked ==
    ASSUME TerminalAssumption, AskedInv, NEW i \in Tasks, Leaves(i) \/ Withdrawn(i)
    PROVE  AskedInv'
<1>1. line[i].cut /\ Done(i) /\ UNCHANGED <<stage, claimed, spent>>
  BY DEF Leaves, Withdrawn
<1>2. stage' \in [Prompt -> {"unasked", "open", "settled", "over"}] /\ LineInv
  BY <1>1 DEF AskedInv, LineInv, QuestionTypes
<1>3. /\ LineInv'
      /\ line[i].prompt \in Prompt
      /\ \A q \in OwnPrompt : asking'[q] = asking[q]
      /\ \A q \in Prompt : q # line[i].prompt \/ line[i].cut => (Waits(q) => Waits(q)')
  BY <1>1, <1>2, DoneKeeps
<1>4. OwnQuiet' BY <1>1, <1>3 DEF AskedInv, OwnQuiet
<1>5. Asking' BY <1>1, <1>3, OwnIsNotFollowed DEF AskedInv, Asking
<1> QED BY <1>3, <1>4, <1>5 DEF AskedInv

LEMMA AnsweredAsked ==
    ASSUME TerminalAssumption, AskedInv, NEW i \in Tasks, Answered(i)
    PROVE  AskedInv'
<1> DEFINE p == line[i].prompt
<1>1. /\ Done(i) /\ claimed' = claimed
      /\ stage' = IF p \in OwnPrompt /\ stage[p] = "open"
                  THEN [stage EXCEPT ![p] = "settled"] ELSE stage
      /\ spent' = IF p \in FollowedPrompt THEN spent \cup {p} ELSE spent
  BY DEF Answered
<1>2. stage \in [Prompt -> {"unasked", "open", "settled", "over"}] /\ LineInv
  BY DEF AskedInv, LineInv, QuestionTypes
<1>3. stage' \in [Prompt -> {"unasked", "open", "settled", "over"}]
  BY <1>1, <1>2
<1>4. /\ LineInv'
      /\ line[i].prompt \in Prompt
      /\ \A q \in OwnPrompt : asking'[q] = asking[q]
      /\ \A q \in Prompt : q # line[i].prompt \/ line[i].cut => (Waits(q) => Waits(q)')
  BY <1>1, <1>2, <1>3, DoneKeeps
<1>5. /\ \A q \in Prompt \ {p} : stage'[q] = stage[q] /\ (Waits(q) => Waits(q)')
      /\ p \in OwnPrompt => stage'[p] # "open"
      /\ stage'[p] = stage[p] \/ stage'[p] = "settled"
      /\ \A q \in spent : q \in spent'
      /\ p \in FollowedPrompt => p \in spent' /\ stage'[p] = stage[p]
  BY <1>1, <1>2, <1>4, OwnIsNotFollowed
<1>6. p \in Prompt BY <1>4
<1> HIDE DEF p
<1>7. OwnQuiet' 
  <2> SUFFICES ASSUME NEW q \in OwnPrompt
               PROVE  /\ q \in claimed' => asking'[q] = 0 /\ stage'[q] # "unasked"
                      /\ stage'[q] \in {"unasked", "over"} => asking'[q] = 0
    BY DEF OwnQuiet
  <2>1. asking'[q] = asking[q] BY <1>4
  <2>2. stage'[q] = stage[q] \/ stage'[q] = "settled" BY <1>5, OwnIsNotFollowed
  <2> QED BY <2>1, <2>2, <1>1 DEF AskedInv, OwnQuiet
<1>8. Asking' BY <1>1, <1>5, <1>6, OwnIsNotFollowed DEF AskedInv, Asking
<1> QED BY <1>4, <1>7, <1>8 DEF AskedInv

LEMMA OnScreenAsked ==
    ASSUME TerminalAssumption, AskedInv, NEW i \in Tasks, Asked(i) \/ AskedAgain(i)
    PROVE  AskedInv'
<1>1. /\ \/ line' = [line EXCEPT ![i].on = TRUE]
         \/ line' = [line EXCEPT ![i].tries = @ + 1]
      /\ UNCHANGED <<stage, claimed, asking, spent, asks>>
  BY DEF Asked, AskedAgain, questions
<1>2. LineInv' /\ \A q \in Prompt : Waits(q) => Waits(q)'
  BY <1>1, TouchedKeeps DEF AskedInv
<1> QED BY <1>1, <1>2, OwnIsNotFollowed DEF AskedInv, OwnQuiet, Asking

LEMMA AskedStep == ASSUME TerminalAssumption, AskedInv, [Next]_vars PROVE AskedInv'
<1>1. CASE ScreenNext /\ UNCHANGED termVars
  BY <1>1, NothingAsked DEF termVars, questions
<1>2. CASE PromptNext
  <2>1. PICK p \in Prompt :
            \/ Decides(p) \/ SaidAgain(p) \/ HearsClaim(p) \/ HearsRelease(p)
            \/ Settles(p) \/ GoesOn(p) \/ HearsEnd(p)
    BY <1>2 DEF PromptNext
  <2> QED BY <2>1, DecidesAsked, SaidAgainAsked, HearsClaimAsked, HearsReleaseAsked,
             SettlesAsked, OverAsked
<1>3. ASSUME NEW i \in DOMAIN line,
             Leaves(i) \/ Asked(i) \/ Answered(i) \/ AskedAgain(i) \/ Withdrawn(i)
      PROVE  AskedInv'
  BY <1>3, CutAsked, AnsweredAsked, OnScreenAsked DEF Tasks
<1>4. ASSUME NEW what, Reads(what) PROVE AskedInv'
  BY <1>4, NothingAsked DEF Reads, questions
<1>4a. ASSUME Told PROVE AskedInv'
  BY <1>4a, NothingAsked DEF Told, questions
<1>5. CASE UNCHANGED vars
  BY <1>5, NothingAsked DEF vars, termVars, questions
<1> QED BY <1>1, <1>2, <1>3, <1>4, <1>4a, <1>5 DEF Next, LineNext

LEMMA AskedEnough == ASSUME TerminalAssumption, AskedInv PROVE AskedUnlessClaimed
<1> SUFFICES ASSUME NEW p \in Prompt
             PROVE  /\ p \in OwnPrompt /\ stage[p] = "open" =>
                           Cardinality(Live(p)) = IF p \in claimed THEN 0 ELSE 1
                    /\ p \in OwnPrompt /\ stage[p] = "over" => Live(p) = {}
                    /\ p \in FollowedPrompt /\ stage[p] = "open" =>
                           Live(p) # {} \/ p \in claimed \cup spent
  BY DEF AskedUnlessClaimed
<1>1. Live(p) = {i \in Tasks : line[i].prompt = p /\ ~line[i].cut} BY DEF Live, Tasks
<1>2. Waits(p) <=> Live(p) # {} BY <1>1 DEF Waits
<1>3. \A i \in Tasks : line[i].n # 0
  BY LineIsSeq DEF AskedInv, LineInv, QuestionTypes, Task
<1>4. ASSUME p \in OwnPrompt, NEW i \in Live(p) PROVE line[i].n = asking[p] /\ asking[p] # 0
  BY <1>4, <1>1, <1>3 DEF AskedInv, LineInv, AskingsKnown
<1>5. p \in OwnPrompt /\ asking[p] = 0 => Live(p) = {} BY <1>4
<1>6. ASSUME p \in OwnPrompt, stage[p] = "open", p \notin claimed
      PROVE  Cardinality(Live(p)) = 1
  <2>1. PICK i : i \in Live(p) BY <1>2, <1>6 DEF AskedInv, Asking
  <2>2. \A j \in Live(p) : j = i
    BY <2>1, <1>1, <1>4, <1>6 DEF AskedInv, LineInv, AskingsApart
  <2>3. Live(p) = {i} BY <2>1, <2>2
  <2> QED BY <2>3, FS_Singleton
<1>7. p \in OwnPrompt /\ stage[p] = "open" /\ p \in claimed => Cardinality(Live(p)) = 0
  BY <1>5, FS_EmptySet DEF AskedInv, OwnQuiet
<1>8. p \in OwnPrompt /\ stage[p] = "over" => Live(p) = {}
  BY <1>5 DEF AskedInv, OwnQuiet
<1>9. p \in FollowedPrompt /\ stage[p] = "open" => Live(p) # {} \/ p \in claimed \cup spent
  BY <1>2 DEF AskedInv, Asking
<1> QED BY <1>6, <1>7, <1>8, <1>9

(* However claims, releases, answers and the ends of cancelled askings are *)
(* ordered, an open prompt of the cast is asked once at its terminal while *)
(* no window claimed it and not at all while one did, and a followed       *)
(* cast's is asked, claimed or was answered (TeeChannel.decide,            *)
(* follow.py's claims and releases).                                       *)
THEOREM AskedUnlessClaimedCorrect == Spec => []AskedUnlessClaimed
<1>1. Init => AskedInv BY AskedInit, TerminalAssumption
<1>2. AskedInv /\ [Next]_vars => AskedInv' BY AskedStep, TerminalAssumption
<1>3. AskedInv => AskedUnlessClaimed BY AskedEnough, TerminalAssumption
<1> QED BY <1>1, <1>2, <1>3, PTL DEF Spec

-----------------------------------------------------------------------------
(* One question on the screen, and a line typed is its answer.             *)

OneOnScreen == \A i \in Tasks : line[i].on => i = 1
ReadForIt == \A i \in Tasks : Got(i) => toldAt = line[i].n

LEMMA AnsweredParts == AnsweredAsHeard <=> OneOnScreen /\ ReadForIt
  BY DEF AnsweredAsHeard, OneOnScreen, ReadForIt, Tasks

(* What was read for it stays so while the line, and what was read, do,    *)
(* and while a task is only cut.                                           *)
LEMMA ReadKept ==
    ASSUME line \in Seq(Task), OneOnScreen, ReadForIt,
           line' \in Seq(Task), UNCHANGED <<reading, toldAt>>,
           \A j \in Tasks' : line'[j].on =>
               /\ j = 1 /\ 1 \in Tasks /\ line[1].on
               /\ line'[1].n = line[1].n /\ (line[1].cut => line'[1].cut)
    PROVE  AnsweredInv'
<1>1. OneOnScreen' BY DEF OneOnScreen
<1>2. ASSUME NEW j \in Tasks', Got(j)' PROVE toldAt' = line'[j].n
  <2>1. line'[j].on /\ ~line'[j].cut /\ reading' \in {"good", "bad", "end"}
    BY <1>2 DEF Got
  <2>2. j = 1 /\ 1 \in Tasks /\ line[1].on /\ line'[1].n = line[1].n /\ (line[1].cut => line'[1].cut)
    BY <2>1
  <2>3. Got(1) BY <2>1, <2>2 DEF Got
  <2> QED BY <2>2, <2>3 DEF ReadForIt
<1>3. ReadForIt' BY <1>2 DEF ReadForIt
<1> QED BY <1>1, <1>3 DEF AnsweredInv, AnsweredAsHeard, OneOnScreen, ReadForIt, Tasks

LEMMA NothingRead ==
    ASSUME AnsweredInv, line' \in Seq(Task), OneOnScreen', reading' \in {"none", "pending"}
    PROVE  AnsweredInv'
<1>1. ReadForIt' BY DEF ReadForIt, Got
<1> QED BY <1>1 DEF AnsweredInv, AnsweredAsHeard, OneOnScreen, ReadForIt, Tasks

(* A task that goes leaves on the screen what was there before it.         *)
LEMMA DoneOnScreen ==
    ASSUME line \in Seq(Task), OneOnScreen, NEW i \in Tasks, Done(i)
    PROVE  /\ line' \in Seq(Task)
           /\ \A j \in Tasks' : line'[j].on => j = 1 /\ 1 \in Tasks /\ line[1].on /\ line'[1] = line[1]
<1>1. line' = RemoveAt(line, i) BY DEF Done
<1>2. /\ line' \in Seq(Task)
      /\ Tasks' = 1..(Len(line) - 1)
      /\ \A j \in Tasks' : line'[j] = (IF j < i THEN line[j] ELSE line[j + 1])
  BY <1>1, LineRemoved
<1>3. Len(line) \in Nat /\ Tasks = 1..Len(line) BY LineIsSeq
<1>4. ASSUME NEW j \in Tasks', line'[j].on
      PROVE  j = 1 /\ 1 \in Tasks /\ line[1].on /\ line'[1] = line[1]
  <2>1. CASE j < i
    <3>1. j \in Tasks /\ line'[j] = line[j] BY <2>1, <1>2, <1>3
    <3> QED BY <3>1, <1>4 DEF OneOnScreen
  <2>2. CASE ~(j < i)
    <3>1. j + 1 \in Tasks /\ line[j + 1].on /\ j + 1 # 1 BY <2>2, <1>2, <1>3, <1>4
    <3> QED BY <3>1 DEF OneOnScreen
  <2> QED BY <2>1, <2>2
<1> QED BY <1>2, <1>4

LEMMA AnsweredStep == ASSUME TerminalAssumption, AnsweredInv, asks \in Nat, [Next]_vars PROVE AnsweredInv'
<1>0. line \in Seq(Task) /\ OneOnScreen /\ ReadForIt
  BY AnsweredParts DEF AnsweredInv
<1>1. ASSUME UNCHANGED <<line, reading, toldAt>> PROVE AnsweredInv'
  <2>1. Tasks' = Tasks BY <1>1 DEF Tasks
  <2> QED BY <2>1, <1>1, <1>0, ReadKept DEF OneOnScreen
<1>2. ASSUME NEW p \in Prompt, NEW held, Starts(p, held), UNCHANGED <<reading, toldAt>>
      PROVE  AnsweredInv'
  <2>1. CASE UNCHANGED line BY <2>1, <1>1, <1>2
  <2>2. CASE line' # line
    <3> DEFINE t == [n |-> asks', prompt |-> p, on |-> FALSE, tries |-> 0, cut |-> FALSE]
    <3>1. line' = Append(line, t) /\ asks' = asks + 1 BY <2>2, <1>2 DEF Starts
    <3>2. t \in Task BY <3>1 DEF Task
    <3>3. ~t.on OBVIOUS
    <3> HIDE DEF t
    <3>4. /\ line' \in Seq(Task)
          /\ Tasks' = Tasks \cup {Len(line) + 1}
          /\ \A i \in Tasks : line'[i] = line[i]
          /\ line'[Len(line) + 1] = t
      BY <3>1, <3>2, <1>0, LineAppended
    <3> QED BY <3>3, <3>4, <1>0, <1>2, ReadKept DEF OneOnScreen
  <2> QED BY <2>1, <2>2
<1>3. ASSUME NEW p \in Prompt, Stops(p), UNCHANGED <<reading, toldAt>> PROVE AnsweredInv'
  <2>1. line' = Cut(asking[p]) BY <1>3 DEF Stops
  <2>2. /\ line' \in Seq(Task) /\ Tasks' = Tasks
        /\ \A i \in Tasks :
               /\ line'[i].n = line[i].n /\ line'[i].prompt = line[i].prompt
               /\ line'[i].on = line[i].on
               /\ line'[i].cut <=> line[i].cut \/ line[i].n = asking[p]
    BY <2>1, <1>0, LineCut
  <2> QED BY <2>2, <1>0, <1>3, ReadKept DEF OneOnScreen
<1>4. ASSUME NEW i \in Tasks, Leaves(i) \/ Withdrawn(i) PROVE AnsweredInv'
  <2>1. Done(i) /\ UNCHANGED <<reading, toldAt>> BY <1>4 DEF Leaves, Withdrawn, heard
  <2> QED BY <2>1, <1>0, DoneOnScreen, ReadKept
<1>5. ASSUME NEW i \in Tasks, Answered(i) PROVE AnsweredInv'
  <2>1. Done(i) /\ reading' = "none" BY <1>5 DEF Answered
  <2>2. OneOnScreen' BY <2>1, <1>0, DoneOnScreen DEF OneOnScreen
  <2> QED BY <2>1, <2>2, <1>0, DoneOnScreen, NothingRead
<1>6. ASSUME NEW i \in Tasks, Asked(i) \/ AskedAgain(i) PROVE AnsweredInv'
  <2>1. /\ \/ line' = [line EXCEPT ![i].on = TRUE]
           \/ line' = [line EXCEPT ![i].tries = @ + 1]
        /\ reading' = "pending"
        /\ i = 1
    BY <1>6, <1>0 DEF Asked, AskedAgain, Turn, Got, OneOnScreen
  <2>2. /\ line' \in Seq(Task) /\ Tasks' = Tasks
        /\ \A j \in Tasks : line'[j].on => line[j].on \/ j = i
    BY <2>1, <1>0, LineTouched
  <2>3. OneOnScreen' BY <2>1, <2>2, <1>0 DEF OneOnScreen
  <2> QED BY <2>1, <2>2, <2>3, NothingRead
<1>6a. ASSUME NEW what, Reads(what) PROVE AnsweredInv'
  BY <1>6a, <1>1 DEF Reads
<1>7. ASSUME Told PROVE AnsweredInv'
  <2>1. /\ line' = line
        /\ toldAt' = IF OnScreen = {} THEN 0 ELSE CHOOSE n \in OnScreen : TRUE
    BY <1>7 DEF Told, AskedNow
  <2>2. OnScreen = {line[i].n : i \in {j \in Tasks : line[j].on}} BY DEF OnScreen, Tasks
  <2>3. Tasks' = Tasks BY <2>1 DEF Tasks
  <2>4. OneOnScreen' BY <2>1, <2>3, <1>0 DEF OneOnScreen
  <2>5. ASSUME NEW i \in Tasks', Got(i)' PROVE toldAt' = line'[i].n
    <3>1. i \in Tasks /\ line[i].on BY <2>5, <2>1, <2>3 DEF Got
    <3>2. line[i].n \in OnScreen BY <3>1, <2>2
    <3>3. \A n \in OnScreen : n = line[i].n BY <3>1, <2>2, <1>0 DEF OneOnScreen
    <3> QED BY <3>2, <3>3, <2>1
  <2>6. ReadForIt' BY <2>5 DEF ReadForIt
  <2> QED BY <2>1, <2>4, <2>6, <1>0
       DEF AnsweredInv, AnsweredAsHeard, OneOnScreen, ReadForIt, Tasks
<1>8. CASE ScreenNext /\ UNCHANGED termVars BY <1>8, <1>1 DEF termVars, heard
<1>9. CASE PromptNext
  <2>1. PICK p \in Prompt :
            \/ Decides(p) \/ SaidAgain(p) \/ HearsClaim(p) \/ HearsRelease(p)
            \/ Settles(p) \/ GoesOn(p) \/ HearsEnd(p)
    BY <1>9 DEF PromptNext
  <2>2. UNCHANGED <<reading, toldAt>>
    BY <2>1 DEF Decides, SaidAgain, HearsClaim, HearsRelease, Settles, GoesOn, HearsEnd, Acts, heard
  <2>3. \/ Starts(p, claimed) \/ Starts(p, claimed') \/ Stops(p) \/ UNCHANGED line
    BY <2>1 DEF Decides, SaidAgain, HearsClaim, HearsRelease, Settles, GoesOn, HearsEnd
  <2> QED BY <2>2, <2>3, <1>1, <1>2, <1>3
<1>10. CASE UNCHANGED vars BY <1>10, <1>1 DEF vars, termVars, heard
<1> QED BY <1>4, <1>5, <1>6, <1>6a, <1>7, <1>8, <1>9, <1>10 DEF Next, LineNext, Tasks

(* A line answers the question that is on the screen as the loop hears of  *)
(* it, though the thread that reads outlives the question it was begun for *)
(* (standalone.py's lock and its reading thread): for any prompts, claims  *)
(* and withdrawals.                                                        *)
THEOREM AnsweredAsHeardCorrect == Spec => []AnsweredAsHeard
<1>1. Init => AskedInv /\ AnsweredInv
  <2>1. Init => line = <<>> /\ line \in Seq(Task)
    BY IsASeq DEF Init, TerminalInit
  <2>2. Init => AnsweredInv BY <2>1 DEF AnsweredInv, AnsweredAsHeard
  <2> QED BY <2>2, AskedInit, TerminalAssumption
<1>2. AskedInv /\ AnsweredInv /\ [Next]_vars => AskedInv' /\ AnsweredInv'
  <2>1. AskedInv => asks \in Nat BY DEF AskedInv, LineInv, QuestionTypes
  <2> QED BY <2>1, AskedStep, AnsweredStep, TerminalAssumption
<1>3. AnsweredInv => AnsweredAsHeard BY DEF AnsweredInv
<1> QED BY <1>1, <1>2, <1>3, PTL DEF Spec

-----------------------------------------------------------------------------
(* The rites on the screen.                                                *)

(* The rites a record says that of, in so many entries; those that go on.  *)
SaidIn(g, n, what) == {r \in Rite : \E i \in 1..n : g[i] = LineOf(r, what)}
OpenIn(g, n) == SaidIn(g, n, Opening) \ SaidIn(g, n, Ending)

(* A set of rites that has, with each, what it is called in.               *)
Rooted(S) == \A r \in S : Under[r] # None => Under[r] \in S

ScreenTypes ==
    /\ did \in [Rite -> SUBSET Int]
    /\ grimoire \in [Followed -> Seq([rite : Rite, what : Int])]
    /\ at \in [Followed -> Nat]
    /\ \A c \in Followed : backlog[c] = None \/ backlog[c] \in 0..Len(grimoire[c])
    /\ backlog \in [Followed -> Nat \cup {None}]
    /\ sink \in [Rite -> Rite \cup {None}]
    /\ started \subseteq Rite /\ open \subseteq known /\ known \subseteq Rite
    /\ \A r \in Rite : Happened(r, Ending) => Happened(r, Opening)

(* What a followed cast recorded is what it did, and at any point of it    *)
(* the rites that go on are called in rites that go on.                    *)
RunsInOrder(g) ==
    \A n \in 0..Len(g) :
        SaidIn(g, n, Ending) \subseteq SaidIn(g, n, Opening) /\ Rooted(OpenIn(g, n))

Recorded(c, g) ==
    /\ \A r \in Rite, what \in {Opening, Ending} :
           r \in SaidIn(g, Len(g), what) <=> Of[r] = c /\ Happened(r, what)
    /\ RunsInOrder(g)

RecordedInOrder == \A c \in Followed : Recorded(c, grimoire[c])

(* A renderer stands where the cast was at some point, however often what  *)
(* came before it is heard again.                                          *)
HeardTo(c, g, n) ==
    \A r \in Rite : Of[r] = c =>
        /\ r \in started <=> r \in SaidIn(g, n, Opening)
        /\ r \in finished <=> r \in SaidIn(g, n, Ending)
        /\ r \in open <=> r \in OpenIn(g, n)

HeardOf(c, g) == \E n \in at[c]..Len(g) : HeardTo(c, g, n)

HeardInOrder == \A c \in Followed : HeardOf(c, grimoire[c])

OwnInOrder == \A r \in Rite : Of[r] = Own => (r \in open <=> Going(r))
OwnRooted == Rooted({r \in Rite : Of[r] = Own /\ Going(r)})

(* The inductive invariant of OneTalks: a rite that begins under one that  *)
(* talks finds there, among those open, what would talk beside it.         *)
ScreenInv ==
    /\ ScreenTypes /\ RecordedInOrder /\ HeardInOrder /\ OwnInOrder /\ OwnRooted
    /\ OneTalks

LEMMA AboveIsIn ==
    ASSUME ScreenAssumption, NEW r \in Rite, NEW S \in SUBSET Rite,
           Under[r] \in S \cup {None}, Rooted(S)
    PROVE  Above[r] \subseteq S
<1>1. {Under[r]} \cup {Under[t] : t \in S} \subseteq S \cup {None} BY DEF Rooted
<1> QED BY <1>1 DEF Above

LEMMA AboveRooted ==
    ASSUME ScreenAssumption, NEW r \in Rite
    PROVE  /\ Above[r] \subseteq Rite /\ Rooted(Above[r])
           /\ Under[r] # None => Under[r] \in Above[r]
<1>1. Above[r] = {s \in Rite : \A S \in SUBSET Rite :
          {Under[r]} \cup {Under[t] : t \in S} \subseteq S \cup {None} => s \in S}
  BY DEF Above
<1>2. \A s \in Rite : Under[s] \in Rite \cup {None} BY DEF ScreenAssumption
<1>3. ASSUME NEW s \in Above[r], Under[s] # None PROVE Under[s] \in Above[r]
  <2>1. s \in Rite /\ Under[s] \in Rite BY <1>1, <1>2, <1>3
  <2>2. ASSUME NEW S \in SUBSET Rite,
               {Under[r]} \cup {Under[t] : t \in S} \subseteq S \cup {None}
        PROVE  Under[s] \in S
    BY <2>2, <1>1, <1>3
  <2> QED BY <2>1, <2>2, <1>1
<1>4. Under[r] # None => Under[r] \in Above[r]
  BY <1>1, <1>2
<1> QED BY <1>1, <1>3, <1>4 DEF Rooted

LEMMA AboveOfOneCast ==
    ASSUME ScreenAssumption, NEW r \in Rite, NEW s \in Above[r]
    PROVE  Of[s] = Of[r]
<1> DEFINE S == {t \in Rite : Of[t] = Of[r]}
<1>1. \A t \in Rite : Under[t] # None => Under[t] \in Rite /\ Of[Under[t]] = Of[t]
  BY DEF ScreenAssumption
<1>2. Under[r] \in S \cup {None} /\ Rooted(S) BY <1>1 DEF Rooted
<1> HIDE DEF S
<1>3. Above[r] \subseteq S BY <1>2, AboveIsIn DEF S
<1> QED BY <1>3 DEF S

LEMMA AboveThrough ==
    ASSUME ScreenAssumption, NEW r \in Rite, Under[r] # None
    PROVE  Under[r] \in Rite /\ Above[Under[r]] \subseteq Above[r]
<1>1. Under[r] \in Rite BY DEF ScreenAssumption
<1>2. Rooted(Above[r]) /\ Under[r] \in Above[r] /\ Above[r] \subseteq Rite BY AboveRooted
<1>3. Under[Under[r]] \in Above[r] \cup {None} BY <1>2 DEF Rooted
<1> QED BY <1>1, <1>2, <1>3, AboveIsIn

(* On the way up from a rite to one above it, a rite is called in that.    *)
LEMMA CalledInIt ==
    ASSUME ScreenAssumption, NEW s \in Rite, NEW p \in Above[s]
    PROVE  \E x \in {s} \cup Above[s] : Under[x] = p
<1> SUFFICES ASSUME \A x \in {s} \cup Above[s] : Under[x] # p PROVE FALSE
  OBVIOUS
<1> DEFINE S == Above[s] \ {p}
<1>1. Above[s] \subseteq Rite /\ Rooted(Above[s]) /\ (Under[s] # None => Under[s] \in Above[s])
  BY AboveRooted
<1>2. S \subseteq Rite /\ Rooted(S) /\ Under[s] \in S \cup {None} BY <1>1 DEF Rooted
<1> HIDE DEF S
<1>3. Above[s] \subseteq S BY <1>2, AboveIsIn
<1> QED BY <1>3 DEF S

LEMMA CalledInNone ==
    ASSUME ScreenAssumption, NEW s \in Rite
    PROVE  \E x \in {s} \cup Above[s] : Under[x] = None
<1>1. Above[s] \subseteq Rite /\ Rooted(Above[s]) /\ (Under[s] # None => Under[s] \in Above[s])
  BY AboveRooted
<1>2. PICK x \in {s} \cup Above[s] : Under[x] \notin {s} \cup Above[s]
  <2>1. {s} \cup Above[s] \in SUBSET Rite BY <1>1
  <2> QED BY <2>1 DEF ScreenAssumption
<1> QED BY <1>1, <1>2 DEF Rooted

-----------------------------------------------------------------------------
(* What a renderer makes of an event.                                      *)

LEMMA BeganRenders ==
    ASSUME ScreenAssumption, ScreenTypes, NEW r \in Rite, Becomes(Began(Rendered, r))
    PROVE  LET beside == {s \in open \ {r} : Of[s] = Of[r] /\ Under[s] = Under[r]}
               keep == IF beside = {} THEN {} ELSE beside \cup {r}
           IN  /\ known' = known \cup {r} /\ open' = open \cup {r}
               /\ \/ /\ Under[r] \in known /\ sink[Under[r]] # None
                     /\ sink' = [sink EXCEPT ![r] = sink[Under[r]]]
                  \/ /\ Under[r] \notin known \/ sink[Under[r]] = None
                     /\ sink' = [s \in Rite |-> IF s \in keep THEN s ELSE sink[s]]
<1> DEFINE beside == {s \in open \ {r} : Of[s] = Of[r] /\ Under[s] = Under[r]}
           keep == IF beside = {} THEN {} ELSE beside \cup {r}
           new == [Rendered EXCEPT !.known = @ \cup {r}, !.open = @ \cup {r}]
           text == LineOf(r, Opening)
<1>1. Siblings(Rendered, r) = beside BY DEF Siblings, Rendered
<1>2. /\ Rendered.known = known /\ Rendered.open = open /\ Rendered.sink = sink
  BY DEF Rendered
<1>3. /\ new.known = known \cup {r} /\ new.open = open \cup {r} /\ new.sink = sink
      /\ DOMAIN new = {"known", "open", "sink", "buffer", "printed", "tail"}
  <2>1. DOMAIN Rendered = {"known", "open", "sink", "buffer", "printed", "tail"}
    BY DEF Rendered
  <2> QED BY <1>2, <2>1
<1>4. CASE Under[r] \in known /\ sink[Under[r]] # None
  <2> DEFINE parent == sink[Under[r]]
             sunk == [new EXCEPT !.sink[r] = parent]
  <2>1. Began(Rendered, r) = Emits(sunk, parent, text)
    BY <1>4, <1>2 DEF Began, Opens
  <2>2. Emits(sunk, parent, text) = [sunk EXCEPT !.buffer[parent] = Append(@, text)]
    BY <1>4 DEF Emits
  <2> HIDE DEF parent, new, text
  <2>3. /\ sunk.known = known \cup {r} /\ sunk.open = open \cup {r}
        /\ sunk.sink = [sink EXCEPT ![r] = parent]
    BY <1>3
  <2>4. DOMAIN sunk = {"known", "open", "sink", "buffer", "printed", "tail"}
    BY <1>3
  <2> HIDE DEF sunk
  <2>5. /\ Emits(sunk, parent, text).known = known \cup {r}
        /\ Emits(sunk, parent, text).open = open \cup {r}
        /\ Emits(sunk, parent, text).sink = [sink EXCEPT ![r] = parent]
    BY <2>2, <2>3, <2>4
  <2> QED BY <2>1, <2>5, <1>4 DEF Becomes, parent
<1>5. CASE ~(Under[r] \in known /\ sink[Under[r]] # None)
  <2> DEFINE kept == [new EXCEPT !.sink = [s \in Rite |-> IF s \in keep THEN s ELSE @[s]]]
  <2>1. Began(Rendered, r) = Prints(kept, text)
    BY <1>5, <1>1, <1>2 DEF Began, Opens
  <2> HIDE DEF new, text, keep
  <2>2. /\ kept.known = known \cup {r} /\ kept.open = open \cup {r}
        /\ kept.sink = [s \in Rite |-> IF s \in keep THEN s ELSE sink[s]]
    BY <1>3
  <2>3. DOMAIN kept = {"known", "open", "sink", "buffer", "printed", "tail"}
    BY <1>3
  <2> HIDE DEF kept
  <2>4. /\ Prints(kept, text).known = kept.known
        /\ Prints(kept, text).open = kept.open
        /\ Prints(kept, text).sink = kept.sink
    BY <2>3 DEF Prints
  <2> QED BY <2>1, <2>2, <2>4, <1>5 DEF Becomes, keep
<1> QED BY <1>4, <1>5

Fields == {"known", "open", "sink", "buffer", "printed", "tail"}
Alike(new, out) ==
    DOMAIN new = Fields /\ new.known = out.known /\ new.open = out.open /\ new.sink = out.sink

(* What is written changes no table of a renderer.                         *)
LEMMA WritingAlike ==
    ASSUME NEW out, DOMAIN out = Fields, NEW text, NEW into, NEW lines, NEW r
    PROVE  /\ Alike(Prints(out, text), out) /\ Alike(PrintsAll(out, lines), out)
           /\ Alike(Emits(out, into, text), out) /\ Alike(TakesBack(out, r), out)
<1>1. Alike(Prints(out, text), out)
  BY DEF Prints, Alike, Fields
<1>2. Alike(PrintsAll(out, lines), out)
  BY DEF PrintsAll, Alike, Fields
<1>3. Alike([out EXCEPT !.buffer[into] = Append(@, text)], out)
  BY DEF Alike, Fields
<1>4. Alike(Emits(out, into, text), out)
  BY <1>1, <1>3 DEF Emits
<1>5. Alike(TakesBack(out, r), out)
  <2>1. CASE Shown(out, r)
    <3> DEFINE less == [out.printed EXCEPT ![out.tail.last.rite] = Front(@)]
               more == [less EXCEPT ![r] = Append(@, Ending)]
    <3>1. TakesBack(out, r) = [out EXCEPT !.tail.last = LineOf(r, Ending), !.printed = more]
      BY <2>1 DEF TakesBack
    <3> HIDE DEF less, more
    <3> QED BY <3>1 DEF Alike, Fields
  <2>2. CASE ~Shown(out, r)
    <3> DEFINE l == LineOf(r, Ending)
    <3>1. TakesBack(out, r) = [out EXCEPT !.buffer[out.sink[r]] = Append(Front(@), l)]
      BY <2>2 DEF TakesBack
    <3> HIDE DEF l
    <3> QED BY <3>1 DEF Alike, Fields
  <2> QED BY <2>1, <2>2
<1> QED BY <1>1, <1>2, <1>4, <1>5

LEMMA StreamedRenders ==
    ASSUME NEW r, NEW n, Becomes(Streamed(Rendered, r, n))
    PROVE  UNCHANGED <<known, open, sink>>
<1>1. /\ DOMAIN Rendered = Fields
      /\ Rendered.known = known /\ Rendered.open = open /\ Rendered.sink = sink
  BY DEF Rendered, Fields
<1>2. Alike(Streamed(Rendered, r, n), Rendered)
  BY <1>1, WritingAlike DEF Streamed
<1> QED BY <1>1, <1>2 DEF Becomes, Alike

LEMMA WrittenRenders ==
    ASSUME NEW text, Written(text) PROVE UNCHANGED <<known, open, sink>>
<1>1. /\ DOMAIN Rendered = Fields
      /\ Rendered.known = known /\ Rendered.open = open /\ Rendered.sink = sink
  BY DEF Rendered, Fields
<1>2. Alike(Prints(Rendered, text), Rendered) BY <1>1, WritingAlike
<1> QED BY <1>1, <1>2 DEF Written, Becomes, Alike

LEMMA EndedRenders ==
    ASSUME NEW r, Becomes(Ended(Rendered, r))
    PROVE  /\ known' = known /\ open' = open \ {r}
           /\ sink' = sink \/ sink' = [sink EXCEPT ![r] = None]
<1> DEFINE closed == [Rendered EXCEPT !.open = @ \ {r}]
           quiet == [closed EXCEPT !.buffer[r] = <<>>, !.sink[r] = None]
           told == IF Rendered.sink[r] = r THEN PrintsAll(quiet, Rendered.buffer[r]) ELSE closed
<1>1. /\ DOMAIN Rendered = Fields
      /\ Rendered.known = known /\ Rendered.open = open /\ Rendered.sink = sink
  BY DEF Rendered, Fields
<1>2. /\ DOMAIN closed = Fields
      /\ closed.known = known /\ closed.open = open \ {r} /\ closed.sink = sink
  BY <1>1 DEF Fields
<1>3. Ended(Rendered, r) =
          IF r \notin Rendered.known THEN Prints(closed, LineOf(r, Ending))
          ELSE IF GivesWay(told, r) THEN TakesBack(told, r)
          ELSE Emits(told, told.sink[r], LineOf(r, Ending))
  BY DEF Ended
<1> HIDE DEF closed
<1>4. /\ DOMAIN quiet = Fields
      /\ quiet.known = known /\ quiet.open = open \ {r} /\ quiet.sink = [sink EXCEPT ![r] = None]
  BY <1>2 DEF Fields
<1> HIDE DEF quiet
<1>5. /\ DOMAIN told = Fields
      /\ told.known = known /\ told.open = open \ {r}
      /\ told.sink = sink \/ told.sink = [sink EXCEPT ![r] = None]
  BY <1>2, <1>4, WritingAlike DEF Alike
<1> HIDE DEF told
<1> DEFINE new == Ended(Rendered, r)
<1>6. \/ Alike(new, closed) \/ Alike(new, told)
  BY <1>2, <1>3, <1>5, WritingAlike
<1>7. /\ new.known = known /\ new.open = open \ {r}
      /\ new.sink = sink \/ new.sink = [sink EXCEPT ![r] = None]
  BY <1>2, <1>5, <1>6 DEF Alike
<1> QED BY <1>7 DEF Becomes

-----------------------------------------------------------------------------
(* Of one cast, one talks in the other.                                    *)

LEMMA BeganTalks ==
    ASSUME ScreenAssumption, ScreenTypes, Rooted(open), OneTalks,
           NEW r \in Rite \ open, Under[r] # None => Under[r] \in open,
           Becomes(Began(Rendered, r))
    PROVE  OneTalks'
<1> DEFINE beside == {s \in open \ {r} : Of[s] = Of[r] /\ Under[s] = Under[r]}
           keep == IF beside = {} THEN {} ELSE beside \cup {r}
<1>1. /\ known' = known \cup {r} /\ open' = open \cup {r}
      /\ \/ /\ Under[r] \in known /\ sink[Under[r]] # None
            /\ sink' = [sink EXCEPT ![r] = sink[Under[r]]]
         \/ /\ Under[r] \notin known \/ sink[Under[r]] = None
            /\ sink' = [s \in Rite |-> IF s \in keep THEN s ELSE sink[s]]
  BY BeganRenders
<1>2. /\ sink \in [Rite -> Rite \cup {None}] /\ open \subseteq known /\ known \subseteq Rite
      /\ None \notin Rite
  BY DEF ScreenTypes, ScreenAssumption
<1>3. \A s \in Rite \ {r} : sink'[s] = None => sink[s] = None
  BY <1>1, <1>2
<1>4. ASSUME sink'[r] = None
      PROVE  beside = {} /\ (Under[r] # None => sink[Under[r]] = None)
  BY <1>4, <1>1, <1>2
<1> HIDE DEF beside, keep
(* What talks already, with a rite that begins to talk.                    *)
<1>5. ASSUME NEW s \in open, Of[s] = Of[r], sink[s] = None, sink'[r] = None
      PROVE  r \in Above[s] \/ s \in Above[r]
  <2>1. s \in Rite BY <1>2
  <2>2. Under[s] \in open \cup {None} BY DEF Rooted
  <2>3. Above[s] \subseteq open BY <2>1, <2>2, <1>2, AboveIsIn
  <2>4. ASSUME NEW x \in {s} \cup Above[s], Under[x] = Under[r] PROVE FALSE
    <3>1. x \in open /\ x # r /\ Of[x] = Of[r] BY <2>1, <2>3, <1>5, AboveOfOneCast
    <3> QED BY <3>1, <2>4, <1>4, <1>5 DEF beside
  <2>5. CASE Under[r] = None
    <3>1. PICK x \in {s} \cup Above[s] : Under[x] = None BY <2>1, CalledInNone
    <3> QED BY <3>1, <2>4, <2>5
  <2>6. CASE Under[r] # None
    <3> DEFINE p == Under[r]
    <3>1. p \in open /\ p \in Rite /\ sink[p] = None /\ Of[p] = Of[r]
      BY <2>6, <1>2, <1>4, <1>5 DEF ScreenAssumption
    <3>2. p \in Above[r] /\ Above[p] \subseteq Above[r]
      BY <2>6, AboveRooted, AboveThrough
    <3>3. CASE s = p BY <3>2, <3>3
    <3>4. CASE s \in Above[p] BY <3>2, <3>4
    <3>5. CASE p \in Above[s]
      <4>1. PICK x \in {s} \cup Above[s] : Under[x] = p BY <2>1, <3>5, CalledInIt
      <4> QED BY <4>1, <2>4
    <3>6. s = p \/ s \in Above[p] \/ p \in Above[s]
      BY <3>1, <1>5 DEF OneTalks
    <3> QED BY <3>3, <3>4, <3>5, <3>6
  <2> QED BY <2>5, <2>6
<1>6. SUFFICES ASSUME NEW a \in open', NEW b \in open',
                      a # b, Of[a] = Of[b], sink'[a] = None, sink'[b] = None
               PROVE  a \in Above[b] \/ b \in Above[a]
  BY DEF OneTalks
<1>7. CASE a = r
  <2>1. b \in open /\ sink[b] = None BY <1>7, <1>6, <1>1, <1>2, <1>3
  <2> QED BY <2>1, <1>7, <1>6, <1>5
<1>8. CASE b = r
  <2>1. a \in open /\ sink[a] = None BY <1>8, <1>6, <1>1, <1>2, <1>3
  <2> QED BY <2>1, <1>8, <1>6, <1>5
<1>9. CASE a # r /\ b # r
  <2>1. a \in open /\ b \in open /\ sink[a] = None /\ sink[b] = None
    BY <1>9, <1>6, <1>1, <1>2, <1>3
  <2> QED BY <2>1, <1>6 DEF OneTalks
<1> QED BY <1>7, <1>8, <1>9

LEMMA FewerTalk ==
    ASSUME ScreenTypes, OneTalks, NEW r, open' \subseteq open,
           sink' = sink \/ (r \notin open' /\ sink' = [sink EXCEPT ![r] = None])
    PROVE  OneTalks'
<1>1. \A s \in open' : sink'[s] = sink[s] BY DEF ScreenTypes
<1> QED BY <1>1 DEF OneTalks

-----------------------------------------------------------------------------
(* What is recorded, and what of it is heard.                              *)

LEMMA EventsDiffer ==
    /\ Opening # Ending
    /\ \A r, s, v, w : LineOf(r, v) = LineOf(s, w) <=> r = s /\ v = w
    /\ \A r, v : LineOf(r, v).rite = r /\ LineOf(r, v).what = v
  BY DEF Opening, Ending, LineOf

LEMMA SaidNext ==
    ASSUME NEW g, NEW n \in Nat, NEW what
    PROVE  SaidIn(g, n + 1, what) =
               SaidIn(g, n, what) \cup {r \in Rite : g[n + 1] = LineOf(r, what)}
<1>1. 1..n + 1 = (1..n) \cup {n + 1} OBVIOUS
<1> QED BY <1>1 DEF SaidIn

LEMMA RendersTypes ==
    ASSUME ScreenAssumption, ScreenTypes, NEW e, e.what = Opening => e.rite \in Rite, Renders(e)
    PROVE  /\ open' \subseteq known' /\ known' \subseteq Rite
           /\ sink' \in [Rite -> Rite \cup {None}]
<1>0. /\ sink \in [Rite -> Rite \cup {None}] /\ open \subseteq known /\ known \subseteq Rite
  BY DEF ScreenTypes
<1>1. CASE e.what = Opening
  <2> DEFINE r == e.rite
             beside == {s \in open \ {r} : Of[s] = Of[r] /\ Under[s] = Under[r]}
             keep == IF beside = {} THEN {} ELSE beside \cup {r}
  <2>1. Becomes(Began(Rendered, r)) /\ r \in Rite BY <1>1, EventsDiffer DEF Renders
  <2>2. /\ known' = known \cup {r} /\ open' = open \cup {r}
        /\ \/ /\ Under[r] \in known /\ sink[Under[r]] # None
              /\ sink' = [sink EXCEPT ![r] = sink[Under[r]]]
           \/ /\ Under[r] \notin known \/ sink[Under[r]] = None
              /\ sink' = [s \in Rite |-> IF s \in keep THEN s ELSE sink[s]]
    BY <2>1, BeganRenders
  <2> QED BY <2>1, <2>2, <1>0
<1>2. CASE e.what = Ending
  <2>1. Becomes(Ended(Rendered, e.rite)) BY <1>2, EventsDiffer DEF Renders
  <2>2. /\ known' = known /\ open' = open \ {e.rite}
        /\ sink' = sink \/ sink' = [sink EXCEPT ![e.rite] = None]
    BY <2>1, EndedRenders
  <2> QED BY <2>2, <1>0
<1>3. CASE e.what \notin {Opening, Ending}
  <2>1. Becomes(Streamed(Rendered, e.rite, e.what)) BY <1>3 DEF Renders
  <2>2. UNCHANGED <<known, open, sink>> BY <2>1, StreamedRenders
  <2> QED BY <2>2, <1>0
<1> QED BY <1>1, <1>2, <1>3

LEMMA OpenRooted ==
    ASSUME ScreenAssumption, ScreenTypes, RecordedInOrder, HeardInOrder, OwnInOrder, OwnRooted
    PROVE  Rooted(open)
<1> SUFFICES ASSUME NEW r \in open, Under[r] # None PROVE Under[r] \in open
  BY DEF Rooted
<1>1. r \in Rite /\ Under[r] \in Rite /\ Of[Under[r]] = Of[r] /\ Of[r] \in Followed \cup {Own}
  BY DEF ScreenTypes, ScreenAssumption
<1>2. CASE Of[r] = Own
  BY <1>1, <1>2 DEF OwnInOrder, OwnRooted, Rooted
<1>3. CASE Of[r] \in Followed
  <2> DEFINE c == Of[r]
  <2>1. PICK n \in at[c]..Len(grimoire[c]) : HeardTo(c, grimoire[c], n)
    BY <1>3 DEF HeardInOrder, HeardOf
  <2>2. n \in 0..Len(grimoire[c])
    BY <1>3, <2>1, LenProperties DEF ScreenTypes
  <2>3. r \in OpenIn(grimoire[c], n) BY <1>1, <2>1 DEF HeardTo
  <2>4. Under[r] \in OpenIn(grimoire[c], n)
    BY <1>3, <2>2, <2>3 DEF RecordedInOrder, Recorded, RunsInOrder, Rooted
  <2> QED BY <1>1, <2>1, <2>4 DEF HeardTo
<1> QED BY <1>1, <1>2, <1>3

(* What is heard: nothing new, or the next of what was said.               *)
LEMMA Heard ==
    ASSUME ScreenAssumption, ScreenTypes, OneTalks, Rooted(open),
           NEW c \in Followed, NEW g \in Seq([rite : Rite, what : Int]), RunsInOrder(g),
           NEW n \in at[c]..Len(g), HeardTo(c, g, n), at[c] < Len(g),
           \A r \in Rite, what \in {Opening, Ending} : r \in SaidIn(g, Len(g), what) => Of[r] = c,
           Hear(c, g[at[c] + 1])
    PROVE  /\ \E m \in at'[c]..Len(g) :
                  m = (IF at[c] < n THEN n ELSE n + 1) /\ HeardTo(c, g, m)'
           /\ \A s \in Rite : Of[s] # c =>
                  /\ s \in started' <=> s \in started
                  /\ s \in finished' <=> s \in finished
                  /\ s \in open' <=> s \in open
           /\ OneTalks'
           /\ open' \subseteq known' /\ known' \subseteq Rite /\ started' \subseteq Rite
           /\ sink' \in [Rite -> Rite \cup {None}]
<1>1. /\ at \in [Followed -> Nat] /\ sink \in [Rite -> Rite \cup {None}]
      /\ started \subseteq Rite /\ open \subseteq known /\ known \subseteq Rite
  BY DEF ScreenTypes
<1>2. Len(g) \in Nat /\ \A i \in 1..Len(g) : g[i] \in [rite : Rite, what : Int]
  <2> DEFINE T == [rite : Rite, what : Int]
  <2>1. g \in Seq(T) OBVIOUS
  <2> HIDE DEF T
  <2>2. Len(g) \in Nat /\ g \in [1..Len(g) -> T] BY <2>1, LenProperties
  <2> QED BY <2>2 DEF T
<1>3. PICK k \in 1..Len(g) : k = at[c] + 1
  BY <1>1, <1>2
<1>4. n \in Nat /\ (k <= n \/ k = n + 1)
  BY <1>1, <1>2, <1>3
<1>5. PICK e \in [rite : Rite, what : Int] : e = g[k] BY <1>2
<1> DEFINE r == e.rite
<1>6. /\ at' = [at EXCEPT ![c] = @ + 1]
      /\ started' = IF e.what = Opening THEN started \cup {r} ELSE started
      /\ finished' = IF e.what = Ending THEN finished \cup {r} ELSE finished
      /\ IF News(c, e) THEN Renders(e) ELSE UNCHANGED rendered
  BY <1>3, <1>5 DEF Hear
<1>7. at'[c] = k BY <1>1, <1>3, <1>6
<1>8. r \in Rite /\ \A s, w : e = LineOf(s, w) <=> s = r /\ w = e.what
  BY <1>5 DEF LineOf
<1> HIDE DEF r
<1>9. ASSUME k = n + 1, NEW w \in {Opening, Ending}
      PROVE  SaidIn(g, n + 1, w) = SaidIn(g, n, w) \cup (IF e.what = w THEN {r} ELSE {})
  <2>1. SaidIn(g, n + 1, w) = SaidIn(g, n, w) \cup {s \in Rite : g[n + 1] = LineOf(s, w)}
    <3>1. n \in Nat
      BY <1>4
    <3> QED BY ONLY <3>1, SaidNext
  <2>2. {s \in Rite : g[n + 1] = LineOf(s, w)} = (IF e.what = w THEN {r} ELSE {})
    BY <1>9, <1>5, <1>8
  <2> QED BY <2>1, <2>2
<1>10. k <= n => \A w \in {Opening, Ending} : e.what = w => r \in SaidIn(g, n, w)
  <2>1. k <= n => k \in 1..n BY <1>4
  <2> QED BY <2>1, <1>5, <1>8 DEF SaidIn
<1>11. e.what \in {Opening, Ending} => Of[r] = c
  <2>1. e.what \in {Opening, Ending} => r \in SaidIn(g, Len(g), e.what)
    BY <1>3, <1>5, <1>8 DEF SaidIn
  <2> QED BY <2>1, <1>8
<1>12. UNCHANGED rendered => UNCHANGED <<known, open, sink>> BY DEF rendered
<1>18. k = n + 1 => ~(at[c] < n) BY <1>1, <1>3, <1>4
<1>13. /\ open' \subseteq known' /\ known' \subseteq Rite /\ started' \subseteq Rite
       /\ sink' \in [Rite -> Rite \cup {None}]
  <2>1. e.what = Opening => e.rite \in Rite BY <1>8 DEF r
  <2>2. started' \subseteq Rite BY <1>1, <1>6, <1>8
  <2>3. CASE News(c, e) BY <2>1, <2>2, <2>3, <1>6, RendersTypes
  <2>4. CASE ~News(c, e) BY <2>2, <2>4, <1>1, <1>6, <1>12
  <2> QED BY <2>3, <2>4
(* Nothing but what a rite says.                                           *)
<1>14. CASE e.what \notin {Opening, Ending}
  <2>1. UNCHANGED <<open, sink, started, finished>>
    <3>1. CASE News(c, e)
      <4>1. Becomes(Streamed(Rendered, e.rite, e.what)) BY <3>1, <1>14, <1>6 DEF Renders
      <4> QED BY <4>1, <1>14, <1>6, StreamedRenders
    <3>2. CASE ~News(c, e) BY <3>2, <1>14, <1>6, <1>12
    <3> QED BY <3>1, <3>2
  <2>2. PICK m \in k..Len(g) :
            /\ m = (IF at[c] < n THEN n ELSE n + 1)
            /\ \A w \in {Opening, Ending} : SaidIn(g, m, w) = SaidIn(g, n, w)
    <3>1. CASE k <= n
      <4>1. n \in k..Len(g) /\ at[c] < n BY <3>1, <1>1, <1>3, <1>4
      <4> QED BY <4>1
    <3>2. CASE k = n + 1
      <4>1. k \in k..Len(g) /\ ~(at[c] < n) BY <3>2, <1>1, <1>3, <1>4
      <4> QED BY <4>1, <3>2, <1>9, <1>14
    <3> QED BY <3>1, <3>2, <1>4
  <2>3. HeardTo(c, g, m)' BY <2>1, <2>2 DEF HeardTo, OpenIn
  <2>4. OneTalks' BY <2>1 DEF OneTalks
  <2> QED BY <2>1, <2>2, <2>3, <2>4, <1>7, <1>13
(* What it heard before, said again.                                       *)
<1>15. CASE e.what \in {Opening, Ending} /\ k <= n
  <2>1. r \in SaidIn(g, n, e.what) /\ Of[r] = c BY <1>15, <1>10, <1>11
  <2>2. e.what = Opening => r \in started /\ started' = started
    BY <2>1, <1>6, <1>8 DEF HeardTo
  <2>3. e.what = Ending => r \in finished /\ finished' = finished
    BY <2>1, <1>6, <1>8 DEF HeardTo
  <2>4. ~News(c, e) BY <2>2, <2>3, <1>15, EventsDiffer DEF News, r
  <2>5. UNCHANGED <<open, sink, started, finished>>
    BY <2>2, <2>3, <2>4, <1>6, <1>12, <1>15, EventsDiffer
  <2>6. n \in k..Len(g) /\ at[c] < n BY <1>15, <1>1, <1>3, <1>4
  <2>7. HeardTo(c, g, n)' BY <2>5 DEF HeardTo
  <2>8. OneTalks' BY <2>5 DEF OneTalks
  <2> QED BY <2>5, <2>6, <2>7, <2>8, <1>7, <1>13
(* A rite begins.                                                          *)
<1>16. CASE e.what = Opening /\ k = n + 1
  <2>1. /\ SaidIn(g, k, Opening) = SaidIn(g, n, Opening) \cup {r}
        /\ SaidIn(g, k, Ending) = SaidIn(g, n, Ending)
    <3>1. SaidIn(g, n + 1, Opening) =
              SaidIn(g, n, Opening) \cup (IF e.what = Opening THEN {r} ELSE {})
      BY <1>9, <1>16
    <3>2. SaidIn(g, n + 1, Ending) =
              SaidIn(g, n, Ending) \cup (IF e.what = Ending THEN {r} ELSE {})
      BY <1>9, <1>16
    <3>3. SaidIn(g, k, Ending) = SaidIn(g, n, Ending) \cup {} BY <3>2, <1>16, EventsDiffer
    <3> QED BY <3>1, <3>3, <1>16
  <2>2. Of[r] = c /\ started' = started \cup {r} /\ finished' = finished
    BY <1>6, <1>11, <1>16, EventsDiffer
  <2>3. k \in 0..Len(g) /\ n \in 0..Len(g) /\ k \in k..Len(g) BY <1>3, <1>4
  <2>4. SaidIn(g, n, Ending) \subseteq SaidIn(g, n, Opening) /\ Rooted(OpenIn(g, k))
    BY <2>3 DEF RunsInOrder
  <2>5. CASE r \in started
    <3>1. r \in SaidIn(g, n, Opening) BY <2>2, <2>5, <1>8 DEF HeardTo
    <3>2. ~News(c, e) BY <2>5, <1>16, EventsDiffer DEF News, r
    <3>3. UNCHANGED <<open, sink, started, finished>> BY <3>2, <2>2, <2>5, <1>6, <1>12
    <3>4. HeardTo(c, g, k)' BY <3>1, <3>3, <2>1 DEF HeardTo, OpenIn
    <3>5. OneTalks' BY <3>3 DEF OneTalks
    <3> QED BY <3>3, <3>4, <3>5, <2>3, <1>7, <1>13, <1>16, <1>18
  <2>6. CASE r \notin started
    <3>1. r \notin SaidIn(g, n, Opening) /\ r \notin SaidIn(g, n, Ending) /\ r \notin open
      BY <2>2, <2>4, <2>6, <1>8 DEF HeardTo, OpenIn
    <3>2. Becomes(Began(Rendered, r))
      <4>1. News(c, e) BY <2>6, <1>16, EventsDiffer DEF News, r
      <4>2. Renders(e) BY <4>1, <1>6
      <4> QED BY <4>2, <1>16, EventsDiffer DEF Renders, r
    <3>3. open' = open \cup {r} BY <3>2, <1>8, BeganRenders
    <3>4. r \in OpenIn(g, k) BY <3>1, <2>1 DEF OpenIn
    <3>5. Under[r] # None => Under[r] \in open
      <4> SUFFICES ASSUME Under[r] # None PROVE Under[r] \in open
        OBVIOUS
      <4>1. Under[r] \in OpenIn(g, k) BY <3>4, <2>4 DEF Rooted
      <4>2. Under[r] # r
        <5>1. {r} \in SUBSET Rite /\ {r} # {} BY <1>8
        <5> QED BY <5>1 DEF ScreenAssumption
      <4>3. Under[r] \in OpenIn(g, n) BY <4>1, <4>2, <2>1 DEF OpenIn
      <4>4. Under[r] \in Rite /\ Of[Under[r]] = c BY <2>2, <1>8 DEF ScreenAssumption
      <4> QED BY <4>3, <4>4 DEF HeardTo
    <3>6. OneTalks' BY <3>1, <3>2, <3>5, <1>8, BeganTalks
    <3>7. HeardTo(c, g, k)' BY <3>1, <3>3, <2>1, <2>2 DEF HeardTo, OpenIn
    <3>8. \A s \in Rite : Of[s] # c =>
              /\ s \in started' <=> s \in started
              /\ s \in finished' <=> s \in finished
              /\ s \in open' <=> s \in open
      BY <3>3, <2>2
    <3> QED BY <3>6, <3>7, <3>8, <2>3, <1>7, <1>13, <1>16, <1>18
  <2> QED BY <2>5, <2>6
(* A rite ends.                                                            *)
<1>17. CASE e.what = Ending /\ k = n + 1
  <2>1. /\ SaidIn(g, k, Opening) = SaidIn(g, n, Opening)
        /\ SaidIn(g, k, Ending) = SaidIn(g, n, Ending) \cup {r}
    <3>1. SaidIn(g, n + 1, Opening) =
              SaidIn(g, n, Opening) \cup (IF e.what = Opening THEN {r} ELSE {})
      BY <1>9, <1>17
    <3>2. SaidIn(g, n + 1, Ending) =
              SaidIn(g, n, Ending) \cup (IF e.what = Ending THEN {r} ELSE {})
      BY <1>9, <1>17
    <3>3. SaidIn(g, k, Opening) = SaidIn(g, n, Opening) \cup {} BY <3>1, <1>17, EventsDiffer
    <3> QED BY <3>2, <3>3, <1>17
  <2>2. Of[r] = c /\ started' = started /\ finished' = finished \cup {r}
    BY <1>6, <1>11, <1>17, EventsDiffer
  <2>3. k \in k..Len(g) BY <1>3
  <2>4. /\ open' = open \ {r}
        /\ sink' = sink \/ sink' = [sink EXCEPT ![r] = None]
    <3>1. CASE News(c, e)
      <4>1. Becomes(Ended(Rendered, r)) BY <3>1, <1>6, <1>17, EventsDiffer DEF Renders, r
      <4> QED BY <4>1, EndedRenders
    <3>2. CASE ~News(c, e)
      <4>1. r \in finished BY <3>2, <1>17, EventsDiffer DEF News, r
      <4>2. r \notin open BY <4>1, <2>2, <1>8 DEF HeardTo, OpenIn
      <4> QED BY <4>2, <3>2, <1>6, <1>12
    <3> QED BY <3>1, <3>2
  <2>5. OneTalks' BY <2>4, FewerTalk
  <2>6. HeardTo(c, g, k)' BY <2>1, <2>2, <2>4 DEF HeardTo, OpenIn
  <2>7. \A s \in Rite : Of[s] # c =>
            /\ s \in started' <=> s \in started
            /\ s \in finished' <=> s \in finished
            /\ s \in open' <=> s \in open
    BY <2>2, <2>4
  <2> QED BY <2>3, <2>5, <2>6, <2>7, <1>7, <1>13, <1>17, <1>18
<1> QED BY <1>4, <1>14, <1>15, <1>16, <1>17

-----------------------------------------------------------------------------
(* Steps of the rites.                                                     *)

(* A rite begins under one that goes on, and ends when none does under it. *)
InTurn(r, what) ==
    /\ what = Opening =>
           ~Happened(r, Opening) /\ (Under[r] # None => Going(Under[r]))
    /\ what = Ending =>
           Going(r) /\ \A s \in Rite : Under[s] = r => ~Going(s)
    /\ what \notin {Opening, Ending} =>
           Going(r) /\ ~Happened(r, what) /\ what >= 1 /\ (what > 1 => Happened(r, what - 1))

Event == [rite : Rite, what : Int]

(* A record and an entry that follows it.                                  *)
Follows(h, g, e) ==
    /\ Len(h) = Len(g) + 1 /\ h[Len(g) + 1] = e
    /\ \A i \in 1..Len(g) : h[i] = g[i]

LEMMA EventAppended ==
    ASSUME NEW g \in Seq(Event), NEW e \in Event
    PROVE  Append(g, e) \in Seq(Event) /\ Follows(Append(g, e), g, e)
<1> HIDE DEF Event
<1> QED BY AppendProperties DEF Follows

LEMMA SaidBefore ==
    ASSUME NEW g, Len(g) \in Nat, NEW h, NEW e, Follows(h, g, e), NEW n \in 0..Len(g), NEW w
    PROVE  SaidIn(h, n, w) = SaidIn(g, n, w)
<1>1. \A i \in 1..n : i \in 1..Len(g) OBVIOUS
<1>2. \A i \in 1..n : h[i] = g[i] BY <1>1 DEF Follows
<1> QED BY <1>2 DEF SaidIn

LEMMA SaidFollows ==
    ASSUME NEW g, Len(g) \in Nat, NEW h, NEW e, Follows(h, g, e), NEW w
    PROVE  SaidIn(h, Len(g) + 1, w) =
               SaidIn(g, Len(g), w) \cup {s \in Rite : e = LineOf(s, w)}
<1>1. Len(g) \in 0..Len(g) OBVIOUS
<1>2. SaidIn(h, Len(g) + 1, w) =
          SaidIn(h, Len(g), w) \cup {s \in Rite : h[Len(g) + 1] = LineOf(s, w)}
  BY SaidNext
<1>3. SaidIn(h, Len(g), w) = SaidIn(g, Len(g), w) BY <1>1, SaidBefore
<1> QED BY <1>2, <1>3 DEF Follows

(* What a cast does is the next entry of its record.                       *)
LEMMA RecordedNext ==
    ASSUME \A s \in Rite : Under[s] # None => Under[s] \in Rite /\ Of[Under[s]] = Of[s],
           NEW c \in Followed, NEW r \in Rite, Of[r] = c,
           NEW g \in Seq(Event), Recorded(c, g), NEW what \in Int, InTurn(r, what),
           \A s \in Rite : did'[s] = IF s = r THEN did[s] \cup {what} ELSE did[s],
           NEW h, Follows(h, g, LineOf(r, what))
    PROVE  Recorded(c, h)'
<1> DEFINE e == LineOf(r, what)
<1>1. e \in Event /\ \A s, w : e = LineOf(s, w) <=> s = r /\ w = what
  BY DEF Event, LineOf
<1> HIDE DEF e
<1>2. /\ Len(h) = Len(g) + 1 /\ h[Len(g) + 1] = e
      /\ \A i \in 1..Len(g) : h[i] = g[i]
  BY DEF Follows, e
<1>3. Len(g) \in Nat BY LenProperties
<1>4. \A n \in 0..Len(g), w \in {Opening, Ending} : SaidIn(h, n, w) = SaidIn(g, n, w)
  <2>1. ASSUME NEW n \in 0..Len(g), NEW w \in {Opening, Ending}
        PROVE  SaidIn(h, n, w) = SaidIn(g, n, w)
    BY <1>3, SaidBefore
  <2> QED BY <2>1
<1>5. PICK k \in Nat : k = Len(g) + 1 /\ k = Len(h) /\ Len(g) \in 0..Len(g)
  BY <1>2, <1>3
<1>6. ASSUME NEW w \in {Opening, Ending}
      PROVE  SaidIn(h, k, w) = SaidIn(g, Len(g), w) \cup (IF what = w THEN {r} ELSE {})
  <2>1. SaidIn(h, Len(g) + 1, w) =
            SaidIn(g, Len(g), w) \cup {s \in Rite : LineOf(r, what) = LineOf(s, w)}
    BY <1>3, SaidFollows
  <2>2. {s \in Rite : LineOf(r, what) = LineOf(s, w)} = (IF what = w THEN {r} ELSE {})
    BY <1>1 DEF e
  <2> QED BY <2>1, <2>2, <1>5
<1>7. /\ SaidIn(h, k, Opening) =
             SaidIn(g, Len(g), Opening) \cup (IF what = Opening THEN {r} ELSE {})
      /\ SaidIn(h, k, Ending) =
             SaidIn(g, Len(g), Ending) \cup (IF what = Ending THEN {r} ELSE {})
  <2>1. Opening \in {Opening, Ending} /\ Ending \in {Opening, Ending} OBVIOUS
  <2> QED BY <2>1, <1>6
<1>8. /\ \A s \in Rite : s \in SaidIn(g, Len(g), Opening) <=> Of[s] = c /\ Happened(s, Opening)
      /\ \A s \in Rite : s \in SaidIn(g, Len(g), Ending) <=> Of[s] = c /\ Happened(s, Ending)
      /\ RunsInOrder(g)
  BY DEF Recorded
<1>9. /\ \A s \in Rite : s \in OpenIn(g, Len(g)) <=> Of[s] = c /\ Going(s)
      /\ OpenIn(g, Len(g)) \subseteq Rite
      /\ SaidIn(g, Len(g), Ending) \subseteq SaidIn(g, Len(g), Opening)
      /\ Rooted(OpenIn(g, Len(g)))
  <2>1. OpenIn(g, Len(g)) \subseteq Rite BY DEF OpenIn, SaidIn
  <2>2. SaidIn(g, Len(g), Ending) \subseteq SaidIn(g, Len(g), Opening) /\ Rooted(OpenIn(g, Len(g)))
    BY <1>5, <1>8 DEF RunsInOrder
  <2> QED BY <2>1, <2>2, <1>8 DEF OpenIn, Going
<1>10. /\ SaidIn(h, k, Ending) \subseteq SaidIn(h, k, Opening)
       /\ Rooted(OpenIn(h, k))
  <2>1. CASE what = Opening
    <3>1. r \notin SaidIn(g, Len(g), Opening) BY <2>1, <1>8 DEF InTurn
    <3>2. OpenIn(h, k) = OpenIn(g, Len(g)) \cup {r}
      BY <3>1, <2>1, <1>7, <1>9, EventsDiffer DEF OpenIn
    <3>3. Under[r] # None => Under[r] \in OpenIn(g, Len(g))
      BY <2>1, <1>9 DEF InTurn
    <3> QED BY <3>2, <3>3, <2>1, <1>7, <1>9, EventsDiffer DEF Rooted
  <2>2. CASE what = Ending
    <3>1. r \in SaidIn(g, Len(g), Opening) BY <2>2, <1>8 DEF InTurn, Going
    <3>2. OpenIn(h, k) = OpenIn(g, Len(g)) \ {r}
      BY <2>2, <1>7, EventsDiffer DEF OpenIn
    <3>3. \A s \in OpenIn(g, Len(g)) : Under[s] # r
      BY <2>2, <1>9 DEF InTurn
    <3> QED BY <3>1, <3>2, <3>3, <2>2, <1>7, <1>9, EventsDiffer DEF Rooted
  <2>3. CASE what \notin {Opening, Ending}
    <3>1. OpenIn(h, k) = OpenIn(g, Len(g)) BY <2>3, <1>7 DEF OpenIn
    <3> QED BY <3>1, <2>3, <1>7, <1>9
  <2> QED BY <2>1, <2>2, <2>3
<1>11. RunsInOrder(h)
  <2> SUFFICES ASSUME NEW n \in 0..Len(h)
               PROVE  SaidIn(h, n, Ending) \subseteq SaidIn(h, n, Opening) /\ Rooted(OpenIn(h, n))
    BY DEF RunsInOrder
  <2>1. CASE n = k BY <2>1, <1>10
  <2>2. CASE n # k
    <3>1. n \in 0..Len(g) BY <2>2, <1>3, <1>5
    <3>2. SaidIn(h, n, Ending) = SaidIn(g, n, Ending) /\ SaidIn(h, n, Opening) = SaidIn(g, n, Opening)
      <4>1. Opening \in {Opening, Ending} /\ Ending \in {Opening, Ending} OBVIOUS
      <4> QED BY <4>1, <3>1, <1>4
    <3>3. OpenIn(h, n) = OpenIn(g, n) BY <3>2 DEF OpenIn
    <3> QED BY <3>1, <3>2, <3>3, <1>8 DEF RunsInOrder
  <2> QED BY <2>1, <2>2
<1>12. ASSUME NEW s \in Rite, NEW w \in {Opening, Ending}
       PROVE  s \in SaidIn(h, Len(h), w) <=> Of[s] = c /\ w \in did'[s]
  <2>1. SaidIn(h, k, w) = SaidIn(g, Len(g), w) \cup (IF what = w THEN {r} ELSE {})
    BY <1>6
  <2>2. s \in SaidIn(g, Len(g), w) <=> Of[s] = c /\ w \in did[s]
    BY <1>8 DEF Happened
  <2>3. did'[s] = IF s = r THEN did[s] \cup {what} ELSE did[s]
    OBVIOUS
  <2> QED BY <2>1, <2>2, <2>3, <1>5
<1>13. Recorded(c, h)' BY <1>11, <1>12 DEF Recorded, Happened
<1> QED BY <1>13

LEMMA RecordedSame ==
    ASSUME NEW c, NEW g, Recorded(c, g),
           \A s \in Rite : Of[s] = c => did'[s] = did[s]
    PROVE  Recorded(c, g)'
<1> QED BY DEF Recorded, Happened

LEMMA HeardSame ==
    ASSUME NEW c \in Followed, NEW g, Len(g) \in Nat, HeardOf(c, g),
           at[c] \in Nat, at'[c] \in 0..at[c],
           \A s \in Rite : Of[s] = c =>
               /\ s \in started' <=> s \in started
               /\ s \in finished' <=> s \in finished
               /\ s \in open' <=> s \in open
    PROVE  HeardOf(c, g)'
<1>1. PICK n \in at[c]..Len(g) : HeardTo(c, g, n) BY DEF HeardOf
<1>2. n \in at'[c]..Len(g) BY <1>1
<1>3. HeardTo(c, g, n)' BY <1>1 DEF HeardTo
<1> QED BY <1>2, <1>3 DEF HeardOf

(* What a rite did, as sets tell it.                                       *)
LEMMA DidNext ==
    ASSUME ScreenTypes, NEW r \in Rite, NEW what \in Int, InTurn(r, what),
           did' = [did EXCEPT ![r] = @ \cup {what}]
    PROVE  /\ did' \in [Rite -> SUBSET Int]
           /\ \A s \in Rite : did'[s] = IF s = r THEN did[s] \cup {what} ELSE did[s]
           /\ \A s \in Rite \ {r} : Going(s)' <=> Going(s)
           /\ Going(r)' <=> what = Opening \/ (what # Ending /\ Going(r))
           /\ \A s \in Rite : Happened(s, Ending)' => Happened(s, Opening)'
<1>1. /\ did \in [Rite -> SUBSET Int]
      /\ \A s \in Rite : Ending \in did[s] => Opening \in did[s]
  BY DEF ScreenTypes, Happened
<1>2. /\ did' \in [Rite -> SUBSET Int]
      /\ \A s \in Rite : did'[s] = IF s = r THEN did[s] \cup {what} ELSE did[s]
  BY <1>1
<1>3. what = Opening => Ending \notin did[r]
  BY <1>1 DEF InTurn, Happened
<1>4. what = Ending => Opening \in did[r]
  BY DEF InTurn, Going, Happened
<1>5. Going(r)' <=> what = Opening \/ (what # Ending /\ Going(r))
  BY <1>2, <1>3, EventsDiffer DEF Going, Happened
<1>6. \A s \in Rite \ {r} : Going(s)' <=> Going(s) BY <1>2 DEF Going, Happened
<1>7. \A s \in Rite : Happened(s, Ending)' => Happened(s, Opening)'
  BY <1>1, <1>2, <1>4 DEF Happened
<1> QED BY <1>2, <1>5, <1>6, <1>7

LEMMA RecordedThen ==
    ASSUME RecordedInOrder, NEW c \in Followed, NEW g, g = grimoire[c]
    PROVE  Recorded(c, g)
<1>1. Recorded(c, grimoire[c]) BY DEF RecordedInOrder
<1> QED BY <1>1 DEF Recorded

LEMMA OwnDoes ==
    ASSUME ScreenAssumption, ScreenInv, NEW r \in Rite, Of[r] = Own, NEW what \in Int,
           InTurn(r, what), Does(r, what)
    PROVE  ScreenInv'
<1> USE DEF ScreenInv
<1>1. /\ did' = [did EXCEPT ![r] = @ \cup {what}] /\ Renders(LineOf(r, what))
      /\ UNCHANGED <<grimoire, at, backlog, started, finished>>
  BY DEF Does
<1>2. /\ did' \in [Rite -> SUBSET Int]
      /\ \A s \in Rite : did'[s] = IF s = r THEN did[s] \cup {what} ELSE did[s]
      /\ \A s \in Rite \ {r} : Going(s)' <=> Going(s)
      /\ Going(r)' <=> what = Opening \/ (what # Ending /\ Going(r))
      /\ \A s \in Rite : Happened(s, Ending)' => Happened(s, Opening)'
  BY <1>1, DidNext
<1>3. open \subseteq Rite /\ (r \in open <=> Going(r)) /\ Rooted(open)
  BY OpenRooted DEF OwnInOrder, ScreenTypes
<1>4. /\ LineOf(r, what).what = what /\ LineOf(r, what).rite = r
  BY EventsDiffer
<1>5. /\ OneTalks' /\ (\A s \in Rite \ {r} : s \in open' <=> s \in open)
      /\ r \in open' <=> Going(r)'
  <2>1. CASE what = Opening
    <3>1. Becomes(Began(Rendered, r)) BY <2>1, <1>1, <1>4, EventsDiffer DEF Renders
    <3>2. r \notin open /\ (Under[r] # None => Under[r] \in open)
      <4>1. r \notin open BY <2>1, <1>3 DEF InTurn, Going
      <4>2. Under[r] # None => Under[r] \in Rite /\ Of[Under[r]] = Own /\ Going(Under[r])
        BY <2>1 DEF InTurn, ScreenAssumption
      <4> QED BY <4>1, <4>2 DEF OwnInOrder
    <3>3. open' = open \cup {r} BY <3>1, BeganRenders
    <3>4. OneTalks' BY <3>1, <3>2, <1>3, BeganTalks
    <3> QED BY <3>3, <3>4, <2>1, <1>2
  <2>2. CASE what = Ending
    <3>1. Becomes(Ended(Rendered, r)) BY <2>2, <1>1, <1>4, EventsDiffer DEF Renders
    <3>2. open' = open \ {r} /\ (sink' = sink \/ sink' = [sink EXCEPT ![r] = None])
      BY <3>1, EndedRenders
    <3>3. OneTalks' BY <3>2, FewerTalk
    <3> QED BY <3>2, <3>3, <2>2, <1>2, EventsDiffer
  <2>3. CASE what \notin {Opening, Ending}
    <3>1. Becomes(Streamed(Rendered, r, what)) BY <2>3, <1>1, <1>4 DEF Renders
    <3>2. UNCHANGED <<known, open, sink>> BY <3>1, StreamedRenders
    <3>3. OneTalks' BY <3>2 DEF OneTalks
    <3> QED BY <3>2, <3>3, <2>3, <1>2, <1>3
  <2> QED BY <2>1, <2>2, <2>3
<1>6. ScreenTypes'
  <2>1. /\ open' \subseteq known' /\ known' \subseteq Rite
        /\ sink' \in [Rite -> Rite \cup {None}]
    BY <1>1, <1>4, RendersTypes
  <2> QED BY <2>1, <1>1, <1>2 DEF ScreenTypes
<1>7. \A c \in Followed, s \in Rite : Of[s] = c => s # r
  BY DEF ScreenAssumption
<1>8. RecordedInOrder'
  <2>1. ASSUME NEW c \in Followed PROVE Recorded(c, grimoire[c])'
    <3>0. grimoire'[c] = grimoire[c] BY <1>1
    <3>1. PICK g : g = grimoire[c] /\ g = grimoire'[c] BY <3>0
    <3>2. Recorded(c, g) BY <3>1, RecordedThen
    <3>3. \A s \in Rite : Of[s] = c => did'[s] = did[s] BY <1>2, <1>7
    <3>4. Recorded(c, g)' BY <3>2, <3>3, RecordedSame
    <3> QED BY <3>1, <3>4 DEF Recorded
  <2> QED BY <2>1 DEF RecordedInOrder
<1>9. HeardInOrder'
  <2>1. ASSUME NEW c \in Followed PROVE HeardOf(c, grimoire[c])'
    <3>0. grimoire'[c] = grimoire[c] BY <1>1
    <3>1. PICK g : g = grimoire[c] /\ g = grimoire'[c] BY <3>0
    <3>2. HeardOf(c, g) /\ Len(g) \in Nat /\ at[c] \in Nat /\ at'[c] \in 0..at[c]
      BY <3>1, <1>1, LenProperties DEF HeardInOrder, ScreenTypes
    <3>3. \A s \in Rite : Of[s] = c =>
              /\ s \in started' <=> s \in started
              /\ s \in finished' <=> s \in finished
              /\ s \in open' <=> s \in open
      BY <1>1, <1>5, <1>7
    <3>4. HeardOf(c, g)' BY <3>2, <3>3, HeardSame
    <3> QED BY <3>1, <3>4 DEF HeardOf, HeardTo
  <2> QED BY <2>1 DEF HeardInOrder
<1>10. OwnInOrder'
  BY <1>2, <1>5 DEF OwnInOrder
<1>11. OwnRooted'
  <2> SUFFICES ASSUME NEW s \in Rite, Of[s] = Own, Going(s)', Under[s] # None
               PROVE  Under[s] \in Rite /\ Of[Under[s]] = Own /\ Going(Under[s])'
    BY DEF OwnRooted, Rooted
  <2>1. Under[s] \in Rite /\ Of[Under[s]] = Own BY DEF ScreenAssumption
  <2>2. CASE s = r /\ what = Opening
    <3>1. Going(Under[r]) BY <2>2 DEF InTurn
    <3>2. Under[r] # r BY <3>1, <2>2 DEF InTurn, Going
    <3> QED BY <3>1, <3>2, <2>1, <2>2, <1>2
  <2>3. CASE ~(s = r /\ what = Opening)
    <3>1. Going(s) BY <2>3, <1>2
    <3>2. Going(Under[s]) BY <3>1 DEF OwnRooted, Rooted
    <3>3. Under[s] = r => what # Ending BY <3>1 DEF InTurn
    <3> QED BY <3>2, <3>3, <2>1, <1>2
  <2> QED BY <2>1, <2>2, <2>3
<1> QED BY <1>5, <1>6, <1>8, <1>9, <1>10, <1>11

(* A cast that is followed does something, heard at once or not.           *)
LEMMA FollowedDoes ==
    ASSUME ScreenAssumption, ScreenInv, NEW c \in Followed, NEW r \in Rite, Of[r] = c,
           NEW what \in Int, InTurn(r, what), Does(r, what)
    PROVE  ScreenInv'
<1>0. PICK g \in Seq(Event) : g = grimoire[c]
  BY DEF ScreenInv, ScreenTypes, Event
<1> DEFINE e == LineOf(r, what)
<1>1. e \in Event BY DEF LineOf, Event
<1>2. PICK h \in Seq(Event) : h = Append(g, e) /\ Follows(h, g, e)
  BY <1>1, EventAppended
<1>3. Len(g) \in Nat /\ Len(h) \in Nat /\ Len(h) = Len(g) + 1
  BY <1>2, LenProperties DEF Follows
<1>4. /\ did' = [did EXCEPT ![r] = @ \cup {what}]
      /\ grimoire' = [grimoire EXCEPT ![c] = h]
      /\ \/ at[c] = Len(g) /\ Hear(c, e)
         \/ UNCHANGED <<at, started, finished, rendered>>
      /\ backlog' = backlog
  <2>1. c # Own BY DEF ScreenAssumption
  <2> QED BY <2>1, <1>0, <1>2 DEF Does
<1>5. /\ did' \in [Rite -> SUBSET Int]
      /\ \A s \in Rite : did'[s] = IF s = r THEN did[s] \cup {what} ELSE did[s]
      /\ \A s \in Rite \ {r} : Going(s)' <=> Going(s)
      /\ \A s \in Rite : Happened(s, Ending)' => Happened(s, Opening)'
  BY <1>4, DidNext DEF ScreenInv
<1>6. grimoire \in [Followed -> Seq(Event)]
  BY DEF ScreenInv, ScreenTypes, Event
<1>7. /\ grimoire' \in [Followed -> Seq(Event)]
      /\ grimoire'[c] = h /\ \A d \in Followed \ {c} : grimoire'[d] = grimoire[d]
  BY <1>4, <1>6
<1>8. Recorded(c, g) BY <1>0, RecordedThen DEF ScreenInv
<1>9. Recorded(c, h)'
  <2>1. \A s \in Rite : Under[s] # None => Under[s] \in Rite /\ Of[Under[s]] = Of[s]
    BY DEF ScreenAssumption
  <2>2. Follows(h, g, LineOf(r, what)) BY <1>2
  <2>3. \A s \in Rite : did'[s] = IF s = r THEN did[s] \cup {what} ELSE did[s]
    BY <1>5
  <2> QED BY <2>1, <2>2, <2>3, <1>8, RecordedNext
<1> HIDE DEF e
<1>10. PICK n \in at[c]..Len(g) : HeardTo(c, g, n)
  BY <1>0 DEF ScreenInv, HeardInOrder, HeardOf, HeardTo
<1>11. at[c] \in Nat /\ n \in 0..Len(g) /\ n \in at[c]..Len(h)
  BY <1>3, <1>10 DEF ScreenInv, ScreenTypes
<1>12. HeardTo(c, h, n)
  <2>0. Follows(h, g, e) BY <1>2
  <2>2. SaidIn(h, n, Opening) = SaidIn(g, n, Opening) BY <2>0, <1>3, <1>11, SaidBefore
  <2>3. SaidIn(h, n, Ending) = SaidIn(g, n, Ending) BY <2>0, <1>3, <1>11, SaidBefore
  <2> QED BY <2>2, <2>3, <1>10 DEF HeardTo, OpenIn
<1>13. /\ HeardOf(c, h)'
       /\ \A s \in Rite : Of[s] # c =>
              /\ s \in started' <=> s \in started
              /\ s \in finished' <=> s \in finished
              /\ s \in open' <=> s \in open
       /\ OneTalks'
       /\ open' \subseteq known' /\ known' \subseteq Rite /\ started' \subseteq Rite
       /\ sink' \in [Rite -> Rite \cup {None}]
       /\ at' \in [Followed -> Nat] /\ \A d \in Followed \ {c} : at'[d] = at[d]
  <2>1. CASE UNCHANGED <<at, started, finished, rendered>>
    <3>1. UNCHANGED <<at, started, finished, known, open, sink>> BY <2>1 DEF rendered
    <3>2. HeardTo(c, h, n)' BY <3>1, <1>12 DEF HeardTo
    <3>3. HeardOf(c, h)' BY <3>1, <3>2, <1>11 DEF HeardOf
    <3>4. OneTalks' BY <3>1 DEF ScreenInv, OneTalks
    <3> QED BY <3>1, <3>3, <3>4 DEF ScreenInv, ScreenTypes
  <2>2. CASE at[c] = Len(g) /\ Hear(c, e)
    <3>1. at[c] < Len(h) /\ h[at[c] + 1] = e
      BY <2>2, <1>2, <1>3 DEF Follows
    <3>2. RunsInOrder(h) BY <1>9 DEF Recorded
    <3>3. \A s \in Rite, w \in {Opening, Ending} : s \in SaidIn(h, Len(h), w) => Of[s] = c
      BY <1>9 DEF Recorded
    <3>4. Hear(c, h[at[c] + 1]) BY <2>2, <3>1
    <3>5. h \in Seq([rite : Rite, what : Int]) /\ Rooted(open)
      BY OpenRooted DEF ScreenInv, Event
    <3>6. /\ \E m \in at'[c]..Len(h) : HeardTo(c, h, m)'
          /\ \A s \in Rite : Of[s] # c =>
                 /\ s \in started' <=> s \in started
                 /\ s \in finished' <=> s \in finished
                 /\ s \in open' <=> s \in open
          /\ OneTalks'
          /\ open' \subseteq known' /\ known' \subseteq Rite /\ started' \subseteq Rite
          /\ sink' \in [Rite -> Rite \cup {None}]
      BY <3>1, <3>2, <3>3, <3>4, <3>5, <1>11, <1>12, Heard DEF ScreenInv
    <3>7. at' = [at EXCEPT ![c] = @ + 1] BY <2>2 DEF Hear
    <3> QED BY <3>6, <3>7 DEF ScreenInv, HeardOf, ScreenTypes
  <2> QED BY <2>1, <2>2, <1>4
<1>14. ScreenTypes'
  <2>1. \A d \in Followed : backlog[d] \in 0..Len(grimoire[d]) => backlog[d] \in 0..Len(grimoire'[d])
    <3>1. ASSUME NEW d \in Followed \ {c} PROVE grimoire'[d] = grimoire[d] BY <1>7
    <3>2. backlog[c] \in 0..Len(g) => backlog[c] \in 0..Len(h) BY <1>3
    <3> QED BY <3>1, <3>2, <1>0, <1>7
  <2>2. \A d \in Followed : backlog'[d] = None \/ backlog'[d] \in 0..Len(grimoire'[d])
    BY <2>1, <1>4 DEF ScreenInv, ScreenTypes
  <2> QED BY <2>2, <1>4, <1>5, <1>7, <1>13 DEF ScreenInv, ScreenTypes, Event
<1>15. \A d \in Followed \ {c}, s \in Rite : Of[s] = d => s # r /\ Of[s] # c
  OBVIOUS
<1>16. RecordedInOrder'
  <2>1. ASSUME NEW d \in Followed PROVE Recorded(d, grimoire[d])'
    <3>1. CASE d = c BY <3>1, <1>7, <1>9 DEF Recorded
    <3>2. CASE d # c
      <4>0. grimoire'[d] = grimoire[d] BY <3>2, <1>7
      <4>1. PICK f : f = grimoire[d] /\ f = grimoire'[d] BY <4>0
      <4>2. Recorded(d, f) BY <4>1, RecordedThen DEF ScreenInv
      <4>3. \A s \in Rite : Of[s] = d => did'[s] = did[s] BY <3>2, <1>5, <1>15
      <4>4. Recorded(d, f)' BY <4>2, <4>3, RecordedSame
      <4> QED BY <4>1, <4>4 DEF Recorded
    <3> QED BY <3>1, <3>2
  <2> QED BY <2>1 DEF RecordedInOrder
<1>17. HeardInOrder'
  <2>1. ASSUME NEW d \in Followed PROVE HeardOf(d, grimoire[d])'
    <3>1. CASE d = c BY <3>1, <1>7, <1>13 DEF HeardOf, HeardTo
    <3>2. CASE d # c
      <4>0. grimoire'[d] = grimoire[d] BY <3>2, <1>7
      <4>1. PICK f : f = grimoire[d] /\ f = grimoire'[d] BY <4>0
      <4>2. at[d] \in Nat /\ at'[d] \in 0..at[d] BY <3>2, <1>13 DEF ScreenInv, ScreenTypes
      <4>3. Len(f) \in Nat BY <4>1, <1>6, LenProperties
      <4>4. HeardOf(d, f) BY <4>1 DEF ScreenInv, HeardInOrder, HeardOf, HeardTo
      <4>5. \A s \in Rite : Of[s] = d =>
                /\ s \in started' <=> s \in started
                /\ s \in finished' <=> s \in finished
                /\ s \in open' <=> s \in open
        BY <3>2, <1>13, <1>15
      <4>6. HeardOf(d, f)' BY <4>2, <4>3, <4>4, <4>5, HeardSame
      <4> QED BY <4>1, <4>6 DEF HeardOf, HeardTo
    <3> QED BY <3>1, <3>2
  <2> QED BY <2>1 DEF HeardInOrder
<1>18. \A s \in Rite : Of[s] = Own => s # r /\ Of[s] # c
  BY DEF ScreenAssumption
<1>19. OwnInOrder' BY <1>5, <1>13, <1>18 DEF ScreenInv, OwnInOrder
<1>20. OwnRooted'
  <2>1. \A s \in Rite : Of[s] = Own => (Going(s)' <=> Going(s)) BY <1>5, <1>18
  <2> QED BY <2>1 DEF ScreenInv, OwnRooted, Rooted
<1> QED BY <1>13, <1>14, <1>16, <1>17, <1>19, <1>20 DEF ScreenInv

-----------------------------------------------------------------------------
(* Steps of the casts followed, and the rest.                              *)

LEMMA RecordsKept ==
    ASSUME RecordedInOrder, UNCHANGED <<did, grimoire>> PROVE RecordedInOrder'
<1>1. ASSUME NEW d \in Followed PROVE Recorded(d, grimoire[d])'
  <2>1. PICK f : f = grimoire[d] /\ f = grimoire'[d] OBVIOUS
  <2>2. Recorded(d, f) BY <2>1, RecordedThen
  <2>3. Recorded(d, f)' BY <2>2, RecordedSame
  <2> QED BY <2>1, <2>3 DEF Recorded
<1> QED BY <1>1 DEF RecordedInOrder

LEMMA OwnKept ==
    ASSUME OwnInOrder, OwnRooted, UNCHANGED did,
           \A s \in Rite : Of[s] = Own => (s \in open' <=> s \in open)
    PROVE  OwnInOrder' /\ OwnRooted'
<1>1. \A s \in Rite : Going(s)' <=> Going(s) BY DEF Going, Happened
<1> QED BY <1>1 DEF OwnInOrder, OwnRooted, Rooted

(* Nothing is done or heard, though it may be heard again from here on.    *)
LEMMA NothingHeard ==
    ASSUME ScreenInv, UNCHANGED <<did, grimoire, started, finished, known, open, sink>>,
           at' \in [Followed -> Nat], \A d \in Followed : at'[d] \in 0..at[d],
           backlog' \in [Followed -> Nat \cup {None}],
           \A d \in Followed : backlog'[d] = None \/ backlog'[d] \in 0..Len(grimoire[d])
    PROVE  ScreenInv'
<1>1. ScreenTypes' BY DEF ScreenInv, ScreenTypes, Happened
<1>2. RecordedInOrder' BY RecordsKept DEF ScreenInv
<1>3. HeardInOrder'
  <2>1. ASSUME NEW d \in Followed PROVE HeardOf(d, grimoire[d])'
    <3>1. PICK f : f = grimoire[d] /\ f = grimoire'[d] OBVIOUS
    <3>2. HeardOf(d, f) BY <3>1 DEF ScreenInv, HeardInOrder, HeardOf, HeardTo
    <3>3. at[d] \in Nat /\ Len(f) \in Nat
      BY <3>1, LenProperties DEF ScreenInv, ScreenTypes
    <3>4. HeardOf(d, f)' BY <3>2, <3>3, HeardSame
    <3> QED BY <3>1, <3>4 DEF HeardOf, HeardTo
  <2> QED BY <2>1 DEF HeardInOrder
<1>4. OwnInOrder' /\ OwnRooted' BY OwnKept DEF ScreenInv
<1>5. OneTalks' BY DEF ScreenInv, OneTalks
<1> QED BY <1>1, <1>2, <1>3, <1>4, <1>5 DEF ScreenInv

LEMMA HearsKeeps ==
    ASSUME ScreenAssumption, ScreenInv, NEW c \in Followed, Hears(c)
    PROVE  ScreenInv'
<1>0. PICK g \in Seq(Event) : g = grimoire[c]
  BY DEF ScreenInv, ScreenTypes, Event
<1>1. /\ UNCHANGED <<did, grimoire, backlog>>
      /\ Hear(c, g[at[c] + 1])
      /\ backlog[c] # None /\ at[c] < backlog[c]
  BY <1>0 DEF Hears
<1>2. Len(g) \in Nat /\ at[c] < Len(g) /\ at \in [Followed -> Nat]
  <2>1. backlog[c] \in 0..Len(g) /\ at \in [Followed -> Nat]
    BY <1>0, <1>1 DEF ScreenInv, ScreenTypes
  <2> QED BY <2>1, <1>1, LenProperties
<1>3. Recorded(c, g) BY <1>0, RecordedThen DEF ScreenInv
<1>4. PICK n \in at[c]..Len(g) : HeardTo(c, g, n)
  BY <1>0 DEF ScreenInv, HeardInOrder, HeardOf, HeardTo
<1>5. /\ \E m \in at'[c]..Len(g) : HeardTo(c, g, m)'
      /\ \A s \in Rite : Of[s] # c =>
             /\ s \in started' <=> s \in started
             /\ s \in finished' <=> s \in finished
             /\ s \in open' <=> s \in open
      /\ OneTalks'
      /\ open' \subseteq known' /\ known' \subseteq Rite /\ started' \subseteq Rite
      /\ sink' \in [Rite -> Rite \cup {None}]
  <2>1. RunsInOrder(g) BY <1>3 DEF Recorded
  <2>2. \A s \in Rite, w \in {Opening, Ending} : s \in SaidIn(g, Len(g), w) => Of[s] = c
    BY <1>3 DEF Recorded
  <2>3. g \in Seq([rite : Rite, what : Int]) /\ Rooted(open)
    BY OpenRooted DEF ScreenInv, Event
  <2> QED BY <2>1, <2>2, <2>3, <1>1, <1>2, <1>4, Heard DEF ScreenInv
<1>6. /\ at' \in [Followed -> Nat]
      /\ \A d \in Followed \ {c} : at'[d] = at[d]
  BY <1>1, <1>2 DEF Hear
<1>7. ScreenTypes' BY <1>1, <1>5, <1>6 DEF ScreenInv, ScreenTypes, Happened
<1>8. RecordedInOrder' BY <1>1, RecordsKept DEF ScreenInv
<1>9. HeardInOrder'
  <2>1. ASSUME NEW d \in Followed PROVE HeardOf(d, grimoire[d])'
    <3>0. grimoire'[d] = grimoire[d] BY <1>1
    <3>1. CASE d = c BY <3>0, <3>1, <1>0, <1>5 DEF HeardOf, HeardTo
    <3>2. CASE d # c
      <4>1. PICK f : f = grimoire[d] /\ f = grimoire'[d] BY <3>0
      <4>2. at[d] \in Nat /\ at'[d] \in 0..at[d] BY <3>2, <1>2, <1>6
      <4>3. Len(f) \in Nat BY <4>1, LenProperties DEF ScreenInv, ScreenTypes
      <4>4. HeardOf(d, f) BY <4>1 DEF ScreenInv, HeardInOrder, HeardOf, HeardTo
      <4>5. \A s \in Rite : Of[s] = d =>
                /\ s \in started' <=> s \in started
                /\ s \in finished' <=> s \in finished
                /\ s \in open' <=> s \in open
        BY <3>2, <1>5
      <4>6. HeardOf(d, f)' BY <4>2, <4>3, <4>4, <4>5, HeardSame
      <4> QED BY <4>1, <4>6 DEF HeardOf, HeardTo
    <3> QED BY <3>1, <3>2
  <2> QED BY <2>1 DEF HeardInOrder
<1>10. OwnInOrder' /\ OwnRooted'
  <2>1. \A s \in Rite : Of[s] = Own => Of[s] # c BY DEF ScreenAssumption
  <2> QED BY <2>1, <1>1, <1>5, OwnKept DEF ScreenInv
<1> QED BY <1>5, <1>7, <1>8, <1>9, <1>10 DEF ScreenInv

(* What a rite does is its turn.                                           *)
LEMMA TakesItsTurn ==
    ASSUME ScreenAssumption, NEW r \in Rite,
           Begins(r) \/ (\E n \in 1..Output[r] : Says(r, n)) \/ Ends(r)
    PROVE  \E what \in Int : InTurn(r, what) /\ Does(r, what)
<1>1. CASE Begins(r)
  <2>1. InTurn(r, Opening) /\ Does(r, Opening) /\ Opening \in Int
    BY <1>1, EventsDiffer DEF Begins, InTurn, Opening
  <2> QED BY <2>1
<1>2. ASSUME NEW n \in 1..Output[r], Says(r, n)
      PROVE  \E what \in Int : InTurn(r, what) /\ Does(r, what)
  <2>1. n \in Int /\ n >= 1 /\ n # Opening /\ n # Ending
    BY DEF Opening, Ending, ScreenAssumption
  <2>2. InTurn(r, n) /\ Does(r, n) BY <2>1, <1>2 DEF Says, InTurn
  <2> QED BY <2>1, <2>2
<1>3. CASE Ends(r)
  <2>1. InTurn(r, Ending) /\ Does(r, Ending) /\ Ending \in Int
    BY <1>3, EventsDiffer DEF Ends, InTurn, Ending
  <2> QED BY <2>1
<1> QED BY <1>1, <1>2, <1>3

LEMMA ScreenStep == ASSUME ScreenAssumption, ScreenInv, [Next]_vars PROVE ScreenInv'
<1>0. /\ at \in [Followed -> Nat] /\ backlog \in [Followed -> Nat \cup {None}]
      /\ \A d \in Followed : backlog[d] = None \/ backlog[d] \in 0..Len(grimoire[d])
      /\ \A d \in Followed : Len(grimoire[d]) \in Nat
  BY LenProperties DEF ScreenInv, ScreenTypes
<1>1. ASSUME UNCHANGED <<did, grimoire, started, finished, known, open, sink, at, backlog>>
      PROVE  ScreenInv'
  <2>1. \A d \in Followed : at'[d] \in 0..at[d] BY <1>0, <1>1
  <2> QED BY <2>1, <1>0, <1>1, NothingHeard
<1>2. ASSUME NEW r \in Rite, NEW what \in Int, InTurn(r, what), Does(r, what)
      PROVE  ScreenInv'
  <2>1. Of[r] \in Followed \/ Of[r] = Own BY DEF ScreenAssumption
  <2> QED BY <2>1, <1>2, OwnDoes, FollowedDoes
<1>3. ASSUME NEW r \in Rite, Begins(r) \/ (\E n \in 1..Output[r] : Says(r, n)) \/ Ends(r)
      PROVE  ScreenInv'
  <2>1. PICK what \in Int : InTurn(r, what) /\ Does(r, what) BY <1>3, TakesItsTurn
  <2> QED BY <2>1, <1>2
<1>6. ASSUME NEW c \in Followed, Attaches(c) \/ Replayed(c) \/ Loses(c) PROVE ScreenInv'
  <2>1. UNCHANGED <<did, grimoire, started, finished, known, open, sink>>
    BY <1>6 DEF Attaches, Replayed, Loses, rendered
  <2>2. /\ at' = at \/ at' = [at EXCEPT ![c] = 0]
        /\ \/ backlog' = backlog
           \/ backlog' = [backlog EXCEPT ![c] = None]
           \/ backlog' = [backlog EXCEPT ![c] = Len(grimoire[c])]
    BY <1>6 DEF Attaches, Replayed, Loses
  <2>3. at' \in [Followed -> Nat] /\ \A d \in Followed : at'[d] \in 0..at[d]
    <3>0. at \in [Followed -> Nat] BY <1>0
    <3>1. at' \in [Followed -> Nat] /\ \A d \in Followed : at'[d] = at[d] \/ at'[d] = 0
      <4>1. CASE at' = at BY <4>1, <3>0
      <4>2. CASE at' = [at EXCEPT ![c] = 0] BY <4>2, <3>0
      <4> QED BY <4>1, <4>2, <2>2
    <3>2. \A d \in Followed : at[d] \in 0..at[d] /\ 0 \in 0..at[d] BY <1>0
    <3> QED BY <3>1, <3>2
  <2>4. /\ backlog' \in [Followed -> Nat \cup {None}]
        /\ \A d \in Followed : backlog'[d] = None \/ backlog'[d] \in 0..Len(grimoire[d])
    <3>1. PICK n \in Nat : n = Len(grimoire[c]) BY <1>0
    <3>2. /\ backlog' \in [Followed -> Nat \cup {None}]
          /\ \A d \in Followed :
                 backlog'[d] = backlog[d] \/ backlog'[d] = None \/ (d = c /\ backlog'[d] = n)
      <4>0. backlog \in [Followed -> Nat \cup {None}] BY <1>0
      <4>1. CASE backlog' = backlog BY <4>0, <4>1
      <4>2. CASE backlog' = [backlog EXCEPT ![c] = None] BY <4>0, <4>2
      <4>3. CASE backlog' = [backlog EXCEPT ![c] = Len(grimoire[c])]
        <5>1. backlog' = [backlog EXCEPT ![c] = n] BY <4>3, <3>1
        <5> QED BY <4>0, <5>1
      <4> QED BY <4>1, <4>2, <4>3, <2>2
    <3>3. n \in 0..n OBVIOUS
    <3> QED BY <3>1, <3>2, <3>3, <1>0
  <2> QED BY <2>1, <2>3, <2>4, NothingHeard
<1>7. ASSUME NEW text, Off \/ Written(text) PROVE ScreenInv'
  <2>1. UNCHANGED <<known, open, sink>>
    BY <1>7, WrittenRenders DEF Off, screenVars, rendered
  <2>2. UNCHANGED <<did, grimoire, started, finished, at, backlog>>
    BY <1>7 DEF Off, Written, screenVars, wire
  <2> QED BY <2>1, <2>2, <1>1
<1>8. CASE ScreenNext
  <2>1. CASE \E r \in Rite : Begins(r) \/ (\E n \in 1..Output[r] : Says(r, n)) \/ Ends(r)
    BY <2>1, <1>3
  <2>2. CASE \E c \in Followed : Attaches(c) \/ Replayed(c) \/ Hears(c) \/ Loses(c)
    BY <2>2, <1>6, HearsKeeps
  <2> QED BY <2>1, <2>2, <1>8 DEF ScreenNext
<1>9. CASE PromptNext
  <2>1. PICK p \in Prompt :
            \/ Decides(p) \/ SaidAgain(p) \/ HearsClaim(p) \/ HearsRelease(p)
            \/ Settles(p) \/ GoesOn(p) \/ HearsEnd(p)
    BY <1>9 DEF PromptNext
  <2>2. Off \/ Written(Note)
    BY <2>1 DEF Decides, SaidAgain, HearsClaim, HearsRelease, Settles, GoesOn, HearsEnd
  <2> QED BY <2>2, <1>7
<1>10. CASE LineNext
  <2>1. Off \/ Written(Note) \/ Written(Partial)
    BY <1>10 DEF LineNext, Leaves, Asked, Answered, AskedAgain, Withdrawn, Reads, Told
  <2> QED BY <2>1, <1>7
<1>11. CASE UNCHANGED vars
  BY <1>11, <1>7 DEF vars, Off
<1> QED BY <1>8, <1>9, <1>10, <1>11 DEF Next

LEMMA ScreenStart == ASSUME ScreenAssumption, ScreenInit PROVE ScreenInv
<1>1. /\ did = [r \in Rite |-> {}] /\ grimoire = [c \in Followed |-> <<>>]
      /\ at = [c \in Followed |-> 0] /\ backlog = [c \in Followed |-> None]
      /\ started = {} /\ finished = {} /\ known = {} /\ open = {}
      /\ sink = [r \in Rite |-> None]
  BY DEF ScreenInit
<1>2. /\ \A r \in Rite : ~Going(r) /\ ~Happened(r, Opening) /\ ~Happened(r, Ending)
      /\ \A c \in Followed : grimoire[c] = <<>> /\ Len(grimoire[c]) = 0
      /\ did \in [Rite -> SUBSET Int]
  BY <1>1 DEF Going, Happened
<1>3. ASSUME NEW n \in 0..0, NEW what, NEW g PROVE SaidIn(g, n, what) = {} /\ OpenIn(g, n) = {}
  BY <1>3 DEF SaidIn, OpenIn
<1>4. ScreenTypes
  <2>1. <<>> \in Seq([rite : Rite, what : Int]) OBVIOUS
  <2> QED BY <2>1, <1>1, <1>2 DEF ScreenTypes
<1>5. RecordedInOrder
  BY <1>2, <1>3 DEF RecordedInOrder, Recorded, RunsInOrder, Rooted
<1>6. HeardInOrder
  <2>1. ASSUME NEW c \in Followed PROVE HeardOf(c, grimoire[c])
    <3>1. HeardTo(c, grimoire[c], 0) BY <1>1, <1>3 DEF HeardTo
    <3> QED BY <3>1, <1>1, <1>2 DEF HeardOf
  <2> QED BY <2>1 DEF HeardInOrder
<1>7. OwnInOrder /\ OwnRooted /\ OneTalks
  BY <1>1, <1>2 DEF OwnInOrder, OwnRooted, Rooted, OneTalks
<1> QED BY <1>4, <1>5, <1>6, <1>7 DEF ScreenInv

(* Of each cast, the rites whose lines go to the terminal as they come are *)
(* called one in the other (standalone.py's `begin`, which buffers rites   *)
(* that run beside another): for any casts followed, any tree of rites and *)
(* any number of connections lost and records said again.                  *)
THEOREM OneTalksCorrect == Spec => []OneTalks
<1>1. Init => ScreenInv BY ScreenStart, ScreenAssumption DEF Init
<1>2. ScreenInv /\ [Next]_vars => ScreenInv' BY ScreenStep, ScreenAssumption
<1>3. ScreenInv => OneTalks BY DEF ScreenInv
<1> QED BY <1>1, <1>2, <1>3, PTL DEF Spec

-----------------------------------------------------------------------------
(* What is said of a rite in some lines.                                   *)

LEMMA LeastIn ==
    ASSUME NEW S \in SUBSET Nat, S # {}
    PROVE  \E i \in S : \A j \in S : i <= j
<1>1. PICK i \in S : \A j \in S : ~(<<j, i>> \in OpToRel(<, Nat))
  BY NatLessThanWellFounded, WFMin
<1>2. \A j \in S : ~(j < i) BY <1>1 DEF OpToRel
<1>3. i \in Nat /\ S \subseteq Nat OBVIOUS
<1> QED BY <1>2, <1>3

LEMMA AppendEnds ==
    ASSUME NEW S, NEW s \in Seq(S), NEW x \in S
    PROVE  /\ Append(s, x) \in Seq(S) /\ Append(s, x) # <<>>
           /\ Last(Append(s, x)) = x /\ Front(Append(s, x)) = s
<1> DEFINE t == Append(s, x)
<1>1. /\ t \in Seq(S) /\ t # <<>> /\ Len(t) = Len(s) + 1
      /\ \A i \in 1..Len(s) : t[i] = s[i]
      /\ t[Len(s) + 1] = x
  BY AppendProperties
<1>2. Len(s) \in Nat BY LenProperties
<1> HIDE DEF t
<1>3. Last(t) = x BY <1>1 DEF Last
<1>4. Front(t) = s
  <2>1. Front(t) = SubSeq(t, 1, Len(s)) BY <1>1, <1>2 DEF Front
  <2>2. \A i \in 1..Len(s) : t[i] \in S BY <1>1, ElementOfSeq
  <2>3. /\ SubSeq(t, 1, Len(s)) \in Seq(S)
        /\ Len(SubSeq(t, 1, Len(s))) = IF 1 <= Len(s) THEN Len(s) - 1 + 1 ELSE 0
        /\ \A i \in 1..Len(s) - 1 + 1 : SubSeq(t, 1, Len(s))[i] = t[1 + i - 1]
    <3>1. 1 \in Int /\ Len(s) \in Int BY <1>2
    <3> QED BY <3>1, <2>2, SubSeqProperties
  <2> DEFINE u == SubSeq(t, 1, Len(s))
  <2>4. /\ u \in Seq(S)
        /\ Len(u) = IF 1 <= Len(s) THEN Len(s) - 1 + 1 ELSE 0
        /\ \A i \in 1..Len(s) - 1 + 1 : u[i] = t[1 + i - 1]
    BY <2>3
  <2> HIDE DEF u
  <2>5. Len(u) = Len(s) BY <2>4, <1>2
  <2>6. ASSUME NEW i \in 1..Len(u) PROVE u[i] = s[i]
    <3>1. i \in 1..Len(s) - 1 + 1 /\ 1 + i - 1 = i /\ i \in 1..Len(s) BY <2>5, <1>2
    <3>2. u[i] = t[1 + i - 1] BY <3>1, <2>4
    <3> QED BY <3>1, <3>2, <1>1
  <2>7. u = s BY <2>4, <2>5, <2>6, SeqEqual
  <2> QED BY <2>1, <2>7 DEF u
<1> QED BY <1>1, <1>3, <1>4 DEF t

LEMMA FrontAndLast ==
    ASSUME NEW S, NEW s \in Seq(S), s # <<>>
    PROVE  Front(s) \in Seq(S) /\ Last(s) \in S /\ s = Append(Front(s), Last(s))
<1>1. PICK t \in Seq(S), x \in S : s = Append(t, x) BY SequenceEmptyOrAppend
<1>2. Last(s) = x /\ Front(s) = t BY <1>1, AppendEnds
<1> QED BY <1>1, <1>2

LEMMA AppendToConcat ==
    ASSUME NEW S, NEW s \in Seq(S), NEW t \in Seq(S), NEW x \in S
    PROVE  s \o Append(t, x) = Append(s \o t, x)
<1>1. <<x>> \in Seq(S) /\ s \o t \in Seq(S) BY ConcatProperties
<1>2. Append(t, x) = t \o <<x>> /\ Append(s \o t, x) = (s \o t) \o <<x>>
  BY <1>1, AppendIsConcat
<1> QED BY <1>1, <1>2, ConcatAssociative

LEMMA RangeOfAppend ==
    ASSUME NEW S, NEW s \in Seq(S), NEW x \in S
    PROVE  Range(Append(s, x)) = Range(s) \cup {x}
<1> DEFINE t == Append(s, x)
<1>1. /\ t \in Seq(S) /\ Len(t) = Len(s) + 1
      /\ \A i \in 1..Len(s) : t[i] = s[i]
      /\ t[Len(s) + 1] = x
  BY AppendProperties
<1>2. Len(s) \in Nat /\ DOMAIN s = 1..Len(s) /\ DOMAIN t = 1..Len(t)
  BY <1>1, LenProperties
<1> HIDE DEF t
<1>3. DOMAIN t = DOMAIN s \cup {Len(s) + 1} BY <1>1, <1>2
<1>4. Range(t) = Range(s) \cup {x} BY <1>1, <1>2, <1>3 DEF Range
<1> QED BY <1>4 DEF t

(* `Whats` goes through the lines one by one.                              *)
AndNext(lines, r, f, n) ==
    IF n = 0 THEN <<>>
    ELSE IF lines[n].rite = r THEN Append(f[n - 1], lines[n].what) ELSE f[n - 1]

Through(lines, r, f, m) == f = [n \in 0..m |-> AndNext(lines, r, f, n)]

LEMMA ThroughThere ==
    ASSUME NEW lines, NEW r, NEW m \in Nat
    PROVE  \E f : Through(lines, r, f, m)
<1> DEFINE S == {n \in Nat : ~\E f : Through(lines, r, f, n)}
<1> SUFFICES ASSUME S # {} PROVE FALSE
  OBVIOUS
<1>1. PICK k \in S : \A j \in S : k <= j
  <2>1. S \in SUBSET Nat OBVIOUS
  <2> HIDE DEF S
  <2> QED BY <2>1, LeastIn
<1>2. k \in Nat /\ ~\E f : Through(lines, r, f, k)
  OBVIOUS
<1>3. k # 0
  <2>1. Through(lines, r, [n \in 0..0 |-> <<>>], 0) BY DEF Through, AndNext
  <2> QED BY <2>1, <1>2
<1>4. PICK f : Through(lines, r, f, k - 1)
  <2>1. k - 1 \in Nat /\ ~(k <= k - 1) BY <1>2, <1>3
  <2>2. k - 1 \notin S BY <2>1, <1>1
  <2> QED BY <2>1, <2>2
<1> DEFINE g == [n \in 0..k |-> IF n < k THEN f[n] ELSE AndNext(lines, r, f, k)]
<1>5. Through(lines, r, g, k)
  <2> SUFFICES ASSUME NEW n \in 0..k PROVE g[n] = AndNext(lines, r, g, n)
    BY DEF Through
  <2>1. n # 0 => n - 1 \in 0..k - 1 /\ g[n - 1] = f[n - 1] BY <1>2
  <2>2. CASE n < k
    <3>1. n \in 0..k - 1 BY <2>2, <1>2
    <3>2. f[n] = AndNext(lines, r, f, n) BY <3>1, <1>4 DEF Through
    <3> QED BY <3>1, <3>2, <2>1 DEF AndNext
  <2>3. CASE n = k BY <2>3, <2>1, <1>2, <1>3 DEF AndNext
  <2> QED BY <2>2, <2>3, <1>2
<1> QED BY <1>2, <1>5

LEMMA WhatsThrough ==
    ASSUME NEW lines, NEW r, Len(lines) \in Nat
    PROVE  \E f : Through(lines, r, f, Len(lines)) /\ Whats(lines, r) = f[Len(lines)]
<1> DEFINE F == CHOOSE f : f = [n \in 0..Len(lines) |->
                    IF n = 0 THEN <<>>
                    ELSE IF lines[n].rite = r THEN Append(f[n - 1], lines[n].what) ELSE f[n - 1]]
<1>1. \E f : f = [n \in 0..Len(lines) |->
                    IF n = 0 THEN <<>>
                    ELSE IF lines[n].rite = r THEN Append(f[n - 1], lines[n].what) ELSE f[n - 1]]
  <2>1. PICK f : Through(lines, r, f, Len(lines)) BY ThroughThere
  <2> QED BY <2>1 DEF Through, AndNext
<1>2. Through(lines, r, F, Len(lines)) BY <1>1 DEF Through, AndNext
<1>3. Whats(lines, r) = F[Len(lines)] BY DEF Whats
<1> QED BY <1>2, <1>3

LEMMA WhatsOfNone ==
    ASSUME NEW lines \in Seq(Event), NEW r, \A i \in 1..Len(lines) : lines[i].rite # r
    PROVE  Whats(lines, r) = <<>>
<1>1. Len(lines) \in Nat BY LenProperties
<1>2. PICK f : Through(lines, r, f, Len(lines)) /\ Whats(lines, r) = f[Len(lines)]
  BY <1>1, WhatsThrough
<1>3. \A n \in 0..Len(lines) : f[n] = AndNext(lines, r, f, n) BY <1>2 DEF Through
<1> DEFINE S == {n \in 0..Len(lines) : f[n] # <<>>}
<1>4. S = {}
  <2> SUFFICES ASSUME S # {} PROVE FALSE
    OBVIOUS
  <2>1. PICK k \in S : \A j \in S : k <= j
    <3>1. S \in SUBSET Nat BY <1>1
    <3> HIDE DEF S
    <3> QED BY <3>1, LeastIn
  <2>2. k \in 0..Len(lines) /\ f[k] = AndNext(lines, r, f, k) /\ f[k] # <<>> BY <1>3
  <2>3. k # 0 BY <2>2 DEF AndNext
  <2>4. k \in 1..Len(lines) /\ k - 1 \in 0..Len(lines) /\ ~(k <= k - 1) BY <1>1, <2>2, <2>3
  <2>5. f[k - 1] = <<>> BY <2>1, <2>4
  <2> QED BY <2>2, <2>3, <2>4, <2>5 DEF AndNext
<1> QED BY <1>1, <1>2, <1>4

LEMMA WhatsTypes ==
    ASSUME NEW lines \in Seq(Event), NEW r
    PROVE  Whats(lines, r) \in Seq(Int)
<1>1. Len(lines) \in Nat /\ \A i \in 1..Len(lines) : lines[i].what \in Int
  <2>1. \A i \in 1..Len(lines) : lines[i] \in Event
    <3> HIDE DEF Event
    <3> QED BY ElementOfSeq
  <2> QED BY <2>1, LenProperties DEF Event
<1>2. PICK f : Through(lines, r, f, Len(lines)) /\ Whats(lines, r) = f[Len(lines)]
  BY <1>1, WhatsThrough
<1>3. \A n \in 0..Len(lines) : f[n] = AndNext(lines, r, f, n) BY <1>2 DEF Through
<1> DEFINE S == {n \in 0..Len(lines) : f[n] \notin Seq(Int)}
<1>4. S = {}
  <2> SUFFICES ASSUME S # {} PROVE FALSE
    OBVIOUS
  <2>1. PICK k \in S : \A j \in S : k <= j
    <3>1. S \in SUBSET Nat BY <1>1
    <3> HIDE DEF S
    <3> QED BY <3>1, LeastIn
  <2>2. k \in 0..Len(lines) /\ f[k] = AndNext(lines, r, f, k) /\ f[k] \notin Seq(Int) BY <1>3
  <2>3. k # 0 BY <2>2 DEF AndNext
  <2>4. k \in 1..Len(lines) /\ k - 1 \in 0..Len(lines) /\ ~(k <= k - 1) BY <1>1, <2>2, <2>3
  <2>5. f[k - 1] \in Seq(Int) BY <2>1, <2>4
  <2>6. lines[k].what \in Int BY <1>1, <2>4
  <2>7. Append(f[k - 1], lines[k].what) \in Seq(Int) BY <2>5, <2>6, AppendProperties
  <2> QED BY <2>2, <2>3, <2>5, <2>7 DEF AndNext
<1> QED BY <1>1, <1>2, <1>4

LEMMA WhatsOfMore ==
    ASSUME NEW lines \in Seq(Event), NEW x \in Event, NEW r
    PROVE  Whats(Append(lines, x), r) =
               IF x.rite = r THEN Append(Whats(lines, r), x.what) ELSE Whats(lines, r)
<1> DEFINE m == Len(lines)
<1> HIDE DEF Event
<1>1. PICK more \in Seq(Event) :
          /\ more = Append(lines, x) /\ Len(more) = m + 1
          /\ \A i \in 1..m : more[i] = lines[i]
          /\ more[m + 1] = x
  BY AppendProperties
<1>2. m \in Nat /\ m + 1 \in Nat BY LenProperties
<1>3. PICK f : Through(lines, r, f, m) /\ Whats(lines, r) = f[m]
  BY <1>2, WhatsThrough
<1>4. PICK g : Through(more, r, g, m + 1) /\ Whats(more, r) = g[m + 1]
  BY <1>1, <1>2, WhatsThrough
<1> HIDE DEF m
<1>5. \A n \in 0..m : f[n] = AndNext(lines, r, f, n) BY <1>3 DEF Through
<1>6. \A n \in 0..m + 1 : g[n] = AndNext(more, r, g, n) BY <1>4 DEF Through
<1> DEFINE S == {n \in 0..m : f[n] # g[n]}
<1>7. S = {}
  <2> SUFFICES ASSUME S # {} PROVE FALSE
    OBVIOUS
  <2>1. PICK k \in S : \A j \in S : k <= j
    <3>1. S \in SUBSET Nat BY <1>2
    <3> HIDE DEF S
    <3> QED BY <3>1, LeastIn
  <2>2. k \in 0..m /\ k \in 0..m + 1 /\ f[k] # g[k] BY <1>2
  <2>3. f[k] = AndNext(lines, r, f, k) /\ g[k] = AndNext(more, r, g, k) BY <2>2, <1>5, <1>6
  <2>4. k # 0 BY <2>2, <2>3 DEF AndNext
  <2>5. k \in 1..m /\ k - 1 \in 0..m /\ ~(k <= k - 1) BY <1>2, <2>2, <2>4
  <2>6. f[k - 1] = g[k - 1] /\ more[k] = lines[k] BY <2>1, <2>5, <1>1
  <2> QED BY <2>2, <2>3, <2>4, <2>6 DEF AndNext
<1>8. f[m] = g[m] BY <1>2, <1>7
<1>9. PICK k \in Nat : k = m + 1 BY <1>2
<1>10. k \in 0..m + 1 /\ k # 0 /\ k - 1 = m BY <1>2, <1>9
<1>11. g[k] = IF more[k].rite = r THEN Append(g[k - 1], more[k].what) ELSE g[k - 1]
  <2>1. g[k] = AndNext(more, r, g, k) BY <1>6, <1>10
  <2> QED BY <2>1, <1>10 DEF AndNext
<1>12. g[k] = IF x.rite = r THEN Append(g[m], x.what) ELSE g[m]
  BY <1>1, <1>9, <1>10, <1>11
<1> QED BY <1>1, <1>3, <1>4, <1>8, <1>9, <1>12

-----------------------------------------------------------------------------
(* What a renderer holds, and what it has said of each rite.               *)

Text == [rite : Rite \cup {None}, what : Int]
Held(out) ==
    /\ DOMAIN out = Fields /\ DOMAIN out.tail = {"last", "began"}
    /\ out.known \subseteq Rite /\ out.open \subseteq out.known
    /\ out.sink \in [Rite -> Rite \cup {None}]
    /\ out.buffer \in [Rite -> Seq(Event)] /\ out.printed \in [Rite -> Seq(Int)]
    /\ out.tail.last \in Text

(* A rite's lines, on the terminal and then in the buffer they go to.      *)
Pending(out, r) == IF out.sink[r] = None THEN <<>> ELSE Whats(out.buffer[out.sink[r]], r)
Lines(out, r) == out.printed[r] \o Pending(out, r)

(* A rite that goes on writes to the terminal, or to its own buffer, or to *)
(* that of one it is called in, as what it is called in does; then nothing *)
(* of it is on the terminal.                                               *)
SinksAlong(out) ==
    \A r \in out.open :
        LET into == out.sink[r] IN
        /\ into # None => out.sink[into] = into
        /\ into \notin {None, r} =>
               /\ into \in Above[r] /\ Under[r] # None /\ out.sink[Under[r]] = into
               /\ out.printed[r] = <<>>

(* A buffer is of one that goes on, and of those that write to it.         *)
BuffersOpen(out) ==
    \A b \in Rite :
        /\ out.buffer[b] # <<>> => b \in out.open /\ out.sink[b] = b
        /\ \A i \in 1..Len(out.buffer[b]) : out.sink[out.buffer[b][i].rite] = b

UnknownSilent(out) ==
    \A r \in Rite \ out.known : out.sink[r] = None /\ out.printed[r] = <<>>

TailIsLast(out) ==
    LET l == out.tail.last IN
    l.rite # None => out.printed[l.rite] # <<>> /\ Last(out.printed[l.rite]) = l.what

Sound(out) ==
    /\ Held(out)
    /\ SinksAlong(out) /\ BuffersOpen(out) /\ UnknownSilent(out) /\ TailIsLast(out)

(* What a step of a renderer adds to the lines of a rite, and leaves.      *)
Adds(new, out, r, w) ==
    /\ Lines(new, r) = Append(Lines(out, r), w)
    /\ \A s \in Rite \ {r} : Lines(new, s) = Lines(out, s)

LEMMA PendingTypes ==
    ASSUME NEW out, Held(out), NEW r \in Rite
    PROVE  /\ Pending(out, r) \in Seq(Int) /\ out.printed[r] \in Seq(Int)
           /\ Lines(out, r) \in Seq(Int)
<1>1. /\ out.sink[r] \in Rite \cup {None} /\ out.printed[r] \in Seq(Int)
      /\ \A b \in Rite : out.buffer[b] \in Seq(Event)
  BY DEF Held
<1>2. Pending(out, r) \in Seq(Int)
  <2>1. CASE out.sink[r] = None
    <3>1. Pending(out, r) = <<>> BY <2>1 DEF Pending
    <3> QED BY <3>1
  <2>2. CASE out.sink[r] # None
    <3>1. PICK b \in Seq(Event) : b = out.buffer[out.sink[r]] BY <2>2, <1>1
    <3>2. Pending(out, r) = Whats(b, r) BY <2>2, <3>1 DEF Pending
    <3> QED BY <3>1, <3>2, WhatsTypes
  <2> QED BY <2>1, <2>2
<1> QED BY <1>1, <1>2, ConcatProperties DEF Lines

LEMMA NoneApart ==
    ASSUME ScreenAssumption
    PROVE  None \notin Rite /\ \A r \in Rite : Under[r] # r /\ Under[r] \in Rite \cup {None}
<1>1. ASSUME NEW r \in Rite PROVE Under[r] # r
  <2>1. {r} \in SUBSET Rite /\ {r} # {} OBVIOUS
  <2> QED BY <2>1 DEF ScreenAssumption
<1> QED BY <1>1 DEF ScreenAssumption

(* Those that go on write to buffers of those that go on.                  *)
LEMMA SinkIsOpen ==
    ASSUME ScreenAssumption, NEW out, Sound(out), Rooted(out.open), NEW r \in out.open,
           out.sink[r] # None
    PROVE  out.sink[r] \in out.open /\ out.sink[out.sink[r]] = out.sink[r]
<1>1. r \in Rite /\ out.open \in SUBSET Rite /\ Under[r] \in out.open \cup {None}
  BY DEF Sound, Held, Rooted
<1>2. Above[r] \subseteq out.open BY <1>1, AboveIsIn
<1> QED BY <1>2 DEF Sound, SinksAlong

-----------------------------------------------------------------------------
(* Lines written and kept.                                                 *)

(* A line is written to the terminal, be it none of a rite.                *)
LEMMA PrintsSound ==
    ASSUME ScreenAssumption, NEW out, Sound(out), NEW l \in Text,
           l.rite # None => /\ l.rite \in out.known /\ Pending(out, l.rite) = <<>>
                            /\ out.sink[l.rite] \in {None, l.rite}
    PROVE  /\ Sound(Prints(out, l)) /\ Prints(out, l).open = out.open
           /\ Prints(out, l).known = out.known
           /\ l.rite # None => Adds(Prints(out, l), out, l.rite, l.what)
           /\ l.rite = None => \A s \in Rite : Lines(Prints(out, l), s) = Lines(out, s)
<1> DEFINE new == Prints(out, l)
           said == IF l.rite = None THEN out.printed
                   ELSE [out.printed EXCEPT ![l.rite] = Append(@, l.what)]
<1>0. None \notin Rite /\ l.rite \in Rite \cup {None} /\ l.what \in Int
  BY NoneApart DEF Text
<1>1. /\ Held(out)
      /\ out.printed \in [Rite -> Seq(Int)] /\ out.sink \in [Rite -> Rite \cup {None}]
      /\ out.buffer \in [Rite -> Seq(Event)]
  BY DEF Sound, Held
<1>2. /\ said \in [Rite -> Seq(Int)]
      /\ \A s \in Rite : said[s] = IF s = l.rite THEN Append(out.printed[s], l.what)
                                   ELSE out.printed[s]
  <2>1. l.rite # None => Append(out.printed[l.rite], l.what) \in Seq(Int)
    BY <1>0, <1>1, AppendProperties
  <2> QED BY <2>1, <1>0, <1>1
<1>4. /\ new.known = out.known /\ new.open = out.open /\ new.sink = out.sink
      /\ new.buffer = out.buffer /\ new.printed = said /\ new.tail.last = l
      /\ DOMAIN new = Fields /\ DOMAIN new.tail = {"last", "began"}
  <2> HIDE DEF said
  <2>0. DOMAIN out = Fields BY <1>1 DEF Held
  <2> DEFINE b == out.tail.last # Partial
  <2>1. new = [out EXCEPT !.tail = [last |-> l, began |-> b], !.printed = said]
    BY DEF Prints, said
  <2> HIDE DEF b
  <2> HIDE DEF new
  <2> QED BY <2>0, <2>1 DEF Fields
<1> HIDE DEF new, said
<1>5. SinksAlong(new)
  <2> SUFFICES ASSUME NEW s \in out.open
               PROVE  /\ out.sink[s] # None => out.sink[out.sink[s]] = out.sink[s]
                      /\ out.sink[s] \notin {None, s} =>
                             /\ out.sink[s] \in Above[s] /\ Under[s] # None
                             /\ out.sink[Under[s]] = out.sink[s]
                             /\ said[s] = <<>>
    BY <1>4 DEF SinksAlong
  <2>1. /\ out.sink[s] # None => out.sink[out.sink[s]] = out.sink[s]
        /\ out.sink[s] \notin {None, s} =>
               /\ out.sink[s] \in Above[s] /\ Under[s] # None
               /\ out.sink[Under[s]] = out.sink[s]
               /\ out.printed[s] = <<>>
    BY DEF Sound, SinksAlong
  <2>2. s \in Rite BY <1>1 DEF Held
  <2>3. out.sink[s] \notin {None, s} => s # l.rite BY <1>0, <2>2
  <2> QED BY <2>1, <2>2, <2>3, <1>2
<1>6. BuffersOpen(new)
  <2>1. BuffersOpen(out) BY DEF Sound
  <2> QED BY <2>1, <1>4 DEF BuffersOpen
<1>7. UnknownSilent(new)
  <2>1. \A r \in Rite \ out.known : out.sink[r] = None /\ out.printed[r] = <<>> /\ r # l.rite
    BY <1>0 DEF Sound, UnknownSilent
  <2> QED BY <2>1, <1>2, <1>4 DEF UnknownSilent
<1>8. TailIsLast(new)
  <2>1. ASSUME l.rite # None PROVE said[l.rite] # <<>> /\ Last(said[l.rite]) = l.what
    <3>1. PICK q \in Seq(Int) : q = out.printed[l.rite] BY <2>1, <1>0, <1>1
    <3>2. said[l.rite] = Append(q, l.what) BY <2>1, <3>1, <1>0, <1>2
    <3>3. PICK w \in Int : w = l.what BY <1>0
    <3>4. Append(q, w) # <<>> /\ Last(Append(q, w)) = w BY ONLY AppendEnds
    <3> QED BY ONLY <3>2, <3>3, <3>4
  <2> QED BY <2>1, <1>4 DEF TailIsLast
<1>9. \A s \in Rite : Pending(new, s) = Pending(out, s) BY <1>4 DEF Pending
<1>10. ASSUME NEW s \in Rite, s # l.rite PROVE Lines(new, s) = Lines(out, s)
  BY <1>10, <1>2, <1>4, <1>9 DEF Lines
<1>11. ASSUME l.rite # None PROVE Lines(new, l.rite) = Append(Lines(out, l.rite), l.what)
  <2>1. l.rite \in Rite /\ Pending(out, l.rite) = <<>> BY <1>0, <1>11
  <2>2. PICK q \in Seq(Int) : q = out.printed[l.rite] BY <2>1, <1>1
  <2>3. Lines(out, l.rite) = q BY <2>1, <2>2, ConcatEmptySeq DEF Lines
  <2>4. PICK t \in Seq(Int) : t = said[l.rite] BY <2>1, <1>2
  <2>5. Lines(new, l.rite) = t
    <3>1. Lines(new, l.rite) = t \o <<>> BY <2>1, <2>4, <1>4, <1>9 DEF Lines
    <3> QED BY <3>1, ConcatEmptySeq
  <2>6. t = Append(q, l.what) BY <2>1, <2>2, <2>4, <1>2
  <2> QED BY <2>3, <2>5, <2>6
<1>12. Held(new) BY <1>1, <1>2, <1>4 DEF Held
<1>13. Sound(new) BY <1>5, <1>6, <1>7, <1>8, <1>12 DEF Sound
<1> QED BY <1>4, <1>10, <1>11, <1>13, <1>0 DEF new, Adds

(* A line of a rite is kept in the buffer that takes its lines.            *)
LEMMA KeepsSound ==
    ASSUME ScreenAssumption, NEW out, Sound(out), NEW r \in out.known, NEW w \in Int,
           NEW into, into = out.sink[r], into # None, into \in out.open, out.sink[into] = into
    PROVE  LET new == Emits(out, into, LineOf(r, w)) IN
           /\ Sound(new) /\ new.open = out.open /\ new.known = out.known
           /\ Adds(new, out, r, w)
<1> DEFINE new == Emits(out, into, LineOf(r, w))
           kept == [out.buffer EXCEPT ![into] = Append(@, LineOf(r, w))]
<1>0. None \notin Rite BY NoneApart
<1>1. /\ Held(out) /\ r \in Rite /\ into \in Rite
      /\ out.printed \in [Rite -> Seq(Int)] /\ out.sink \in [Rite -> Rite \cup {None}]
      /\ out.buffer \in [Rite -> Seq(Event)]
  BY DEF Sound, Held
<1>2. LineOf(r, w) \in Event /\ LineOf(r, w).rite = r /\ LineOf(r, w).what = w
  BY <1>1 DEF LineOf, Event
<1>3. PICK was \in Seq(Event) : was = out.buffer[into] BY <1>1
<1>4. PICK more \in Seq(Event) :
          /\ more = Append(was, LineOf(r, w))
          /\ Len(more) = Len(was) + 1 /\ \A i \in 1..Len(was) : more[i] = was[i]
          /\ more[Len(was) + 1] = LineOf(r, w)
  <2> DEFINE x == LineOf(r, w)
  <2>1. x \in Event BY <1>2
  <2> HIDE DEF Event, x
  <2>2. /\ Append(was, x) \in Seq(Event)
        /\ Len(Append(was, x)) = Len(was) + 1 /\ \A i \in 1..Len(was) : Append(was, x)[i] = was[i]
        /\ Append(was, x)[Len(was) + 1] = x
    BY <2>1, AppendProperties
  <2> QED BY <2>2 DEF x
<1>5. /\ kept \in [Rite -> Seq(Event)]
      /\ \A b \in Rite : kept[b] = IF b = into THEN more ELSE out.buffer[b]
  BY <1>1, <1>3, <1>4
<1>6. /\ new.known = out.known /\ new.open = out.open /\ new.sink = out.sink
      /\ new.buffer = kept /\ new.printed = out.printed /\ new.tail = out.tail
      /\ DOMAIN new = Fields
  <2> HIDE DEF kept
  <2>0. DOMAIN out = Fields BY <1>1 DEF Held
  <2>1. new = [out EXCEPT !.buffer = kept] BY DEF Emits, kept
  <2> HIDE DEF new
  <2> QED BY <2>0, <2>1 DEF Fields
<1> HIDE DEF new, kept
<1>7. SinksAlong(new)
  <2>1. SinksAlong(out) BY DEF Sound
  <2> QED BY <2>1, <1>6 DEF SinksAlong
<1>8. BuffersOpen(new)
  <2>1. Len(was) \in Nat BY <1>3, LenProperties
  <2>2. ASSUME NEW b \in Rite
        PROVE  /\ out.buffer[b] # <<>> => b \in out.open /\ out.sink[b] = b
               /\ \A i \in 1..Len(out.buffer[b]) : out.sink[out.buffer[b][i].rite] = b
    BY DEF Sound, BuffersOpen
  <2>3. ASSUME NEW i \in 1..Len(more) PROVE out.sink[more[i].rite] = into
    <3>1. CASE i \in 1..Len(was)
      <4>1. out.sink[was[i].rite] = into BY <3>1, <1>1, <1>3, <2>2
      <4> QED BY <4>1, <3>1, <1>4
    <3>2. CASE i = Len(was) + 1 BY <3>2, <1>2, <1>4
    <3> QED BY <3>1, <3>2, <2>1, <1>4
  <2>4. ASSUME NEW b \in Rite
        PROVE  /\ kept[b] # <<>> => b \in out.open /\ out.sink[b] = b
               /\ \A i \in 1..Len(kept[b]) : out.sink[kept[b][i].rite] = b
    <3>1. CASE b = into BY <3>1, <2>3, <1>5
    <3>2. CASE b # into
      <4>1. kept[b] = out.buffer[b] BY <3>2, <1>5
      <4> QED BY <4>1, <2>2
    <3> QED BY <3>1, <3>2
  <2> QED BY ONLY <2>4, <1>6 DEF BuffersOpen
<1>9. UnknownSilent(new)
  <2>1. UnknownSilent(out) BY DEF Sound
  <2> QED BY <2>1, <1>6 DEF UnknownSilent
<1>10. TailIsLast(new)
  <2>1. TailIsLast(out) BY DEF Sound
  <2> QED BY <2>1, <1>6 DEF TailIsLast
<1>11. Sound(new)
  <2>1. Held(new) BY <1>1, <1>5, <1>6 DEF Held
  <2> QED BY <2>1, <1>7, <1>8, <1>9, <1>10 DEF Sound
<1>12. Whats(more, r) = Append(Whats(was, r), w) BY <1>2, <1>4, WhatsOfMore
<1>13. \A s \in Rite \ {r} : Whats(more, s) = Whats(was, s)
  <2>1. ASSUME NEW s \in Rite \ {r} PROVE Whats(more, s) = Whats(was, s)
    BY <1>2, <1>4, WhatsOfMore
  <2> QED BY <2>1
<1>14. Lines(new, r) = Append(Lines(out, r), w)
  <2>1. Pending(out, r) = Whats(was, r) BY <1>3 DEF Pending
  <2>2. Pending(new, r) = Whats(more, r) BY <1>1, <1>5, <1>6 DEF Pending
  <2>3. PICK p \in Seq(Int), q \in Seq(Int) : p = Whats(was, r) /\ q = out.printed[r]
    BY <1>1, WhatsTypes
  <2>4. Lines(out, r) = q \o p /\ Lines(new, r) = q \o Append(p, w)
    BY <2>1, <2>2, <2>3, <1>6, <1>12 DEF Lines
  <2> QED BY <2>4, AppendToConcat
<1>15. ASSUME NEW s \in Rite \ {r} PROVE Lines(new, s) = Lines(out, s)
  <2>1. Pending(new, s) = Pending(out, s)
    <3>1. CASE out.sink[s] = into
      <4>1. Pending(new, s) = Whats(more, s) BY <3>1, <1>1, <1>5, <1>6 DEF Pending
      <4>2. Pending(out, s) = Whats(was, s) BY <3>1, <1>3 DEF Pending
      <4> QED BY <4>1, <4>2, <1>13
    <3>2. CASE out.sink[s] = None BY <3>2, <1>6 DEF Pending
    <3>3. CASE out.sink[s] \notin {into, None}
      <4>1. out.sink[s] \in Rite BY <3>3, <1>1
      <4>2. kept[out.sink[s]] = out.buffer[out.sink[s]] BY <4>1, <3>3, <1>5
      <4> QED BY <3>3, <4>2, <1>6 DEF Pending
    <3> QED BY <3>1, <3>2, <3>3
  <2> QED BY <2>1, <1>6 DEF Lines
<1> QED BY <1>6, <1>11, <1>14, <1>15 DEF new, Adds

(* A rite's line, to the terminal or to its buffer.                        *)
LEMMA EmitsSound ==
    ASSUME ScreenAssumption, NEW out, Sound(out), NEW r \in out.known, NEW w \in Int,
           out.sink[r] # None =>
               out.sink[r] \in out.open /\ out.sink[out.sink[r]] = out.sink[r]
    PROVE  LET new == Emits(out, out.sink[r], LineOf(r, w)) IN
           /\ Sound(new) /\ new.open = out.open /\ new.known = out.known
           /\ Adds(new, out, r, w)
<1>1. r \in Rite /\ None \notin Rite BY NoneApart DEF Sound, Held
<1>2. CASE out.sink[r] = None
  <2> DEFINE l == LineOf(r, w)
  <2>1. l \in Text /\ l.rite = r /\ l.what = w /\ l.rite # None BY <1>1 DEF LineOf, Text
  <2>2. Pending(out, r) = <<>> BY <1>2 DEF Pending
  <2>3. Emits(out, out.sink[r], l) = Prints(out, l) BY <1>2 DEF Emits
  <2> HIDE DEF l
  <2>4. /\ Sound(Prints(out, l)) /\ Prints(out, l).open = out.open
        /\ Prints(out, l).known = out.known /\ Adds(Prints(out, l), out, l.rite, l.what)
    BY <2>1, <2>2, <1>2, PrintsSound
  <2> QED BY <2>1, <2>3, <2>4 DEF l
<1>3. CASE out.sink[r] # None
  <2>1. PICK into : into = out.sink[r] OBVIOUS
  <2>2. /\ Sound(Emits(out, into, LineOf(r, w)))
        /\ Emits(out, into, LineOf(r, w)).open = out.open
        /\ Emits(out, into, LineOf(r, w)).known = out.known
        /\ Adds(Emits(out, into, LineOf(r, w)), out, r, w)
    BY <2>1, <1>3, KeepsSound
  <2> QED BY <2>1, <2>2
<1> QED BY <1>2, <1>3

LEMMA StreamedSound ==
    ASSUME ScreenAssumption, NEW out, Sound(out), Rooted(out.open), NEW r \in out.open,
           NEW w \in Int
    PROVE  LET new == Streamed(out, r, w) IN
           /\ Sound(new) /\ new.known = out.known /\ Adds(new, out, r, w)
<1>1. r \in out.known BY DEF Sound, Held
<1>2. Streamed(out, r, w) = Emits(out, out.sink[r], LineOf(r, w)) BY <1>1 DEF Streamed
<1>3. out.sink[r] # None => out.sink[r] \in out.open /\ out.sink[out.sink[r]] = out.sink[r]
  BY SinkIsOpen
<1> QED BY <1>1, <1>2, <1>3, EmitsSound

-----------------------------------------------------------------------------
(* A rite begins, and what it says goes with what it is called in.         *)

(* A renderer that has a rite more, and sinks of its own.                  *)
Widened(new, out, r, sinks) ==
    /\ DOMAIN new = Fields
    /\ new.known = out.known \cup {r} /\ new.open = out.open \cup {r} /\ new.sink = sinks
    /\ new.buffer = out.buffer /\ new.printed = out.printed /\ new.tail = out.tail

(* The lines of a rite that is new, kept with those of one it is called in *)
(* that are.                                                               *)
LEMMA SunkSound ==
    ASSUME ScreenAssumption, NEW out, Sound(out), Rooted(out.open),
           NEW r \in Rite \ out.known, Under[r] \in out.open, out.sink[Under[r]] # None,
           NEW new, NEW sinks, sinks = [out.sink EXCEPT ![r] = out.sink[Under[r]]],
           Widened(new, out, r, sinks)
    PROVE  /\ Sound(new) /\ \A s \in Rite : Lines(new, s) = Lines(out, s)
           /\ new.sink[r] \in new.open /\ new.sink[new.sink[r]] = new.sink[r]
<1> USE DEF Widened
<1>1. PICK p \in Rite, into \in Rite :
          /\ p = Under[r] /\ into = out.sink[p] /\ p \in out.open /\ into \in out.open
          /\ out.sink[into] = into /\ p # r /\ into # r
          /\ into \in Above[r]
  <2>1. Under[r] \in Rite BY DEF Sound, Held
  <2>2. out.sink[Under[r]] \in out.open /\ out.sink[out.sink[Under[r]]] = out.sink[Under[r]]
    BY SinkIsOpen
  <2>3. Under[r] \in Above[r] /\ Above[Under[r]] \subseteq Above[r]
    BY <2>1, AboveRooted, AboveThrough, NoneApart
  <2>4. out.sink[Under[r]] = Under[r] \/ out.sink[Under[r]] \in Above[Under[r]]
    BY DEF Sound, SinksAlong
  <2>5. r \notin out.open /\ out.open \subseteq Rite BY DEF Sound, Held
  <2> QED BY <2>1, <2>2, <2>3, <2>4, <2>5
<1>2. /\ out.sink \in [Rite -> Rite \cup {None}] /\ None \notin Rite
      /\ out.open \subseteq Rite /\ out.known \subseteq Rite /\ r \notin out.open
      /\ out.sink[r] = None /\ out.printed[r] = <<>>
      /\ out.buffer \in [Rite -> Seq(Event)]
  BY NoneApart DEF Sound, Held, UnknownSilent
<1>3. \A s \in Rite : new.sink[s] = IF s = r THEN into ELSE out.sink[s]
  BY <1>1, <1>2
<1>4. SinksAlong(new)
  <2> SUFFICES ASSUME NEW s \in out.open \cup {r}
               PROVE  /\ new.sink[s] # None => new.sink[new.sink[s]] = new.sink[s]
                      /\ new.sink[s] \notin {None, s} =>
                             /\ new.sink[s] \in Above[s] /\ Under[s] # None
                             /\ new.sink[Under[s]] = new.sink[s]
                             /\ out.printed[s] = <<>>
    BY DEF SinksAlong
  <2>1. CASE s = r BY <2>1, <1>1, <1>2, <1>3
  <2>2. CASE s # r
    <3>1. /\ out.sink[s] # None => out.sink[out.sink[s]] = out.sink[s]
          /\ out.sink[s] \notin {None, s} =>
                 /\ out.sink[s] \in Above[s] /\ Under[s] # None
                 /\ out.sink[Under[s]] = out.sink[s]
                 /\ out.printed[s] = <<>>
      BY <2>2 DEF Sound, SinksAlong
    <3>2. Under[s] # None => Under[s] \in Rite /\ Under[s] # r
      BY <2>2, <1>2 DEF Rooted
    <3>3. out.sink[s] # r BY <3>1, <1>2
    <3>4. s \in Rite /\ new.sink[s] = out.sink[s] /\ out.sink[s] \in Rite \cup {None}
      BY <2>2, <1>2, <1>3
    <3> QED BY <3>1, <3>2, <3>3, <3>4, <1>3
  <2> QED BY <2>1, <2>2
<1>5. ASSUME NEW b \in Rite, NEW i \in 1..Len(out.buffer[b])
      PROVE  /\ out.buffer[b][i].rite \in Rite \ {r}
             /\ new.sink[out.buffer[b][i].rite] = b
  <2>1. out.buffer[b][i] \in Event
    <3> HIDE DEF Event
    <3>1. PICK q \in Seq(Event) : q = out.buffer[b] BY <1>2
    <3> QED BY <3>1, ElementOfSeq
  <2>2. out.sink[out.buffer[b][i].rite] = b BY DEF Sound, BuffersOpen
  <2> QED BY <2>1, <2>2, <1>2, <1>3 DEF Event
<1>6. BuffersOpen(new)
  <2>1. ASSUME NEW b \in Rite, out.buffer[b] # <<>>
        PROVE  b \in out.open \cup {r} /\ new.sink[b] = b
    <3>1. b \in out.open /\ out.sink[b] = b BY <2>1 DEF Sound, BuffersOpen
    <3> QED BY <3>1, <1>2, <1>3
  <2> QED BY <2>1, <1>5 DEF BuffersOpen
<1>7. UnknownSilent(new)
  <2>1. UnknownSilent(out) BY DEF Sound
  <2> QED BY <2>1, <1>3 DEF UnknownSilent
<1>8. TailIsLast(new)
  <2>1. TailIsLast(out) BY DEF Sound
  <2> QED BY <2>1, SMTT(20) DEF TailIsLast
<1>9. Held(new)
  <2>1. new.sink \in [Rite -> Rite \cup {None}] BY <1>1, <1>2
  <2>2. Held(out) BY DEF Sound
  <2> QED BY <2>1, <2>2, <1>2 DEF Held
<1>10. \A s \in Rite \ {r} : Pending(new, s) = Pending(out, s) BY <1>3 DEF Pending
<1>11. Pending(new, r) = <<>> /\ Pending(out, r) = <<>>
  <2>1. Pending(out, r) = <<>> BY <1>2 DEF Pending
  <2>2. PICK q \in Seq(Event) : q = out.buffer[into] BY <1>1, <1>2
  <2>3. Pending(new, r) = Whats(q, r) BY <2>2, <1>1, <1>2, <1>3 DEF Pending
  <2>4. \A i \in 1..Len(q) : q[i].rite # r BY <2>2, <1>1, <1>5
  <2> QED BY <2>1, <2>3, <2>4, WhatsOfNone
<1>12. \A s \in Rite : Lines(new, s) = Lines(out, s) BY <1>10, <1>11 DEF Lines
<1>13. Sound(new) BY <1>4, <1>6, <1>7, <1>8, <1>9 DEF Sound
<1> QED BY <1>1, <1>2, <1>3, <1>12, <1>13

KeptOn(sinks, out, r, keep) ==
    /\ keep \subseteq out.open \cup {r} /\ \A s \in keep : Under[s] = Under[r]
    /\ sinks \in [Rite -> Rite \cup {None}]
    /\ \A s \in Rite : sinks[s] = IF s \in keep THEN s ELSE out.sink[s]

(* The lines of some rites called in the same, or in none, are kept from   *)
(* now on, a new one's among them.                                         *)
LEMMA KeptSound ==
    ASSUME ScreenAssumption, NEW out, Sound(out), Rooted(out.open),
           NEW r \in Rite \ out.known,
           Under[r] # None => Under[r] \in out.open /\ out.sink[Under[r]] = None,
           NEW keep, NEW sinks, KeptOn(sinks, out, r, keep), NEW new, Widened(new, out, r, sinks)
    PROVE  /\ Sound(new) /\ \A s \in Rite : Lines(new, s) = Lines(out, s)
           /\ Pending(new, r) = <<>> /\ new.sink[r] \in {None, r}
<1> USE DEF Widened, KeptOn
<1>2. /\ out.sink \in [Rite -> Rite \cup {None}] /\ None \notin Rite
      /\ out.open \subseteq Rite /\ out.known \subseteq Rite /\ r \notin out.open
      /\ out.sink[r] = None /\ out.printed[r] = <<>>
      /\ out.buffer \in [Rite -> Seq(Event)]
  BY NoneApart DEF Sound, Held, UnknownSilent
<1>3. \A s \in Rite : new.sink[s] = IF s \in keep THEN s ELSE out.sink[s]
  OBVIOUS
<1>4. \A s \in keep : s \in Rite /\ out.sink[s] \in {None, s}
  <2> SUFFICES ASSUME NEW s \in keep, out.sink[s] \notin {None, s} PROVE FALSE
    BY <1>2
  <2>1. s \in out.open BY <1>2
  <2> QED BY <2>1 DEF Sound, SinksAlong
<1>5. SinksAlong(new)
  <2> SUFFICES ASSUME NEW s \in out.open \cup {r}
               PROVE  /\ new.sink[s] # None => new.sink[new.sink[s]] = new.sink[s]
                      /\ new.sink[s] \notin {None, s} =>
                             /\ new.sink[s] \in Above[s] /\ Under[s] # None
                             /\ new.sink[Under[s]] = new.sink[s]
                             /\ out.printed[s] = <<>>
    BY DEF SinksAlong
  <2>1. CASE s \in keep BY <2>1, <1>2, <1>3, <1>4
  <2>2. CASE s = r /\ s \notin keep BY <2>2, <1>2, <1>3
  <2>3. CASE s # r /\ s \notin keep
    <3>1. /\ out.sink[s] # None => out.sink[out.sink[s]] = out.sink[s]
          /\ out.sink[s] \notin {None, s} =>
                 /\ out.sink[s] \in Above[s] /\ Under[s] # None
                 /\ out.sink[Under[s]] = out.sink[s]
                 /\ out.printed[s] = <<>>
      BY <2>3 DEF Sound, SinksAlong
    <3>2. Under[s] # None => Under[s] \in Rite BY <2>3, <1>2 DEF Rooted
    <3>3. s \in Rite /\ new.sink[s] = out.sink[s] /\ out.sink[s] \in Rite \cup {None}
      BY <2>3, <1>2, <1>3
    <3>4. Under[s] \in keep /\ out.sink[Under[s]] # None => out.sink[Under[s]] = Under[s]
      BY <1>4
    <3> QED BY <3>1, <3>2, <3>3, <3>4, <1>3
  <2> QED BY <2>1, <2>2, <2>3
<1>6. ASSUME NEW b \in Rite, NEW i \in 1..Len(out.buffer[b])
      PROVE  /\ out.buffer[b][i].rite \in Rite \ {r}
             /\ new.sink[out.buffer[b][i].rite] = b
  <2>1. out.buffer[b][i] \in Event
    <3> HIDE DEF Event
    <3>1. PICK q \in Seq(Event) : q = out.buffer[b] BY <1>2
    <3> QED BY <3>1, ElementOfSeq
  <2>2. out.sink[out.buffer[b][i].rite] = b BY DEF Sound, BuffersOpen
  <2>3. out.buffer[b][i].rite \in Rite \ {r} BY <2>1, <2>2, <1>2 DEF Event
  <2> QED BY <2>2, <2>3, <1>2, <1>3, <1>4
<1>7. ASSUME NEW b \in Rite, out.buffer[b] # <<>>
      PROVE  b \in out.open /\ out.sink[b] = b /\ new.sink[b] = b
  <2>1. b \in out.open /\ out.sink[b] = b BY <1>7 DEF Sound, BuffersOpen
  <2> QED BY <2>1, <1>2, <1>3
<1>8. BuffersOpen(new) BY <1>6, <1>7 DEF BuffersOpen
<1>9. UnknownSilent(new)
  <2>1. \A s \in Rite \ new.known : s \notin keep
    <3>1. out.open \subseteq out.known BY DEF Sound, Held
    <3> QED BY <3>1
  <2>2. UnknownSilent(out) BY DEF Sound
  <2> QED BY <2>1, <2>2, <1>3 DEF UnknownSilent
<1>10. TailIsLast(new)
  <2>1. TailIsLast(out) BY DEF Sound
  <2> QED BY <2>1 DEF TailIsLast
<1>11. Held(new)
  <2> QED BY <1>2 DEF Sound, Held
<1>12. \A s \in Rite \ keep : Pending(new, s) = Pending(out, s) BY <1>3 DEF Pending
<1>13. ASSUME NEW s \in keep PROVE Pending(new, s) = Pending(out, s)
  <2>1. s \in Rite /\ new.sink[s] = s /\ s # None BY <1>2, <1>3, <1>4
  <2>2. Pending(new, s) = Whats(out.buffer[s], s) BY <2>1 DEF Pending
  <2>3. CASE out.sink[s] = s BY <2>1, <2>2, <2>3 DEF Pending
  <2>4. CASE out.sink[s] = None
    <3>1. out.buffer[s] = <<>> BY <2>1, <2>4, <1>7
    <3>2. Whats(<<>>, s) = <<>>
      <4>1. <<>> \in Seq(Event) /\ \A i \in 1..Len(<<>>) : <<>>[i].rite # s OBVIOUS
      <4> QED BY <4>1, WhatsOfNone
    <3>3. Pending(out, s) = <<>> BY <2>4 DEF Pending
    <3> QED BY <2>2, <3>1, <3>2, <3>3
  <2> QED BY <2>3, <2>4, <1>4
<1>14. \A s \in Rite : Pending(new, s) = Pending(out, s) BY <1>12, <1>13
<1>15. \A s \in Rite : Lines(new, s) = Lines(out, s) BY <1>14 DEF Lines
<1>16. Pending(out, r) = <<>> BY <1>2 DEF Pending
<1>17. Sound(new) BY <1>5, <1>8, <1>9, <1>10, <1>11 DEF Sound
<1> QED BY <1>2, <1>3, <1>14, <1>15, <1>16, <1>17

LEMMA BeganSound ==
    ASSUME ScreenAssumption, NEW out, Sound(out), Rooted(out.open),
           NEW r \in Rite \ out.known, Under[r] # None => Under[r] \in out.open
    PROVE  LET new == Began(out, r) IN
           /\ Sound(new) /\ new.known = out.known \cup {r}
           /\ Lines(out, r) = <<>> /\ Adds(new, out, r, Opening)
<1> DEFINE keep == IF Siblings(out, r) = {} THEN {} ELSE Siblings(out, r) \cup {r}
           more == [out EXCEPT !.known = @ \cup {r}, !.open = @ \cup {r}]
           line1 == LineOf(r, Opening)
<1>0. /\ DOMAIN out = Fields /\ None \notin Rite
      /\ out.open \subseteq out.known /\ out.known \subseteq Rite
  BY NoneApart DEF Sound, Held
<1>1. /\ DOMAIN more = Fields
      /\ more.known = out.known \cup {r} /\ more.open = out.open \cup {r}
      /\ more.sink = out.sink /\ more.buffer = out.buffer
      /\ more.printed = out.printed /\ more.tail = out.tail
  BY <1>0 DEF Fields
<1>2. Lines(out, r) = <<>>
  <2>1. out.sink[r] = None /\ out.printed[r] = <<>> BY DEF Sound, UnknownSilent
  <2> QED BY <2>1 DEF Lines, Pending
<1>3. Under[r] \in out.known <=> Under[r] # None
  BY <1>0
<1>4. line1 \in Text /\ line1.rite = r /\ line1.what = Opening /\ line1.rite # None
  BY <1>0 DEF LineOf, Text, Opening
<1>5. CASE Under[r] # None /\ out.sink[Under[r]] # None
  <2> DEFINE new == [more EXCEPT !.sink[r] = out.sink[Under[r]]]
  <2>1. Began(out, r) = Emits(new, out.sink[Under[r]], line1)
    BY <1>3, <1>5 DEF Began, Opens
  <2> HIDE DEF more, line1
  <2>2. /\ DOMAIN new = Fields
        /\ new.known = out.known \cup {r} /\ new.open = out.open \cup {r}
        /\ new.sink = [out.sink EXCEPT ![r] = out.sink[Under[r]]]
        /\ new.buffer = out.buffer /\ new.printed = out.printed /\ new.tail = out.tail
    BY <1>1 DEF Fields
  <2> HIDE DEF new
  <2>3. /\ Sound(new) /\ \A s \in Rite : Lines(new, s) = Lines(out, s)
        /\ new.sink[r] \in new.open /\ new.sink[new.sink[r]] = new.sink[r]
    <3>1. Under[r] \in out.open BY <1>5
    <3>2. PICK sinks : sinks = [out.sink EXCEPT ![r] = out.sink[Under[r]]] OBVIOUS
    <3>3. Widened(new, out, r, sinks) BY <3>2, <2>2 DEF Widened
    <3> QED BY <3>1, <3>2, <3>3, <1>5, SunkSound
  <2>4. new.sink[r] = out.sink[Under[r]]
    BY <2>2 DEF Sound, Held
  <2>5. r \in new.known /\ Opening \in Int BY <2>2 DEF Opening
  <2>6. LET last == Emits(new, new.sink[r], LineOf(r, Opening)) IN
        /\ Sound(last) /\ last.known = new.known /\ Adds(last, new, r, Opening)
    BY <2>3, <2>5, EmitsSound
  <2>7. LET last == Began(out, r) IN
        /\ Sound(last) /\ last.known = new.known /\ Adds(last, new, r, Opening)
    BY <2>1, <2>4, <2>6 DEF line1
  <2> QED BY <2>2, <2>3, <2>7, <1>2 DEF Adds
<1>6. CASE Under[r] # None => out.sink[Under[r]] = None
  <2> DEFINE new == [more EXCEPT !.sink = [s \in Rite |-> IF s \in keep THEN s ELSE @[s]]]
  <2>1. Began(out, r) = Prints(new, line1)
    BY <1>3, <1>6 DEF Began, Opens
  <2> HIDE DEF more, line1
  <2>0. keep \in SUBSET (out.open \cup {r}) /\ \A s \in keep : Under[s] = Under[r]
    BY DEF Siblings
  <2> HIDE DEF keep
  <2>2. /\ DOMAIN new = Fields
        /\ new.known = out.known \cup {r} /\ new.open = out.open \cup {r}
        /\ new.sink = [s \in Rite |-> IF s \in keep THEN s ELSE out.sink[s]]
        /\ new.buffer = out.buffer /\ new.printed = out.printed /\ new.tail = out.tail
    BY <1>1 DEF Fields
  <2> HIDE DEF new
  <2>3. /\ Sound(new) /\ \A s \in Rite : Lines(new, s) = Lines(out, s)
        /\ Pending(new, r) = <<>> /\ new.sink[r] \in {None, r}
    <3>1. Under[r] # None => Under[r] \in out.open /\ out.sink[Under[r]] = None BY <1>6
    <3>2. KeptOn(new.sink, out, r, keep)
      <4>1. out.sink \in [Rite -> Rite \cup {None}] /\ keep \subseteq Rite
        BY <2>0 DEF Sound, Held
      <4> QED BY <4>1, <2>0, <2>2 DEF KeptOn
    <3>3. Widened(new, out, r, new.sink) BY <2>2 DEF Widened
    <3> QED BY <3>1, <3>2, <3>3, KeptSound
  <2>4. r \in new.known BY <2>2
  <2>5. /\ Sound(Prints(new, line1)) /\ Prints(new, line1).known = new.known
        /\ Adds(Prints(new, line1), new, r, Opening)
    BY <2>3, <2>4, <1>4, PrintsSound
  <2> QED BY <2>1, <2>2, <2>3, <2>5, <1>2 DEF Adds
<1> QED BY <1>5, <1>6

-----------------------------------------------------------------------------
(* A rite ends, and what it kept is told.                                  *)

(* A rite that ends has none under it that goes on: none writes to its     *)
(* buffer.                                                                 *)
LEMMA NoneSinksIn ==
    ASSUME ScreenAssumption, NEW out, Sound(out), NEW r \in out.open, Rooted(out.open \ {r}),
           NEW s \in out.open \ {r}
    PROVE  out.sink[s] # r
<1>1. s \in Rite /\ r \in Rite /\ out.open \in SUBSET Rite BY DEF Sound, Held
<1>2. Above[s] \subseteq out.open \ {r}
  <2>1. Under[s] \in (out.open \ {r}) \cup {None} BY DEF Rooted
  <2>2. out.open \ {r} \in SUBSET Rite BY <1>1
  <2> QED BY <2>1, <2>2, <1>1, AboveIsIn
<1>3. None \notin Rite BY NoneApart
<1> QED BY <1>1, <1>2, <1>3 DEF Sound, SinksAlong

(* It is closed: what it kept is written.                                  *)
LEMMA ClosedSound ==
    ASSUME ScreenAssumption, NEW out, Sound(out), NEW r \in out.open, Rooted(out.open \ {r}),
           out.sink[r] # r
    PROVE  LET new == [out EXCEPT !.open = @ \ {r}] IN
           /\ Sound(new) /\ \A s \in Rite : Lines(new, s) = Lines(out, s)
           /\ new.known = out.known /\ new.open = out.open \ {r} /\ new.sink = out.sink
           /\ new.printed = out.printed
<1> DEFINE new == [out EXCEPT !.open = @ \ {r}]
<1>1. DOMAIN out = Fields BY DEF Sound, Held
<1>2. /\ DOMAIN new = Fields
      /\ new.known = out.known /\ new.open = out.open \ {r} /\ new.sink = out.sink
      /\ new.buffer = out.buffer /\ new.printed = out.printed /\ new.tail = out.tail
  BY <1>1 DEF Fields
<1> HIDE DEF new
<1>3. Held(new) BY <1>2 DEF Sound, Held
<1>4. SinksAlong(new)
  <2>1. SinksAlong(out) BY DEF Sound
  <2> QED BY <2>1, <1>2 DEF SinksAlong
<1>5. BuffersOpen(new)
  <2>1. ASSUME NEW b \in Rite
        PROVE  /\ out.buffer[b] # <<>> => b \in out.open \ {r} /\ out.sink[b] = b
               /\ \A i \in 1..Len(out.buffer[b]) : out.sink[out.buffer[b][i].rite] = b
    BY DEF Sound, BuffersOpen
  <2> QED BY <2>1, <1>2 DEF BuffersOpen
<1>6. UnknownSilent(new) /\ TailIsLast(new)
  <2>1. UnknownSilent(out) /\ TailIsLast(out) BY DEF Sound
  <2> QED BY <2>1, <1>2 DEF UnknownSilent, TailIsLast
<1>7. \A s \in Rite : Lines(new, s) = Lines(out, s) BY <1>2 DEF Lines, Pending
<1>8. Sound(new) BY <1>3, <1>4, <1>5, <1>6 DEF Sound
<1> QED BY <1>2, <1>7, <1>8 DEF new

LEMMA ToldSound ==
    ASSUME ScreenAssumption, NEW out, Sound(out), NEW r \in out.open, Rooted(out.open \ {r}),
           out.sink[r] = r
    PROVE  LET closed == [out EXCEPT !.open = @ \ {r}]
               new == PrintsAll([closed EXCEPT !.buffer[r] = <<>>, !.sink[r] = None], out.buffer[r])
           IN  /\ Sound(new) /\ \A s \in Rite : Lines(new, s) = Lines(out, s)
               /\ new.known = out.known /\ new.open = out.open \ {r} /\ new.sink[r] = None
<1> DEFINE closed == [out EXCEPT !.open = @ \ {r}]
           quiet == [closed EXCEPT !.buffer[r] = <<>>, !.sink[r] = None]
           lines == out.buffer[r]
           new == PrintsAll(quiet, lines)
<1>0. /\ DOMAIN out = Fields /\ DOMAIN out.tail = {"last", "began"}
      /\ None \notin Rite /\ r \in Rite
      /\ out.sink \in [Rite -> Rite \cup {None}] /\ out.open \subseteq out.known
      /\ out.known \subseteq Rite /\ out.tail.last \in Text
      /\ out.buffer \in [Rite -> Seq(Event)] /\ out.printed \in [Rite -> Seq(Int)]
  BY NoneApart DEF Sound, Held
<1>1. /\ DOMAIN closed = Fields
      /\ closed.known = out.known /\ closed.open = out.open \ {r} /\ closed.sink = out.sink
      /\ closed.buffer = out.buffer /\ closed.printed = out.printed /\ closed.tail = out.tail
  BY <1>0 DEF Fields
<1> HIDE DEF closed
<1>2. /\ DOMAIN quiet = Fields
      /\ quiet.known = out.known /\ quiet.open = out.open \ {r}
      /\ quiet.sink = [out.sink EXCEPT ![r] = None]
      /\ quiet.buffer = [out.buffer EXCEPT ![r] = <<>>]
      /\ quiet.printed = out.printed /\ quiet.tail = out.tail
  BY <1>1 DEF Fields
<1> HIDE DEF quiet
<1>3. PICK q \in Seq(Event) : q = lines BY <1>0
<1>4. \A s \in Rite : Whats(q, s) \in Seq(Int)
  <2>1. ASSUME NEW s \in Rite PROVE Whats(q, s) \in Seq(Int) BY WhatsTypes
  <2> QED BY <2>1
<1>5. Whats(<<>>, r) = <<>> /\ \A s \in Rite : q = <<>> => Whats(q, s) = <<>>
  <2>1. <<>> \in Seq(Event) /\ \A s \in Rite : \A i \in 1..Len(<<>>) : <<>>[i].rite # s OBVIOUS
  <2>2. ASSUME NEW s \in Rite PROVE Whats(<<>>, s) = <<>> BY <2>1, WhatsOfNone
  <2> QED BY <2>2, <1>0
<1>6. /\ DOMAIN new = Fields
      /\ new.known = out.known /\ new.open = out.open \ {r}
      /\ new.sink = [out.sink EXCEPT ![r] = None]
      /\ new.buffer = [out.buffer EXCEPT ![r] = <<>>]
      /\ new.printed \in [Rite -> Seq(Int)]
      /\ \A s \in Rite : new.printed[s] = out.printed[s] \o Whats(q, s)
      /\ DOMAIN new.tail = {"last", "began"}
      /\ new.tail.last = IF q = <<>> THEN out.tail.last ELSE Last(q)
  <2> DEFINE said == [s \in Rite |-> out.printed[s] \o Whats(q, s)]
  <2>1. /\ said \in [Rite -> Seq(Int)]
        /\ \A s \in Rite : said[s] = out.printed[s] \o Whats(q, s)
    <3>1. ASSUME NEW s \in Rite PROVE out.printed[s] \o Whats(q, s) \in Seq(Int)
      <4>1. PICK a \in Seq(Int), b \in Seq(Int) : a = out.printed[s] /\ b = Whats(q, s)
        BY <1>0, <1>4
      <4> QED BY <4>1, ConcatProperties
    <3> QED BY <3>1
  <2>2. CASE q = <<>>
    <3>1. new = quiet BY <2>2, <1>3 DEF PrintsAll
    <3>2. ASSUME NEW s \in Rite PROVE out.printed[s] = out.printed[s] \o Whats(q, s)
      <4>1. PICK a \in Seq(Int) : a = out.printed[s] BY <1>0
      <4>2. Whats(q, s) = <<>> BY <2>2, <1>5
      <4> QED BY <4>1, <4>2, ConcatEmptySeq
    <3> QED BY <3>1, <3>2, <2>2, <1>0, <1>2
  <2>3. CASE q # <<>>
    <3> DEFINE b == Len(q) > 1 \/ quiet.tail.last # Partial
    <3>1. new = [quiet EXCEPT !.tail = [last |-> Last(q), began |-> b], !.printed = said]
      BY <2>3, <1>3, <1>2 DEF PrintsAll
    <3> HIDE DEF b, new, said
    <3> QED BY <3>1, <2>1, <2>3, <1>2 DEF Fields
  <2> QED BY <2>2, <2>3
<1> HIDE DEF new, lines
<1>7. /\ \A s \in Rite : new.sink[s] = IF s = r THEN None ELSE out.sink[s]
      /\ \A b \in Rite : new.buffer[b] = IF b = r THEN <<>> ELSE out.buffer[b]
      /\ new.sink \in [Rite -> Rite \cup {None}] /\ new.buffer \in [Rite -> Seq(Event)]
  <2> HIDE DEF Event
  <2> QED BY <1>0, <1>6, SMTT(20)
(* Only what writes to it is in its buffer.                                *)
<1>8. ASSUME NEW s \in Rite, out.sink[s] # r PROVE Whats(q, s) = <<>>
  <2>1. \A i \in 1..Len(q) : out.sink[q[i].rite] = r
    BY <1>0, <1>3 DEF Sound, BuffersOpen, lines
  <2>2. \A i \in 1..Len(q) : q[i].rite # s BY <2>1, <1>8
  <2>3. q \in Seq(Event) BY <1>3
  <2> HIDE DEF Event
  <2> QED BY ONLY <2>2, <2>3, WhatsOfNone
<1>9. ASSUME NEW s \in Rite, out.sink[s] # r PROVE new.printed[s] = out.printed[s]
  <2>1. PICK a \in Seq(Int) : a = out.printed[s] BY <1>0
  <2>2. Whats(q, s) = <<>> BY <1>8, <1>9
  <2>3. new.printed[s] = out.printed[s] \o Whats(q, s) BY <1>6
  <2> QED BY <2>1, <2>2, <2>3, ConcatEmptySeq
<1>10. \A s \in out.open \ {r} : out.sink[s] # r
  BY NoneSinksIn
<1>11. SinksAlong(new)
  <2> SUFFICES ASSUME NEW s \in out.open \ {r}
               PROVE  /\ new.sink[s] # None => new.sink[new.sink[s]] = new.sink[s]
                      /\ new.sink[s] \notin {None, s} =>
                             /\ new.sink[s] \in Above[s] /\ Under[s] # None
                             /\ new.sink[Under[s]] = new.sink[s]
                             /\ new.printed[s] = <<>>
    BY <1>6 DEF SinksAlong
  <2>1. /\ out.sink[s] # None => out.sink[out.sink[s]] = out.sink[s]
        /\ out.sink[s] \notin {None, s} =>
               /\ out.sink[s] \in Above[s] /\ Under[s] # None
               /\ out.sink[Under[s]] = out.sink[s]
               /\ out.printed[s] = <<>>
    BY DEF Sound, SinksAlong
  <2>2. s \in Rite /\ s # r /\ out.sink[s] # r /\ new.printed[s] = out.printed[s]
    BY <1>0, <1>9, <1>10
  <2>3. new.sink[s] = out.sink[s] BY <2>2, <1>7
  <2>4. Under[s] # None => Under[s] \in Rite /\ Under[s] # r BY <1>0 DEF Rooted
  <2>5. out.sink[s] # None => out.sink[s] \in Rite BY <2>2, <1>0
  <2> QED BY <2>1, <2>2, <2>3, <2>4, <2>5, <1>7
<1>12. BuffersOpen(new)
  <2>1. ASSUME NEW b \in Rite
        PROVE  /\ new.buffer[b] # <<>> => b \in out.open \ {r} /\ new.sink[b] = b
               /\ \A i \in 1..Len(new.buffer[b]) : new.sink[new.buffer[b][i].rite] = b
    <3>1. CASE b = r BY <3>1, <1>7
    <3>2. CASE b # r
      <4>1. new.buffer[b] = out.buffer[b] /\ new.sink[b] = out.sink[b] BY <3>2, <1>7
      <4>2. /\ out.buffer[b] # <<>> => b \in out.open /\ out.sink[b] = b
            /\ \A i \in 1..Len(out.buffer[b]) : out.sink[out.buffer[b][i].rite] = b
        BY DEF Sound, BuffersOpen
      <4>3. ASSUME NEW i \in 1..Len(out.buffer[b]) PROVE new.sink[out.buffer[b][i].rite] = b
        <5>1. PICK a \in Seq(Event) : a = out.buffer[b] BY <1>0
        <5>2. a[i] \in Event
          <6> HIDE DEF Event
          <6> QED BY <5>1, ElementOfSeq
        <5>3. out.sink[a[i].rite] = b /\ a[i].rite \in Rite BY <5>1, <5>2, <4>2 DEF Event
        <5>4. a[i].rite # r BY <5>3, <3>2
        <5> QED BY <5>1, <5>3, <5>4, <1>7
      <4> QED BY <4>1, <4>2, <4>3, <3>2
    <3> QED BY <3>1, <3>2
  <2> QED BY <2>1, <1>6 DEF BuffersOpen
<1>13. UnknownSilent(new)
  <2>1. ASSUME NEW s \in Rite \ out.known PROVE new.sink[s] = None /\ new.printed[s] = <<>>
    <3>1. out.sink[s] = None /\ out.printed[s] = <<>> BY DEF Sound, UnknownSilent
    <3> QED BY <3>1, <1>0, <1>7, <1>9
  <2> QED BY <2>1, <1>6 DEF UnknownSilent
<1>14. new.tail.last \in Text /\ TailIsLast(new)
  <2>1. CASE q = <<>>
    <3>1. TailIsLast(out) BY DEF Sound
    <3>2. \A s \in Rite : new.printed[s] = out.printed[s]
      <4>1. ASSUME NEW s \in Rite PROVE new.printed[s] = out.printed[s]
        <5>1. PICK a \in Seq(Int) : a = out.printed[s] BY <1>0
        <5>2. new.printed[s] = a \o <<>> BY <5>1, <2>1, <1>5, <1>6
        <5> QED BY <5>1, <5>2, ConcatEmptySeq
      <4> QED BY <4>1
    <3>3. new.tail.last = out.tail.last BY <2>1, <1>6
    <3>4. out.tail.last.rite \in Rite \cup {None} BY <1>0 DEF Text
    <3> QED BY <3>1, <3>2, <3>3, <3>4, <1>0 DEF TailIsLast
  <2>2. CASE q # <<>>
    <3>1. Front(q) \in Seq(Event) /\ Last(q) \in Event /\ q = Append(Front(q), Last(q))
      <4> HIDE DEF Event
      <4> QED BY <2>2, FrontAndLast
    <3>2. PICK f \in Seq(Event), l \in Event : l = Last(q) /\ q = Append(f, l) BY <3>1
    <3>3. new.tail.last = l /\ l.rite \in Rite /\ l.what \in Int /\ l \in Text
      BY <3>2, <2>2, <1>6 DEF Event, Text
    <3>4. PICK a \in Seq(Int), b \in Seq(Int) : a = out.printed[l.rite] /\ b = Whats(f, l.rite)
      BY <3>3, <1>0, WhatsTypes
    <3>5. Whats(q, l.rite) = Append(b, l.what)
      <4>1. Whats(Append(f, l), l.rite) = Append(Whats(f, l.rite), l.what) BY WhatsOfMore
      <4> QED BY <4>1, <3>2, <3>4
    <3>6. new.printed[l.rite] = Append(a \o b, l.what)
      <4>1. new.printed[l.rite] = a \o Append(b, l.what) BY <3>3, <3>4, <3>5, <1>6
      <4> QED BY <4>1, <3>3, AppendToConcat, SMTT(20)
    <3>7. new.printed[l.rite] # <<>> /\ Last(new.printed[l.rite]) = l.what
      <4>1. PICK t \in Seq(Int) : t = a \o b BY ConcatProperties
      <4>2. PICK w \in Int : w = l.what BY <3>3
      <4>3. Append(t, w) # <<>> /\ Last(Append(t, w)) = w BY ONLY AppendEnds
      <4> QED BY <4>1, <4>2, <4>3, <3>6
    <3> QED BY <3>3, <3>7 DEF TailIsLast
  <2> QED BY <2>1, <2>2
<1>15. Held(new) BY <1>0, <1>6, <1>7, <1>14 DEF Held
<1>16. Sound(new) BY <1>11, <1>12, <1>13, <1>14, <1>15 DEF Sound
<1>17. ASSUME NEW s \in Rite PROVE Lines(new, s) = Lines(out, s)
  <2>1. PICK a \in Seq(Int), b \in Seq(Int) : a = out.printed[s] /\ b = Whats(q, s)
    BY <1>0, <1>4
  <2>2. CASE out.sink[s] = r
    <3>1. Pending(out, s) = b BY <2>1, <2>2, <1>0, <1>3 DEF Pending, lines
    <3>2. Pending(new, s) = <<>>
      <4>1. CASE s = r BY <4>1, <1>7 DEF Pending
      <4>2. CASE s # r
        <5>1. Pending(new, s) = Whats(<<>>, s) BY <4>2, <2>2, <1>0, <1>7 DEF Pending
        <5>2. <<>> \in Seq(Event) /\ \A i \in 1..Len(<<>>) : <<>>[i].rite # s OBVIOUS
        <5> QED BY <5>1, <5>2, WhatsOfNone
      <4> QED BY <4>1, <4>2
    <3>3. a \o b \in Seq(Int) BY ConcatProperties
    <3>4. Lines(new, s) = (a \o b) \o <<>> /\ Lines(out, s) = a \o b
      BY <3>1, <3>2, <2>1, <1>6 DEF Lines
    <3> QED BY <3>3, <3>4, ConcatEmptySeq
  <2>3. CASE out.sink[s] # r
    <3>1. new.sink[s] = out.sink[s] BY <2>3, <1>0, <1>7
    <3>2. out.sink[s] \in (Rite \ {r}) \cup {None} BY <2>3, <1>0
    <3>3. out.sink[s] # None => new.buffer[out.sink[s]] = out.buffer[out.sink[s]]
      BY <3>2, <1>7
    <3>4. Pending(new, s) = Pending(out, s) BY <3>1, <3>3 DEF Pending
    <3> QED BY <3>4, <2>3, <1>9 DEF Lines
  <2> QED BY <2>2, <2>3
<1>18. new.known = out.known /\ new.open = out.open \ {r} /\ new.sink[r] = None
  BY <1>0, <1>6, <1>7
<1> QED BY <1>16, <1>17, <1>18 DEF new, quiet, closed, lines

(* The last of a rite's lines, which opened it, gives way to its ending.   *)
Gives(new, out, r) ==
    /\ \E f \in Seq(Int) :
           Lines(out, r) = Append(f, Opening) /\ Lines(new, r) = Append(f, Ending)
    /\ \A s \in Rite \ {r} : Lines(new, s) = Lines(out, s)

LEMMA TakenOffSound ==
    ASSUME ScreenAssumption, NEW out, Sound(out), NEW r \in out.known, out.sink[r] = None,
           Shown(out, r), out.tail.last = LineOf(r, Opening)
    PROVE  Sound(TakesBack(out, r)) /\ Gives(TakesBack(out, r), out, r)
<1> DEFINE less == [out.printed EXCEPT ![out.tail.last.rite] = Front(@)]
           said == [less EXCEPT ![r] = Append(@, Ending)]
           last1 == LineOf(r, Ending)
           new == TakesBack(out, r)
<1>0. /\ DOMAIN out = Fields /\ DOMAIN out.tail = {"last", "began"}
      /\ None \notin Rite /\ r \in Rite /\ Opening \in Int /\ Ending \in Int
      /\ out.sink \in [Rite -> Rite \cup {None}] /\ out.open \subseteq out.known
      /\ out.known \subseteq Rite
      /\ out.buffer \in [Rite -> Seq(Event)] /\ out.printed \in [Rite -> Seq(Int)]
  BY NoneApart DEF Sound, Held, Opening, Ending
<1>1. out.tail.last.rite = r /\ out.tail.last.what = Opening
  BY DEF LineOf
<1>2. PICK q \in Seq(Int) : q = out.printed[r] BY <1>0
<1>3. q # <<>> /\ Last(q) = Opening BY <1>0, <1>1, <1>2 DEF Sound, TailIsLast
<1>4. PICK f \in Seq(Int) : f = Front(q) /\ q = Append(f, Opening)
  <2>1. Front(q) \in Seq(Int) /\ q = Append(Front(q), Last(q)) BY ONLY <1>3, q \in Seq(Int), FrontAndLast
  <2> QED BY ONLY <2>1, <1>3
<1>5. less \in [Rite -> Seq(Int)] /\ \A s \in Rite : less[s] = IF s = r THEN f ELSE out.printed[s]
  BY <1>0, <1>1, <1>2, <1>4
<1>6. PICK g \in Seq(Int) : g = Append(f, Ending) /\ g # <<>> /\ Last(g) = Ending
  <2>1. PICK e \in Int : e = Ending BY <1>0
  <2>2. Append(f, e) \in Seq(Int) /\ Append(f, e) # <<>> /\ Last(Append(f, e)) = e
    BY ONLY AppendEnds
  <2> QED BY ONLY <2>1, <2>2
<1>7. /\ said \in [Rite -> Seq(Int)]
      /\ \A s \in Rite : said[s] = IF s = r THEN g ELSE out.printed[s]
  <2> HIDE DEF less
  <2> QED BY <1>0, <1>5, <1>6
<1>8. /\ DOMAIN new = Fields /\ DOMAIN new.tail = {"last", "began"}
      /\ new.known = out.known /\ new.open = out.open /\ new.sink = out.sink
      /\ new.buffer = out.buffer /\ new.printed = said /\ new.tail.last = last1
  <2>1. new = [out EXCEPT !.tail.last = last1, !.printed = said] BY DEF TakesBack
  <2> HIDE DEF new, said, last1
  <2> QED BY <2>1, <1>0 DEF Fields
<1>9. last1 \in Text /\ last1.rite = r /\ last1.what = Ending
  BY <1>0 DEF LineOf, Text
<1> HIDE DEF new, said, less, last1
<1>10. SinksAlong(new)
  <2>1. \A s \in out.open : out.sink[s] # None => said[s] = out.printed[s]
    BY <1>0, <1>7
  <2>2. ASSUME NEW s \in out.open, out.sink[s] \notin {None, s} PROVE said[s] = <<>>
    BY <2>1, <2>2 DEF Sound, SinksAlong
  <2>3. SinksAlong(out) BY DEF Sound
  <2> QED BY <2>2, <2>3, <1>8 DEF SinksAlong
<1>11. BuffersOpen(new)
  <2>1. BuffersOpen(out) BY DEF Sound
  <2> QED BY <2>1, <1>8 DEF BuffersOpen
<1>12. UnknownSilent(new)
  <2>1. UnknownSilent(out) BY DEF Sound
  <2> QED BY <2>1, <1>7, <1>8 DEF UnknownSilent
<1>13. TailIsLast(new) BY <1>0, <1>6, <1>7, <1>8, <1>9 DEF TailIsLast
<1>14. Held(new) BY <1>0, <1>7, <1>8, <1>9 DEF Held
<1>15. Sound(new) BY <1>10, <1>11, <1>12, <1>13, <1>14 DEF Sound
<1>16. \A s \in Rite : Pending(new, s) = Pending(out, s) BY <1>8 DEF Pending
<1>17. \A s \in Rite \ {r} : Lines(new, s) = Lines(out, s)
  BY <1>7, <1>8, <1>16 DEF Lines
<1>18. Lines(out, r) = Append(f, Opening) /\ Lines(new, r) = Append(f, Ending)
  <2>1. Pending(out, r) = <<>> BY DEF Pending
  <2>2. Lines(out, r) = q \o <<>> /\ Lines(new, r) = g \o <<>>
    BY <2>1, <1>0, <1>2, <1>7, <1>8, <1>16 DEF Lines
  <2>3. q \o <<>> = q /\ g \o <<>> = g BY ConcatEmptySeq
  <2> QED BY <2>2, <2>3, <1>4, <1>6
<1> QED BY <1>15, <1>17, <1>18 DEF Gives, new

LEMMA TakenOutSound ==
    ASSUME ScreenAssumption, NEW out, Sound(out), NEW r \in out.known,
           NEW into, into = out.sink[r], into # None, into \in out.open, out.sink[into] = into,
           ~Shown(out, r), out.buffer[into] # <<>>, Last(out.buffer[into]) = LineOf(r, Opening)
    PROVE  Sound(TakesBack(out, r)) /\ Gives(TakesBack(out, r), out, r)
<1> DEFINE last1 == LineOf(r, Ending)
           kept == [out.buffer EXCEPT ![into] = Append(Front(@), last1)]
           new == TakesBack(out, r)
<1>0. /\ DOMAIN out = Fields
      /\ None \notin Rite /\ r \in Rite /\ Opening \in Int /\ Ending \in Int
      /\ into \in Rite
      /\ out.sink \in [Rite -> Rite \cup {None}] /\ out.open \subseteq out.known
      /\ out.known \subseteq Rite
      /\ out.buffer \in [Rite -> Seq(Event)] /\ out.printed \in [Rite -> Seq(Int)]
  BY NoneApart, SMTT(20) DEF Sound, Held, Opening, Ending
<1>1. /\ last1 \in Event /\ last1.rite = r /\ last1.what = Ending
      /\ LineOf(r, Opening) \in Event
      /\ LineOf(r, Opening).rite = r /\ LineOf(r, Opening).what = Opening
  BY <1>0 DEF LineOf, Event
<1>2. PICK was \in Seq(Event) : was = out.buffer[into] BY <1>0
<1> HIDE DEF Event, last1
<1>3. PICK x \in Event, y \in Event :
          /\ x = last1 /\ x.rite = r /\ x.what = Ending
          /\ y = LineOf(r, Opening) /\ y.rite = r /\ y.what = Opening
  BY ONLY <1>1
<1>4. PICK f \in Seq(Event) : f = Front(was) /\ was = Append(f, y)
  <2>1. was # <<>> /\ Last(was) = y BY <1>2, <1>3
  <2>2. Front(was) \in Seq(Event) /\ was = Append(Front(was), Last(was))
    BY ONLY <1>2, <2>1, FrontAndLast
  <2> QED BY ONLY <2>1, <2>2
<1>5. PICK more \in Seq(Event) : more = Append(f, x)
  BY ONLY <1>3, <1>4, AppendProperties
<1>19. /\ more # <<>> /\ Len(more) = Len(f) + 1 /\ \A i \in 1..Len(f) : more[i] = f[i]
       /\ more[Len(f) + 1] = x
  BY ONLY <1>3, <1>4, <1>5, AppendProperties
<1>20. /\ Len(was) = Len(f) + 1 /\ \A i \in 1..Len(f) : was[i] = f[i]
       /\ Len(f) \in Nat
  BY ONLY <1>2, <1>3, <1>4, AppendProperties, LenProperties
<1>6. /\ kept \in [Rite -> Seq(Event)]
      /\ \A b \in Rite : kept[b] = IF b = into THEN more ELSE out.buffer[b]
  BY <1>0, <1>2, <1>3, <1>4, <1>5
<1>7. /\ DOMAIN new = Fields
      /\ new.known = out.known /\ new.open = out.open /\ new.sink = out.sink
      /\ new.buffer = kept /\ new.printed = out.printed /\ new.tail = out.tail
  <2>1. new = [out EXCEPT !.buffer = kept] BY DEF TakesBack, last1
  <2> HIDE DEF new, kept
  <2> QED BY <2>1, <1>0 DEF Fields
<1> HIDE DEF new, kept
<1>8. SinksAlong(new) /\ UnknownSilent(new) /\ TailIsLast(new)
  <2>1. SinksAlong(out) /\ UnknownSilent(out) /\ TailIsLast(out) BY DEF Sound
  <2> QED BY <2>1, <1>7 DEF SinksAlong, UnknownSilent, TailIsLast
<1>9. BuffersOpen(new)
  <2>2. ASSUME NEW b \in Rite
        PROVE  /\ out.buffer[b] # <<>> => b \in out.open /\ out.sink[b] = b
               /\ \A i \in 1..Len(out.buffer[b]) : out.sink[out.buffer[b][i].rite] = b
    BY DEF Sound, BuffersOpen
  <2>3. ASSUME NEW i \in 1..Len(more) PROVE out.sink[more[i].rite] = into
    <3>1. CASE i \in 1..Len(f)
      <4>1. i \in 1..Len(was) BY <3>1, <1>20
      <4>2. out.sink[was[i].rite] = into BY <4>1, <1>0, <1>2, <2>2
      <4> QED BY <4>2, <3>1, <1>19, <1>20
    <3>2. CASE i = Len(f) + 1 BY <3>2, <1>3, <1>19
    <3> QED BY <3>1, <3>2, <1>19, <1>20
  <2>4. ASSUME NEW b \in Rite
        PROVE  /\ kept[b] # <<>> => b \in out.open /\ out.sink[b] = b
               /\ \A i \in 1..Len(kept[b]) : out.sink[kept[b][i].rite] = b
    <3>1. CASE b = into BY <3>1, <2>3, <1>6, <1>20
    <3>2. CASE b # into
      <4>1. kept[b] = out.buffer[b] BY <3>2, <1>6
      <4> QED BY <4>1, <2>2
    <3> QED BY <3>1, <3>2
  <2> QED BY <2>4, <1>7 DEF BuffersOpen
<1>10. Sound(new)
  <2>1. out.tail.last \in Text /\ DOMAIN out.tail = {"last", "began"} BY DEF Sound, Held
  <2>2. Held(new) BY <2>1, <1>0, <1>6, <1>7 DEF Held
  <2> QED BY <2>2, <1>8, <1>9 DEF Sound
<1>11. PICK p \in Seq(Int), a \in Seq(Int) : p = Whats(f, r) /\ a = out.printed[r]
  BY <1>0, WhatsTypes
<1>12. Whats(was, r) = Append(p, Opening) /\ Whats(more, r) = Append(p, Ending)
  <2>1. /\ Whats(Append(f, y), r) = IF y.rite = r THEN Append(Whats(f, r), y.what) ELSE Whats(f, r)
        /\ Whats(Append(f, x), r) = IF x.rite = r THEN Append(Whats(f, r), x.what) ELSE Whats(f, r)
    BY ONLY WhatsOfMore
  <2> QED BY ONLY <2>1, <1>3, <1>4, <1>5, <1>11
<1>13. \A s \in Rite \ {r} : Whats(more, s) = Whats(was, s)
  <2>1. ASSUME NEW s \in Rite \ {r} PROVE Whats(more, s) = Whats(was, s)
    <3>1. /\ Whats(Append(f, y), s) = IF y.rite = s THEN Append(Whats(f, s), y.what) ELSE Whats(f, s)
          /\ Whats(Append(f, x), s) = IF x.rite = s THEN Append(Whats(f, s), x.what) ELSE Whats(f, s)
      BY ONLY WhatsOfMore
    <3>2. s # r OBVIOUS
    <3> QED BY ONLY <3>1, <3>2, <1>3, <1>4, <1>5
  <2> QED BY <2>1
<1>14. PICK t \in Seq(Int) :
           t = a \o p /\ Lines(out, r) = Append(t, Opening) /\ Lines(new, r) = Append(t, Ending)
  <2>1. Pending(out, r) = Append(p, Opening)
    <3>1. Pending(out, r) = Whats(out.buffer[into], r) BY DEF Pending
    <3> QED BY ONLY <3>1, <1>2, <1>12
  <2>2. Pending(new, r) = Append(p, Ending)
    <3>1. new.sink[r] = into /\ new.buffer[into] = more BY <1>0, <1>6, <1>7
    <3>2. Pending(new, r) = Whats(more, r) BY <3>1 DEF Pending
    <3> QED BY ONLY <3>2, <1>12
  <2>3. Lines(out, r) = a \o Append(p, Opening) /\ Lines(new, r) = a \o Append(p, Ending)
    BY ONLY <2>1, <2>2, <1>7, <1>11 DEF Lines
  <2>4. a \o p \in Seq(Int) BY ConcatProperties
  <2>7. PICK o \in Int, e \in Int : o = Opening /\ e = Ending BY <1>0
  <2>8. a \o Append(p, o) = Append(a \o p, o) /\ a \o Append(p, e) = Append(a \o p, e)
    BY ONLY AppendToConcat
  <2>5. a \o Append(p, Opening) = Append(a \o p, Opening) BY ONLY <2>7, <2>8
  <2>6. a \o Append(p, Ending) = Append(a \o p, Ending) BY ONLY <2>7, <2>8
  <2> QED BY <2>3, <2>4, <2>5, <2>6
<1>15. ASSUME NEW s \in Rite \ {r} PROVE Lines(new, s) = Lines(out, s)
  <2>1. Pending(new, s) = Pending(out, s)
    <3>1. CASE out.sink[s] = into
      <4>1. Pending(new, s) = Whats(more, s) BY <3>1, <1>0, <1>6, <1>7 DEF Pending
      <4>2. Pending(out, s) = Whats(was, s) BY <3>1, <1>2 DEF Pending
      <4> QED BY <4>1, <4>2, <1>13
    <3>2. CASE out.sink[s] = None BY <3>2, <1>7 DEF Pending
    <3>3. CASE out.sink[s] \notin {into, None}
      <4>1. out.sink[s] \in Rite BY <3>3, <1>0
      <4>2. kept[out.sink[s]] = out.buffer[out.sink[s]] BY <4>1, <3>3, <1>6
      <4> QED BY <3>3, <4>2, <1>7 DEF Pending
    <3> QED BY <3>1, <3>2, <3>3
  <2> QED BY <2>1, <1>7 DEF Lines
<1> QED BY <1>10, <1>14, <1>15 DEF Gives, new

LEMMA EndedSound ==
    ASSUME ScreenAssumption, NEW out, Sound(out), Rooted(out.open),
           NEW r \in out.open, Rooted(out.open \ {r})
    PROVE  LET new == Ended(out, r) IN
           /\ Sound(new) /\ new.known = out.known
           /\ Adds(new, out, r, Ending) \/ Gives(new, out, r)
<1> DEFINE closed == [out EXCEPT !.open = @ \ {r}]
           told == IF out.sink[r] = r
                   THEN PrintsAll([closed EXCEPT !.buffer[r] = <<>>, !.sink[r] = None],
                                  out.buffer[r])
                   ELSE closed
           new == Ended(out, r)
<1>0. r \in out.known /\ r \in Rite /\ None \notin Rite /\ Ending \in Int
  BY NoneApart DEF Sound, Held, Ending
<1>1. new = IF GivesWay(told, r) THEN TakesBack(told, r)
            ELSE Emits(told, told.sink[r], LineOf(r, Ending))
  BY <1>0 DEF Ended
<1>2. /\ Sound(told) /\ \A s \in Rite : Lines(told, s) = Lines(out, s)
      /\ told.known = out.known /\ told.open = out.open \ {r}
      /\ told.sink[r] # None =>
             /\ told.sink[r] = out.sink[r] /\ out.sink[r] # r
             /\ told.sink = out.sink /\ told.printed = out.printed
  <2>1. CASE out.sink[r] = r
    <3>1. told = PrintsAll([closed EXCEPT !.buffer[r] = <<>>, !.sink[r] = None], out.buffer[r])
      BY <2>1
    <3>2. LET new1 == PrintsAll([closed EXCEPT !.buffer[r] = <<>>, !.sink[r] = None],
                                out.buffer[r]) IN
          /\ Sound(new1) /\ \A s \in Rite : Lines(new1, s) = Lines(out, s)
          /\ new1.known = out.known /\ new1.open = out.open \ {r} /\ new1.sink[r] = None
      BY <2>1, ToldSound
    <3> HIDE DEF told
    <3> QED BY <3>1, <3>2
  <2>2. CASE out.sink[r] # r
    <3>1. told = closed BY <2>2
    <3>2. /\ Sound(closed) /\ \A s \in Rite : Lines(closed, s) = Lines(out, s)
          /\ closed.known = out.known /\ closed.open = out.open \ {r} /\ closed.sink = out.sink
          /\ closed.printed = out.printed
      BY <2>2, ClosedSound
    <3> HIDE DEF told, closed
    <3> QED BY <3>1, <3>2, <2>2
  <2> QED BY <2>1, <2>2
<1> HIDE DEF told, new
<1>3. told.sink[r] # None =>
          /\ told.sink[r] \in told.open /\ told.sink[told.sink[r]] = told.sink[r]
          /\ told.printed[r] = <<>>
  <2> SUFFICES ASSUME told.sink[r] # None
               PROVE  /\ told.sink[r] \in told.open /\ told.sink[told.sink[r]] = told.sink[r]
                      /\ told.printed[r] = <<>>
    OBVIOUS
  <2>1. out.sink[r] \notin {None, r} /\ told.sink = out.sink /\ told.printed = out.printed
    BY <1>2
  <2>2. out.sink[r] \in out.open /\ out.sink[out.sink[r]] = out.sink[r]
    BY <2>1, SinkIsOpen
  <2>3. out.printed[r] = <<>> BY <2>1 DEF Sound, SinksAlong
  <2> QED BY <2>1, <2>2, <2>3, <1>2
<1>4. CASE ~GivesWay(told, r)
  <2>1. LET last == Emits(told, told.sink[r], LineOf(r, Ending)) IN
        /\ Sound(last) /\ last.known = told.known /\ Adds(last, told, r, Ending)
    BY <1>0, <1>2, <1>3, EmitsSound
  <2> QED BY <2>1, <1>0, <1>1, <1>2, <1>4 DEF Adds, new
<1>5. CASE GivesWay(told, r)
  <2>1. Sound(TakesBack(told, r)) /\ Gives(TakesBack(told, r), told, r)
    <3>1. CASE Shown(told, r)
      <4>1. told.printed[r] # <<>>
        <5>1. PICK i \in DOMAIN told.printed[r] : TRUE BY <3>1 DEF Shown, Range
        <5> QED BY <5>1
      <4>2. told.sink[r] = None BY <4>1, <1>3
      <4>3. told.tail.last = LineOf(r, Opening) BY <3>1, <1>5 DEF GivesWay
      <4> QED BY <4>2, <4>3, <3>1, <1>0, <1>2, TakenOffSound
    <3>2. CASE ~Shown(told, r)
      <4>1. PICK into : into = told.sink[r] OBVIOUS
      <4>2. /\ into # None /\ told.buffer[into] # <<>>
            /\ Last(told.buffer[into]) = LineOf(r, Opening)
        BY <4>1, <3>2, <1>5 DEF GivesWay
      <4>3. into \in told.open /\ told.sink[into] = into BY <4>1, <4>2, <1>3
      <4> QED BY <4>1, <4>2, <4>3, <3>2, <1>0, <1>2, TakenOutSound
    <3> QED BY <3>1, <3>2
  <2>2. TakesBack(told, r).known = told.known
    <3>1. DOMAIN told = Fields BY <1>2 DEF Sound, Held
    <3> QED BY <3>1, WritingAlike DEF Alike
  <2>3. new = TakesBack(told, r) BY <1>1, <1>5
  <2>4. Gives(new, out, r) BY <2>1, <2>3, <1>0, <1>2 DEF Gives
  <2> QED BY <2>1, <2>2, <2>3, <2>4, <1>2 DEF new
<1> QED BY <1>4, <1>5

-----------------------------------------------------------------------------
(* What a line of a rite does to what there is of each.                    *)

SameFields(a, b) ==
    /\ a.known = b.known /\ a.open = b.open /\ a.sink = b.sink
    /\ a.buffer = b.buffer /\ a.printed = b.printed /\ a.tail = b.tail

LEMMA SameIsSound ==
    ASSUME NEW a, NEW b, SameFields(a, b), DOMAIN b = Fields, Sound(a)
    PROVE  Sound(b) /\ \A s : Lines(b, s) = Lines(a, s)
<1>1. Held(b)
  <2>1. Held(a) BY DEF Sound
  <2> QED BY <2>1 DEF Held, SameFields
<1>2. SinksAlong(b) BY DEF Sound, SinksAlong, SameFields
<1>3. BuffersOpen(b)
  <2>1. BuffersOpen(a) BY DEF Sound
  <2> QED BY <2>1 DEF BuffersOpen, SameFields
<1>4. UnknownSilent(b) /\ TailIsLast(b) BY DEF Sound, UnknownSilent, TailIsLast, SameFields
<1>5. \A s : Pending(b, s) = Pending(a, s) BY DEF Pending, SameFields
<1> QED BY <1>1, <1>2, <1>3, <1>4, <1>5 DEF Sound, Lines, SameFields

RenderedSound == Sound(Rendered)

LEMMA LinesAre ==
    \A r : LinesOf(r) = Lines(Rendered, r)
<1>1. Rendered.sink = sink /\ Rendered.buffer = buffer /\ Rendered.printed = printed
  BY DEF Rendered
<1> QED BY <1>1 DEF LinesOf, Lines, Pending

(* What becomes of a renderer is as sound as what it becomes.              *)
LEMMA BecomesSound ==
    ASSUME NEW new, Becomes(new), Sound(new)
    PROVE  /\ RenderedSound' /\ \A s : LinesOf(s)' = Lines(new, s)
           /\ known' = new.known /\ open' = new.open
<1>1. PICK next : next = Rendered' OBVIOUS
<1>2. DOMAIN next = Fields BY <1>1 DEF Rendered, Fields
<1>3. SameFields(new, next) BY <1>1 DEF Becomes, Rendered, SameFields
<1>4. Sound(next) /\ \A s : Lines(next, s) = Lines(new, s) BY <1>2, <1>3, SameIsSound
<1>5. \A s : LinesOf(s)' = Lines(next, s)
  <2>1. next.sink = sink' /\ next.buffer = buffer' /\ next.printed = printed'
    BY <1>1 DEF Rendered
  <2> QED BY <2>1 DEF LinesOf, Lines, Pending
<1> QED BY <1>1, <1>4, <1>5 DEF RenderedSound, Becomes

(* The lines of a rite with one more, or its opening gone for its ending.  *)
Given(old, now) ==
    \E f \in Seq(Int) : old = Append(f, Opening) /\ now = Append(f, Ending)

LEMMA EventSound ==
    ASSUME ScreenAssumption, ScreenTypes, RenderedSound, Rooted(open),
           NEW r \in Rite, NEW w \in Int,
           w = Opening => r \notin known /\ (Under[r] # None => Under[r] \in open),
           w # Opening => r \in open, w = Ending => Rooted(open \ {r}),
           Renders(LineOf(r, w))
    PROVE  /\ RenderedSound' /\ known' = known \cup {r}
           /\ \A s \in Rite \ {r} : LinesOf(s)' = LinesOf(s) /\ (s \in open' <=> s \in open)
           /\ LinesOf(r) \in Seq(Int)
           /\ \/ LinesOf(r)' = Append(LinesOf(r), w)
              \/ w = Ending /\ Given(LinesOf(r), LinesOf(r)')
<1>1. PICK out : out = Rendered OBVIOUS
<1>2. /\ Sound(out) /\ out.open = open /\ out.known = known
      /\ \A s : LinesOf(s) = Lines(out, s)
  BY <1>1, LinesAre DEF RenderedSound, Rendered
<1>3. open \subseteq known /\ LinesOf(r) \in Seq(Int)
  <2>1. Held(out) BY <1>2 DEF Sound
  <2>2. Lines(out, r) \in Seq(Int) BY <2>1, PendingTypes
  <2>3. out.open \subseteq out.known BY <2>1 DEF Held
  <2> QED BY <2>2, <2>3, <1>2
<1>4. CASE w = Opening
  <2>1. Becomes(Began(Rendered, r)) BY <1>4, EventsDiffer DEF Renders
  <2>2. PICK new : new = Began(out, r) OBVIOUS
  <2>3. Sound(new) /\ new.known = out.known \cup {r} /\ Adds(new, out, r, Opening)
    BY <2>2, <1>2, <1>4, BeganSound
  <2>4. RenderedSound' /\ known' = known \cup {r} /\ \A s : LinesOf(s)' = Lines(new, s)
    BY <2>1, <2>2, <2>3, <1>1, <1>2, BecomesSound
  <2>5. open' = open \cup {r} BY <2>1, BeganRenders
  <2> QED BY <2>3, <2>4, <2>5, <1>2, <1>3, <1>4 DEF Adds
<1>5. CASE w = Ending
  <2>0. w # Opening BY <1>5, EventsDiffer
  <2>1. Becomes(Ended(Rendered, r)) BY <2>0, <1>5, EventsDiffer DEF Renders
  <2>2. PICK new : new = Ended(out, r) OBVIOUS
  <2>3. Sound(new) /\ new.known = out.known /\ (Adds(new, out, r, Ending) \/ Gives(new, out, r))
    BY <2>0, <2>2, <1>2, <1>5, EndedSound
  <2>4. RenderedSound' /\ known' = known /\ \A s : LinesOf(s)' = Lines(new, s)
    BY <2>1, <2>2, <2>3, <1>1, <1>2, BecomesSound
  <2>5. open' = open \ {r} BY <2>1, EndedRenders
  <2>6. \A s \in Rite \ {r} : LinesOf(s)' = LinesOf(s)
    BY <2>3, <2>4, <1>2 DEF Adds, Gives
  <2>7. LinesOf(r)' = Append(LinesOf(r), w) \/ Given(LinesOf(r), LinesOf(r)')
    BY <2>3, <2>4, <1>2, <1>5 DEF Adds, Gives, Given
  <2>8. r \in known BY <2>0, <1>3
  <2> QED BY <2>4, <2>5, <2>6, <2>7, <2>8, <1>3, <1>5
<1>6. CASE w \notin {Opening, Ending}
  <2>1. Becomes(Streamed(Rendered, r, w)) BY <1>6, EventsDiffer DEF Renders
  <2>2. PICK new : new = Streamed(out, r, w) OBVIOUS
  <2>3. Sound(new) /\ new.known = out.known /\ Adds(new, out, r, w)
    BY <2>2, <1>2, <1>6, StreamedSound
  <2>4. RenderedSound' /\ known' = known /\ \A s : LinesOf(s)' = Lines(new, s)
    BY <2>1, <2>2, <2>3, <1>1, <1>2, BecomesSound
  <2>5. open' = open BY <2>1, StreamedRenders
  <2>6. r \in known BY <1>3, <1>6
  <2> QED BY <2>3, <2>4, <2>5, <2>6, <1>2, <1>3 DEF Adds
<1> QED BY <1>4, <1>5, <1>6

(* What is written beside the rites.                                       *)
LEMMA WrittenSound ==
    ASSUME ScreenAssumption, RenderedSound, NEW l \in {Note, Partial}, Becomes(Prints(Rendered, l))
    PROVE  RenderedSound' /\ \A s : LinesOf(s)' = LinesOf(s)
<1>1. PICK out : out = Rendered OBVIOUS
<1>2. Sound(out) /\ DOMAIN out = Fields /\ \A s : LinesOf(s) = Lines(out, s)
  BY <1>1, LinesAre DEF RenderedSound, Rendered, Fields
<1>3. l \in Text /\ l.rite = None
  BY DEF Note, Partial, LineOf, Text, Opening, Ending
<1>4. Sound(Prints(out, l)) BY <1>2, <1>3, PrintsSound
<1>5. RenderedSound' /\ \A s : LinesOf(s)' = Lines(Prints(out, l), s)
  BY <1>1, <1>4, BecomesSound
<1>6. Prints(out, l) =
          [out EXCEPT !.tail = [last |-> l, began |-> out.tail.last # Partial], !.printed = out.printed]
  BY <1>3 DEF Prints
<1> DEFINE t == [last |-> l, began |-> out.tail.last # Partial]
           new == [out EXCEPT !.tail = t, !.printed = out.printed]
<1>7. new.printed = out.printed /\ new.sink = out.sink /\ new.buffer = out.buffer
  <2> HIDE DEF t
  <2> QED BY <1>2 DEF Fields
<1>8. \A s : Lines(new, s) = Lines(out, s)
  <2> HIDE DEF new
  <2> QED BY <1>7 DEF Lines, Pending
<1> QED BY <1>2, <1>5, <1>6, <1>8

-----------------------------------------------------------------------------
(* The order of a rite's lines.                                            *)

(* What a rite does is its opening, its lines by number, and its ending.   *)
Precedes(v, w) == v # Ending /\ (w = Ending \/ v < w)
InOrder(got) == \A i, j \in DOMAIN got : i < j => Precedes(got[i], got[j])

LEMMA OrderedMore ==
    ASSUME NEW f \in Seq(Int), NEW w \in Int, InOrder(f), \A v \in Range(f) : Precedes(v, w)
    PROVE  InOrder(Append(f, w)) /\ Range(Append(f, w)) = Range(f) \cup {w}
<1>1. PICK h \in Seq(Int) : h = Append(f, w) BY AppendProperties
<1>2. Len(h) = Len(f) + 1 /\ (\A i \in 1..Len(f) : h[i] = f[i]) /\ h[Len(f) + 1] = w
  BY ONLY <1>1, AppendProperties, f \in Seq(Int), w \in Int
<1>3. Len(f) \in Nat /\ DOMAIN f = 1..Len(f) /\ DOMAIN h = 1..Len(h)
  BY LenProperties
<1>4. ASSUME NEW i \in DOMAIN h, NEW j \in DOMAIN h, i < j PROVE Precedes(h[i], h[j])
  <2>1. i \in 1..Len(f) /\ h[i] = f[i] /\ f[i] \in Range(f)
    BY <1>2, <1>3, <1>4 DEF Range
  <2>2. CASE j = Len(f) + 1 BY <2>1, <2>2, <1>2
  <2>3. CASE j \in 1..Len(f) BY <2>1, <2>3, <1>2, <1>3, <1>4 DEF InOrder
  <2> QED BY <2>2, <2>3, <1>2, <1>3
<1>5. Range(Append(f, w)) = Range(f) \cup {w} BY RangeOfAppend
<1> QED BY <1>1, <1>4, <1>5 DEF InOrder

LEMMA OrderedLess ==
    ASSUME NEW f \in Seq(Int), NEW w \in Int, InOrder(Append(f, w))
    PROVE  InOrder(f) /\ (\A v \in Range(f) : Precedes(v, w)) /\ Range(Append(f, w)) = Range(f) \cup {w}
<1>1. PICK h \in Seq(Int) : h = Append(f, w) BY AppendProperties
<1>2. Len(h) = Len(f) + 1 /\ (\A i \in 1..Len(f) : h[i] = f[i]) /\ h[Len(f) + 1] = w
  BY ONLY <1>1, AppendProperties, f \in Seq(Int), w \in Int
<1>3. Len(f) \in Nat /\ DOMAIN f = 1..Len(f) /\ DOMAIN h = 1..Len(h)
  BY LenProperties
<1>4. InOrder(h) BY <1>1
<1>5. ASSUME NEW i \in DOMAIN f PROVE Precedes(f[i], w)
  <2>1. i \in DOMAIN h /\ Len(f) + 1 \in DOMAIN h /\ i < Len(f) + 1 BY <1>2, <1>3
  <2> QED BY <2>1, <1>2, <1>3, <1>4 DEF InOrder
<1>6. InOrder(f)
  <2>1. ASSUME NEW i \in DOMAIN f, NEW j \in DOMAIN f, i < j PROVE Precedes(f[i], f[j])
    <3>1. i \in DOMAIN h /\ j \in DOMAIN h /\ h[i] = f[i] /\ h[j] = f[j] BY <1>2, <1>3
    <3> QED BY <3>1, <2>1, <1>4 DEF InOrder
  <2> QED BY <2>1 DEF InOrder
<1>7. Range(Append(f, w)) = Range(f) \cup {w} BY RangeOfAppend
<1> QED BY <1>5, <1>6, <1>7 DEF Range

(* A line that follows those of a rite.                                    *)
LEMMA LineFollows ==
    ASSUME NEW old \in Seq(Int), NEW now, NEW w \in Int, InOrder(old),
           \A v \in Range(old) : Precedes(v, w),
           now = Append(old, w) \/ (w = Ending /\ Given(old, now))
    PROVE  /\ InOrder(now) /\ w \in Range(now) /\ Range(now) \subseteq Range(old) \cup {w}
           /\ Range(old) \subseteq Range(now) \cup (IF w = Ending THEN {Opening} ELSE {})
<1>1. CASE now = Append(old, w)
  <2>1. InOrder(Append(old, w)) /\ Range(Append(old, w)) = Range(old) \cup {w}
    BY OrderedMore
  <2> QED BY <2>1, <1>1
<1>2. CASE w = Ending /\ Given(old, now)
  <2>1. PICK f \in Seq(Int) : old = Append(f, Opening) /\ now = Append(f, Ending)
    BY <1>2 DEF Given
  <2>2. PICK o \in Int, e \in Int : o = Opening /\ e = Ending BY DEF Opening, Ending
  <2>3. old = Append(f, o) /\ now = Append(f, e) BY <2>1, <2>2
  <2>4. InOrder(Append(f, o)) BY <2>3
  <2>5. InOrder(f) /\ (\A v \in Range(f) : Precedes(v, o)) /\ Range(Append(f, o)) = Range(f) \cup {o}
    BY ONLY <2>4, OrderedLess
  <2>6. \A v \in Range(f) : Precedes(v, e) BY <2>2, <2>5 DEF Precedes
  <2>7. InOrder(Append(f, e)) /\ Range(Append(f, e)) = Range(f) \cup {e}
    BY ONLY <2>5, <2>6, OrderedMore
  <2> QED BY <2>2, <2>3, <2>5, <2>7, <1>2
<1> QED BY <1>1, <1>2

-----------------------------------------------------------------------------
(* What is told of a rite is in order, and what is shown of it was told.   *)

DidInOrder ==
    \A r \in Rite : did[r] = {} \/ \E n \in Nat : did[r] \ {Ending} = 0..n

GrimoireInOrder(g) ==
    \A i \in 1..Len(g) :
        /\ \E j \in 1..i : g[j] = LineOf(g[i].rite, Opening)
        /\ \A j \in 1..i - 1 : g[j].rite = g[i].rite => Precedes(g[j].what, g[i].what)

GrimoireDone(c, g) == \A i \in 1..Len(g) : Of[g[i].rite] = c /\ g[i].what \in did[g[i].rite]

KnownAsTold ==
    \A r \in Rite : r \in known <=> IF Of[r] = Own THEN Happened(r, Opening) ELSE r \in started

(* What is left out of what a rite did is the opening of one that ended.   *)
OwnShown(r) ==
    LET got == Range(LinesOf(r)) IN
    /\ got \subseteq did[r]
    /\ did[r] \ got \subseteq (IF Ending \in got THEN {Opening} ELSE {})

AllOwnShown == \A r \in Rite : Of[r] = Own => OwnShown(r)

(* What is shown of a followed cast was said by the point its renderer     *)
(* stands at, and what is said again before that is old to it.             *)
ToldBy(c, g, n) ==
    \A r \in Rite : Of[r] = c =>
        \A w \in Range(LinesOf(r)) : \E i \in 1..n : g[i] = LineOf(r, w)

OldTo(c, n) ==
    link[c] = "up" /\ at[c] # n =>
        /\ n <= backlog[c] /\ replayed[c] # None
        /\ {r \in started : Of[r] = c} \subseteq replayed[c]

ShownTo(c, g, n) == HeardTo(c, g, n) /\ ToldBy(c, g, n) /\ OldTo(c, n)
ShownOf(c, g) == \E n \in at[c]..Len(g) : ShownTo(c, g, n)

FollowedShown(c, g) == GrimoireInOrder(g) /\ GrimoireDone(c, g) /\ ShownOf(c, g)
AllFollowedShown == \A c \in Followed : FollowedShown(c, grimoire[c])

LinkTypes == DOMAIN replayed = Followed /\ DOMAIN link = Followed
AllInOrder == \A r \in Rite : InOrder(LinesOf(r))

(* The inductive invariant of ShownOnce.                                   *)
ShownInv ==
    /\ ScreenInv /\ LinkTypes /\ RenderedSound /\ DidInOrder /\ KnownAsTold /\ AllInOrder
    /\ AllOwnShown /\ AllFollowedShown

LEMMA EventsOf ==
    ASSUME NEW g \in Seq(Event)
    PROVE  /\ Len(g) \in Nat
           /\ \A i \in 1..Len(g) : g[i] \in Event /\ g[i].rite \in Rite /\ g[i].what \in Int
<1>1. \A i \in 1..Len(g) : g[i] \in Event
  <2> HIDE DEF Event
  <2> QED BY ElementOfSeq
<1> QED BY <1>1, LenProperties DEF Event

(* A rite says its lines one after the other.                              *)
LEMMA DidFollows ==
    ASSUME ScreenTypes, DidInOrder, NEW r \in Rite, NEW what \in Int, InTurn(r, what),
           did' = [did EXCEPT ![r] = @ \cup {what}]
    PROVE  DidInOrder' /\ (\A v \in did[r] : Precedes(v, what)) /\ Ending \notin did[r]
<1>1. /\ \A s \in Rite : did'[s] = IF s = r THEN did[s] \cup {what} ELSE did[s]
      /\ Ending \in did[r] => Opening \in did[r]
  BY DEF ScreenTypes, Happened
<1>2. did[r] = {} \/ \E n \in Nat : did[r] \ {Ending} = 0..n
  BY DEF DidInOrder
<1>3. (did'[r] = {} \/ \E n \in Nat : did'[r] \ {Ending} = 0..n)
      /\ (\A v \in did[r] : Precedes(v, what)) /\ Ending \notin did[r]
  <2>1. CASE what = Opening
    <3>1. 0 \notin did[r] BY <2>1 DEF InTurn, Happened, Opening
    <3>2. did[r] = {}
      <4>1. \A n \in Nat : 0 \in 0..n OBVIOUS
      <4> QED BY <4>1, <3>1, <1>2
    <3>3. did'[r] \ {Ending} = 0..0 BY <3>2, <2>1, <1>1 DEF Opening, Ending
    <3> QED BY <3>2, <3>3
  <2>2. CASE what = Ending
    <3>1. Opening \in did[r] /\ Ending \notin did[r] BY <2>2 DEF InTurn, Going, Happened
    <3>2. PICK n \in Nat : did[r] \ {Ending} = 0..n BY <3>1, <1>2
    <3>3. did'[r] \ {Ending} = 0..n BY <3>2, <2>2, <1>1
    <3>4. \A v \in did[r] : Precedes(v, what) BY <3>1, <2>2 DEF Precedes
    <3> QED BY <3>1, <3>3, <3>4
  <2>3. CASE what \notin {Opening, Ending}
    <3>1. /\ Opening \in did[r] /\ Ending \notin did[r] /\ what \notin did[r]
          /\ what >= 1 /\ (what > 1 => what - 1 \in did[r])
      BY <2>3 DEF InTurn, Going, Happened
    <3>2. PICK n \in Nat : did[r] \ {Ending} = 0..n BY <3>1, <1>2
    <3>3. did[r] = 0..n BY <3>1, <3>2
    <3>4. what = n + 1
      <4>1. ~(what <= n) /\ (what > 1 => what - 1 <= n) BY <3>1, <3>3
      <4>2. CASE what > 1 BY <4>1, <4>2
      <4>3. CASE what = 1 BY <4>1, <4>3
      <4> QED BY <4>2, <4>3, <3>1
    <3>5. did'[r] \ {Ending} = 0..n + 1
      <4>1. did'[r] = (0..n) \cup {n + 1} BY <3>3, <3>4, <1>1
      <4>2. (0..n) \cup {n + 1} = 0..n + 1 /\ Ending \notin 0..n + 1 BY DEF Ending
      <4> QED BY ONLY <4>1, <4>2
    <3>6. \A v \in did[r] : Precedes(v, what) BY <3>1, <3>3, <3>4 DEF Precedes
    <3> QED BY <3>1, <3>5, <3>6
  <2> QED BY <2>1, <2>2, <2>3
<1> QED BY <1>1, <1>3 DEF DidInOrder

(* What a cast did more, its grimoire and its screen being the same.       *)
LEMMA DoneMore ==
    ASSUME NEW c, NEW g, GrimoireDone(c, g), \A s \in Rite : did[s] \subseteq did'[s],
           \A i \in 1..Len(g) : g[i].rite \in Rite
    PROVE  GrimoireDone(c, g)'
<1> QED BY DEF GrimoireDone

LEMMA ShownSame ==
    ASSUME NEW c \in Followed, NEW g, NEW n, ShownTo(c, g, n),
           \A s \in Rite : Of[s] = c =>
               /\ LinesOf(s)' = LinesOf(s) /\ (s \in open' <=> s \in open)
               /\ (s \in started' <=> s \in started) /\ (s \in finished' <=> s \in finished),
           started' \subseteq Rite,
           link'[c] = link[c], at'[c] = at[c], backlog'[c] = backlog[c], replayed'[c] = replayed[c]
    PROVE  ShownTo(c, g, n)'
<1>1. HeardTo(c, g, n)' BY DEF ShownTo, HeardTo
<1>2. ToldBy(c, g, n)' BY DEF ShownTo, ToldBy
<1>3. OldTo(c, n)'
  <2>1. {s \in started' : Of[s] = c} \subseteq {s \in started : Of[s] = c}
    OBVIOUS
  <2> QED BY <2>1 DEF ShownTo, OldTo
<1> QED BY <1>1, <1>2, <1>3 DEF ShownTo

LEMMA FollowedSame ==
    ASSUME NEW c \in Followed, NEW g, FollowedShown(c, g),
           \A i \in 1..Len(g) : g[i].rite \in Rite,
           \A s \in Rite : did[s] \subseteq did'[s],
           \A s \in Rite : Of[s] = c =>
               /\ LinesOf(s)' = LinesOf(s) /\ (s \in open' <=> s \in open)
               /\ (s \in started' <=> s \in started) /\ (s \in finished' <=> s \in finished),
           started' \subseteq Rite,
           link'[c] = link[c], at'[c] = at[c], backlog'[c] = backlog[c], replayed'[c] = replayed[c]
    PROVE  FollowedShown(c, g)'
<1>1. GrimoireDone(c, g)' BY DoneMore DEF FollowedShown
<1>2. PICK n \in at[c]..Len(g) : ShownTo(c, g, n) BY DEF FollowedShown, ShownOf
<1>3. ShownTo(c, g, n)' BY <1>2, ShownSame
<1>4. n \in at'[c]..Len(g) BY <1>2
<1>5. ShownOf(c, g)' BY <1>3, <1>4 DEF ShownOf
<1> QED BY <1>1, <1>5 DEF FollowedShown

(* What a followed cast says is heard: its renderer shows it, or has it.   *)
LEMMA HearShown ==
    ASSUME ScreenAssumption, ScreenTypes, RenderedSound, Rooted(open), KnownAsTold, AllInOrder,
           NEW c \in Followed, NEW g \in Seq(Event), RunsInOrder(g), GrimoireInOrder(g),
           \A i \in 1..Len(g) : Of[g[i].rite] = c,
           NEW n \in at[c]..Len(g), ShownTo(c, g, n), at[c] < Len(g),
           link[c] = "up", Hear(c, g[at[c] + 1]),
           \A s \in Rite : Of[s] = Own => (Happened(s, Opening)' <=> Happened(s, Opening)),
           NEW m \in at[c] + 1..Len(g), m = (IF at[c] < n THEN n ELSE n + 1), HeardTo(c, g, m)'
    PROVE  /\ RenderedSound' /\ AllInOrder' /\ KnownAsTold' /\ ToldBy(c, g, m)'
           /\ \A s \in Rite : Of[s] # c => LinesOf(s)' = LinesOf(s)
           /\ at[c] < n => started' = started
<1>1. at[c] \in Nat /\ n \in Nat /\ Len(g) \in Nat
  BY LenProperties DEF ScreenTypes
<1>2. PICK k \in 1..Len(g) : k = at[c] + 1 BY <1>1
<1>3. PICK e \in Event : e = g[k]
  <2> HIDE DEF Event
  <2> QED BY <1>2, ElementOfSeq
<1>4. PICK r \in Rite, w \in Int : r = e.rite /\ w = e.what /\ e = LineOf(r, w)
  BY DEF Event, LineOf
<1>5. /\ started' = IF w = Opening THEN started \cup {r} ELSE started
      /\ IF News(c, e) THEN Renders(e) ELSE UNCHANGED rendered
  BY <1>2, <1>3, <1>4 DEF Hear
<1>6. Of[r] = c /\ c # Own BY <1>3, <1>4 DEF ScreenAssumption
<1>7. PICK j \in 1..k : g[j] = LineOf(r, Opening) BY <1>2, <1>3, <1>4 DEF GrimoireInOrder
<1>8. \A v : \A i \in 1..k - 1 : g[i] = LineOf(r, v) => Precedes(v, w)
  <2>1. \A i \in 1..k - 1 : g[i].rite = r => Precedes(g[i].what, w)
    BY <1>2, <1>3, <1>4 DEF GrimoireInOrder
  <2>2. ASSUME NEW i \in 1..k - 1, NEW v, g[i] = LineOf(r, v) PROVE Precedes(v, w)
    <3>1. g[i].rite = r /\ g[i].what = v BY <2>2, EventsDiffer
    <3> QED BY <2>1, <3>1
  <2> QED BY <2>2
<1>9. HeardTo(c, g, n) /\ ToldBy(c, g, n) /\ OldTo(c, n) BY DEF ShownTo
(* Nothing is shown of it.                                                 *)
<1>10. ASSUME UNCHANGED rendered, r \in started \/ w # Opening
       PROVE  /\ RenderedSound' /\ AllInOrder' /\ KnownAsTold' /\ ToldBy(c, g, m)'
              /\ (\A s \in Rite : Of[s] # c => LinesOf(s)' = LinesOf(s)) /\ started' = started
  <2>1. UNCHANGED <<known, open, sink, buffer, printed, tail>> BY <1>10 DEF rendered
  <2>2. RenderedSound' BY <2>1 DEF RenderedSound, Rendered
  <2>3. \A s : LinesOf(s)' = LinesOf(s) BY <2>1 DEF LinesOf
  <2>4. AllInOrder' BY <2>3 DEF AllInOrder
  <2>5. started' = started BY <1>5, <1>10
  <2>6. KnownAsTold' BY <2>1, <2>5 DEF KnownAsTold
  <2>7. ToldBy(c, g, m)'
    <3>1. n <= m BY <1>1
    <3>2. \A i \in 1..n : i \in 1..m BY <3>1, <1>1
    <3> QED BY <3>2, <2>3, <1>9 DEF ToldBy
  <2> QED BY <2>2, <2>3, <2>4, <2>5, <2>6, <2>7
(* It was heard before.                                                    *)
<1>11. CASE at[c] < n
  <2>1. k \in 1..n /\ j \in 1..n BY <1>1, <1>2, <1>11
  <2>2. r \in SaidIn(g, n, Opening) BY <2>1, <1>7 DEF SaidIn
  <2>3. r \in started BY <2>2, <1>6, <1>9 DEF HeardTo
  <2>4. w = Ending => r \in finished
    <3>1. w = Ending => r \in SaidIn(g, n, Ending) BY <2>1, <1>3, <1>4 DEF SaidIn
    <3> QED BY <3>1, <1>6, <1>9 DEF HeardTo
  <2>5. replayed[c] # None /\ r \in replayed[c]
    <3>1. at[c] # n BY <1>1, <1>11
    <3> QED BY <3>1, <2>3, <1>6, <1>9 DEF OldTo
  <2>6. ~News(c, e) BY <2>3, <2>4, <2>5, <1>4 DEF News
  <2>7. UNCHANGED rendered BY <2>6, <1>5
  <2> QED BY <2>3, <2>7, <1>10
(* It is heard for the first time.                                         *)
<1>12. CASE ~(at[c] < n)
  <2>1. k = n + 1 /\ m = k /\ k - 1 = n BY <1>1, <1>2, <1>12
  <2>2. CASE ~News(c, e)
    <3>1. r \in started \/ w # Opening BY <2>2, <1>4, EventsDiffer DEF News
    <3> QED BY <3>1, <2>2, <1>5, <1>10, <1>12
  <2>3. CASE News(c, e)
    <3>1. Renders(LineOf(r, w)) BY <2>3, <1>4, <1>5
    <3>2. w = Opening => r \notin known /\ (Under[r] # None => Under[r] \in open)
      <4> SUFFICES ASSUME w = Opening
                   PROVE  r \notin known /\ (Under[r] # None => Under[r] \in open)
        OBVIOUS
      <4>1. r \notin started
        <5>1. e.what = Opening /\ e.rite = r BY <1>4
        <5> QED BY ONLY <5>1, <2>3, EventsDiffer DEF News
      <4>2. r \notin known BY <4>1, <1>6 DEF KnownAsTold
      <4> SUFFICES ASSUME Under[r] # None PROVE Under[r] \in open
        BY <4>2
      <4>3. /\ Under[r] # r /\ Under[r] \in Rite /\ Of[Under[r]] = c
        BY <1>6, NoneApart DEF ScreenAssumption
      <4>4. r \in SaidIn(g, k, Opening) /\ Rooted(OpenIn(g, k))
        <5>1. k \in 0..Len(g) /\ k \in 1..k OBVIOUS
        <5>2. r \in SaidIn(g, k, Opening) BY <5>1, <1>3, <1>4 DEF SaidIn
        <5> QED BY <5>1, <5>2 DEF RunsInOrder
      <4>5. r \notin SaidIn(g, k, Ending)
        <5> SUFFICES ASSUME NEW i \in 1..k, g[i] = LineOf(r, Ending) PROVE FALSE
          BY DEF SaidIn
        <5>1. i # k BY <1>3, <1>4, EventsDiffer
        <5>2. i \in 1..k - 1 BY <5>1
        <5>3. Precedes(Ending, w) BY <5>2, <1>8
        <5> QED BY <5>3 DEF Precedes
      <4>6. Under[r] \in OpenIn(g, k) BY <4>4, <4>5 DEF OpenIn, Rooted
      <4>7. Under[r] \in OpenIn(g, n)
        <5>1. /\ SaidIn(g, k, Opening) =
                     SaidIn(g, n, Opening) \cup {s \in Rite : g[k] = LineOf(s, Opening)}
              /\ SaidIn(g, k, Ending) =
                     SaidIn(g, n, Ending) \cup {s \in Rite : g[k] = LineOf(s, Ending)}
          BY <2>1, <1>1, SaidNext
        <5>2. Under[r] \notin {s \in Rite : g[k] = LineOf(s, Opening)}
          BY <4>3, <1>3, <1>4, EventsDiffer
        <5> QED BY <5>1, <5>2, <4>6 DEF OpenIn
      <4> QED BY <4>3, <4>7, <1>9 DEF HeardTo
    <3>3. w # Opening => r \in open
      <4> SUFFICES ASSUME w # Opening PROVE r \in open
        OBVIOUS
      <4>1. j # k BY <1>3, <1>4, <1>7, EventsDiffer
      <4>2. j \in 1..n BY <4>1, <2>1
      <4>3. r \in SaidIn(g, n, Opening) BY <4>2, <1>7 DEF SaidIn
      <4>4. r \notin SaidIn(g, n, Ending)
        <5> SUFFICES ASSUME NEW i \in 1..n, g[i] = LineOf(r, Ending) PROVE FALSE
          BY DEF SaidIn
        <5>1. Precedes(Ending, w) BY <2>1, <1>8
        <5> QED BY <5>1 DEF Precedes
      <4> QED BY <4>3, <4>4, <1>6, <1>9 DEF HeardTo, OpenIn
    <3>4. w = Ending => Rooted(open \ {r})
      <4> SUFFICES ASSUME w = Ending, NEW s \in open \ {r}, Under[s] # None
                   PROVE  Under[s] \in open \ {r}
        BY DEF Rooted
      <4>1. Under[s] \in open BY DEF Rooted
      <4> SUFFICES ASSUME Under[s] = r PROVE FALSE
        BY <4>1
      <4>2. s \in Rite /\ Of[s] = c BY <1>6 DEF ScreenTypes, ScreenAssumption
      <4>3. s \in OpenIn(g, n) BY <4>2, <1>9 DEF HeardTo
      <4>4. /\ SaidIn(g, k, Opening) =
                   SaidIn(g, n, Opening) \cup {t \in Rite : g[k] = LineOf(t, Opening)}
            /\ SaidIn(g, k, Ending) =
                   SaidIn(g, n, Ending) \cup {t \in Rite : g[k] = LineOf(t, Ending)}
        BY <2>1, <1>1, SaidNext
      <4>5. s \notin {t \in Rite : g[k] = LineOf(t, Ending)} /\ g[k] = LineOf(r, Ending)
        BY <1>3, <1>4, EventsDiffer
      <4>6. s \in OpenIn(g, k) /\ r \notin OpenIn(g, k) BY <4>3, <4>4, <4>5 DEF OpenIn
      <4>7. k \in 0..Len(g) OBVIOUS
      <4>8. Rooted(OpenIn(g, k)) BY <4>7 DEF RunsInOrder
      <4> QED BY <4>6, <4>8 DEF Rooted
    <3>5. /\ RenderedSound' /\ known' = known \cup {r}
          /\ \A s \in Rite \ {r} : LinesOf(s)' = LinesOf(s) /\ (s \in open' <=> s \in open)
          /\ LinesOf(r) \in Seq(Int)
          /\ \/ LinesOf(r)' = Append(LinesOf(r), w)
             \/ w = Ending /\ Given(LinesOf(r), LinesOf(r)')
      BY <3>1, <3>2, <3>3, <3>4, EventSound
    <3>6. \A v \in Range(LinesOf(r)) : Precedes(v, w)
      BY <2>1, <1>6, <1>8, <1>9 DEF ToldBy
    <3>7. PICK old, now : old \in Seq(Int) /\ old = LinesOf(r) /\ now = LinesOf(r)' BY <3>5
    <3>8. InOrder(old) BY <3>7 DEF AllInOrder
    <3>9. InOrder(now) /\ Range(now) \subseteq Range(old) \cup {w}
      BY <3>5, <3>6, <3>7, <3>8, LineFollows
    <3>10. AllInOrder' BY <3>5, <3>7, <3>9 DEF AllInOrder
    <3>11. KnownAsTold'
      <4>1. w # Opening => r \in known BY <3>3 DEF ScreenTypes
      <4>2. \A s \in Rite : (s \in known' <=> s \in known) \/ (s = r /\ w = Opening)
        BY <4>1, <3>5
      <4>3. \A s \in Rite : Of[s] # Own /\ ~(s = r /\ w = Opening) => (s \in started' <=> s \in started)
        BY <1>5
      <4>4. w = Opening => r \in known' /\ r \in started' BY <3>5, <1>5
      <4> QED BY <4>2, <4>3, <4>4, <1>6 DEF KnownAsTold
    <3>12. ToldBy(c, g, m)'
      <4> SUFFICES ASSUME NEW s \in Rite, Of[s] = c, NEW v \in Range(LinesOf(s)')
                   PROVE  \E i \in 1..m : g[i] = LineOf(s, v)
        BY DEF ToldBy
      <4>1. ASSUME v \in Range(LinesOf(s)) PROVE \E i \in 1..m : g[i] = LineOf(s, v)
        <5>1. PICK i \in 1..n : g[i] = LineOf(s, v) BY <4>1, <1>9 DEF ToldBy
        <5> QED BY <5>1, <2>1
      <4>2. CASE s = r
        <5>1. v \in Range(old) \/ v = w BY <4>2, <3>7, <3>9
        <5>2. g[k] = LineOf(r, w) /\ k \in 1..m BY <2>1, <1>3, <1>4
        <5> QED BY <5>1, <5>2, <4>1, <4>2, <3>7
      <4>3. CASE s # r BY <4>1, <4>3, <3>5
      <4> QED BY <4>2, <4>3
    <3> QED BY <3>5, <3>10, <3>11, <3>12, <1>6, <1>12
  <2> QED BY <2>2, <2>3
<1> QED BY <1>11, <1>12

-----------------------------------------------------------------------------
(* Steps of the rites, as they are shown.                                  *)

LEMMA OwnDoesShown ==
    ASSUME ScreenAssumption, ShownInv, NEW r \in Rite, Of[r] = Own, NEW what \in Int,
           InTurn(r, what), Does(r, what), ScreenInv'
    PROVE  ShownInv'
<1> USE DEF ShownInv
<1>1. /\ did' = [did EXCEPT ![r] = @ \cup {what}] /\ Renders(LineOf(r, what))
      /\ UNCHANGED <<grimoire, at, started, finished, link, backlog, replayed>>
  BY DEF Does
<1>2. /\ did \in [Rite -> SUBSET Int] /\ grimoire \in [Followed -> Seq(Event)]
      /\ started \subseteq Rite /\ open \subseteq known
  BY DEF ScreenInv, ScreenTypes, Event
<1>3. \A s \in Rite : did'[s] = IF s = r THEN did[s] \cup {what} ELSE did[s]
  BY <1>1, <1>2
<1>4. DidInOrder' /\ (\A v \in did[r] : Precedes(v, what)) /\ Ending \notin did[r]
  BY <1>1, DidFollows DEF ScreenInv
<1>5. Rooted(open) BY OpenRooted DEF ScreenInv
<1>6. \A s \in Rite : Of[s] = Own => (s \in open <=> Going(s)) BY DEF ScreenInv, OwnInOrder
<1>7. what = Opening => r \notin known /\ (Under[r] # None => Under[r] \in open)
  <2>1. what = Opening => r \notin known BY DEF InTurn, KnownAsTold
  <2>2. Under[r] # None => Under[r] \in Rite /\ Of[Under[r]] = Own BY DEF ScreenAssumption
  <2> QED BY <2>1, <2>2, <1>6 DEF InTurn
<1>8. what # Opening => r \in open BY <1>6 DEF InTurn
<1>9. what = Ending => Rooted(open \ {r})
  <2> SUFFICES ASSUME what = Ending, NEW s \in open \ {r}, Under[s] # None
               PROVE  Under[s] \in open \ {r}
    BY DEF Rooted
  <2>1. Under[s] \in open BY <1>5 DEF Rooted
  <2> SUFFICES ASSUME Under[s] = r PROVE FALSE
    BY <2>1
  <2>2. s \in Rite /\ Of[s] = Own BY DEF ScreenInv, ScreenTypes, ScreenAssumption
  <2> QED BY <2>2, <1>6 DEF InTurn
<1>10. /\ RenderedSound' /\ known' = known \cup {r}
       /\ \A s \in Rite \ {r} : LinesOf(s)' = LinesOf(s) /\ (s \in open' <=> s \in open)
       /\ LinesOf(r) \in Seq(Int)
       /\ \/ LinesOf(r)' = Append(LinesOf(r), what)
          \/ what = Ending /\ Given(LinesOf(r), LinesOf(r)')
  BY <1>1, <1>5, <1>7, <1>8, <1>9, EventSound DEF ScreenInv
<1>11. PICK old, now : old \in Seq(Int) /\ old = LinesOf(r) /\ now = LinesOf(r)' BY <1>10
<1>12. Range(old) \subseteq did[r] /\ did[r] \subseteq Range(old)
  <2>1. /\ Range(old) \subseteq did[r]
        /\ did[r] \ Range(old) \subseteq (IF Ending \in Range(old) THEN {Opening} ELSE {})
    BY <1>11 DEF AllOwnShown, OwnShown
  <2> QED BY <2>1, <1>4
<1>13. InOrder(old) BY <1>11 DEF AllInOrder
<1>14. /\ InOrder(now) /\ what \in Range(now) /\ Range(now) \subseteq Range(old) \cup {what}
       /\ Range(old) \subseteq Range(now) \cup (IF what = Ending THEN {Opening} ELSE {})
  <2>1. \A v \in Range(old) : Precedes(v, what) BY <1>4, <1>12
  <2>2. now = Append(old, what) \/ (what = Ending /\ Given(old, now)) BY <1>10, <1>11
  <2>3. old \in Seq(Int) BY <1>11
  <2> QED BY ONLY <2>1, <2>2, <2>3, <1>13, what \in Int, LineFollows
<1>15. AllInOrder' BY <1>10, <1>11, <1>14 DEF AllInOrder
<1>16. AllOwnShown'
  <2>1. OwnShown(r)'
    <3>1. did'[r] = did[r] \cup {what} BY <1>3
    <3>2. Range(now) \subseteq did'[r] BY <3>1, <1>12, <1>14
    <3>3. did'[r] \ Range(now) \subseteq (IF Ending \in Range(now) THEN {Opening} ELSE {})
      BY <3>1, <1>12, <1>14
    <3> QED BY <3>2, <3>3, <1>11 DEF OwnShown
  <2>2. ASSUME NEW s \in Rite \ {r}, Of[s] = Own PROVE OwnShown(s)'
    <3>1. OwnShown(s) BY <2>2 DEF AllOwnShown
    <3>2. PICK got : got = LinesOf(s) /\ got = LinesOf(s)' BY <1>10
    <3>3. did'[s] = did[s] BY <1>3
    <3> QED BY <3>1, <3>2, <3>3 DEF OwnShown
  <2> QED BY <2>1, <2>2 DEF AllOwnShown
<1>17. KnownAsTold'
  <2>1. Happened(r, Opening)' <=> what = Opening \/ Happened(r, Opening)
    <3>1. did'[r] = did[r] \cup {what} BY <1>3
    <3> QED BY ONLY <3>1 DEF Happened
  <2>2. Happened(r, Opening)' BY <2>1 DEF InTurn, Going
  <2>3. \A s \in Rite \ {r} : Happened(s, Opening)' <=> Happened(s, Opening)
    <3>1. \A s \in Rite \ {r} : did'[s] = did[s] BY <1>3
    <3> QED BY ONLY <3>1 DEF Happened
  <2> QED BY <2>2, <2>3, <1>1, <1>10 DEF KnownAsTold
<1>18. AllFollowedShown'
  <2>1. ASSUME NEW c \in Followed PROVE FollowedShown(c, grimoire[c])'
    <3>0. grimoire'[c] = grimoire[c] BY <1>1
    <3>1. PICK g \in Seq(Event) : g = grimoire[c] /\ g = grimoire'[c] BY <3>0, <1>2
    <3>2. FollowedShown(c, g)
      <4>1. FollowedShown(c, grimoire[c]) BY DEF AllFollowedShown
      <4> QED BY ONLY <3>1, <4>1
    <3>3. \A i \in 1..Len(g) : g[i].rite \in Rite BY EventsOf
    <3>4. \A s \in Rite : Of[s] = c => s # r BY DEF ScreenAssumption
    <3>5. FollowedShown(c, g)' BY <3>2, <3>3, <3>4, <1>1, <1>2, <1>3, <1>10, FollowedSame
    <3> QED BY <3>1, <3>5
  <2> QED BY <2>1 DEF AllFollowedShown
<1>19. LinkTypes' BY <1>1 DEF LinkTypes
<1> QED BY <1>4, <1>10, <1>15, <1>16, <1>17, <1>18, <1>19

(* A cast that is followed says one thing more, heard at once or not.      *)
LEMMA GrimoireMore ==
    ASSUME ScreenTypes, NEW c \in Followed, NEW r \in Rite, Of[r] = c, NEW what \in Int,
           InTurn(r, what), \A v \in did[r] : Precedes(v, what),
           NEW g \in Seq(Event), Recorded(c, g), GrimoireInOrder(g), GrimoireDone(c, g),
           \A s \in Rite : did'[s] = IF s = r THEN did[s] \cup {what} ELSE did[s],
           NEW h, Follows(h, g, LineOf(r, what))
    PROVE  GrimoireInOrder(h) /\ GrimoireDone(c, h)'
<1>1. PICK e \in Event : e = LineOf(r, what) /\ e.rite = r /\ e.what = what
  BY DEF LineOf, Event
<1>2. /\ Len(g) \in Nat /\ Len(h) = Len(g) + 1 /\ h[Len(g) + 1] = e
      /\ \A i \in 1..Len(g) : h[i] = g[i] /\ g[i].rite \in Rite
  BY <1>1, EventsOf DEF Follows
<1>3. PICK k \in Nat : k = Len(g) + 1 /\ Len(h) = k /\ h[k] = e BY <1>2
<1>4. ASSUME NEW i \in 1..Len(g)
      PROVE  /\ \E j \in 1..i : h[j] = LineOf(h[i].rite, Opening)
             /\ \A j \in 1..i - 1 : h[j].rite = h[i].rite => Precedes(h[j].what, h[i].what)
             /\ Of[h[i].rite] = c /\ h[i].what \in did'[h[i].rite]
  <2>1. /\ \E j \in 1..i : g[j] = LineOf(g[i].rite, Opening)
        /\ \A j \in 1..i - 1 : g[j].rite = g[i].rite => Precedes(g[j].what, g[i].what)
        /\ Of[g[i].rite] = c /\ g[i].what \in did[g[i].rite]
    BY DEF GrimoireInOrder, GrimoireDone
  <2>2. h[i] = g[i] /\ \A j \in 1..i : h[j] = g[j] BY <1>2
  <2>3. did[g[i].rite] \subseteq did'[g[i].rite] BY <1>2
  <2> QED BY <2>1, <2>2, <2>3, <1>2
<1>5. /\ \E j \in 1..k : h[j] = LineOf(r, Opening)
      /\ \A j \in 1..k - 1 : h[j].rite = r => Precedes(h[j].what, what)
  <2>1. \E j \in 1..k : h[j] = LineOf(r, Opening)
    <3>1. CASE what = Opening
      <4>1. k \in 1..k BY <1>2, <1>3
      <4> QED BY <4>1, <3>1, <1>1, <1>3
    <3>2. CASE what # Opening
      <4>1. Happened(r, Opening) BY <3>2 DEF InTurn, Going
      <4>2. r \in SaidIn(g, Len(g), Opening) BY <4>1 DEF Recorded
      <4>3. PICK j \in 1..Len(g) : g[j] = LineOf(r, Opening) BY <4>2 DEF SaidIn
      <4>4. j \in 1..k /\ h[j] = g[j] BY <1>2, <1>3
      <4> QED BY <4>3, <4>4
    <3> QED BY <3>1, <3>2
  <2>2. ASSUME NEW j \in 1..k - 1, h[j].rite = r PROVE Precedes(h[j].what, what)
    <3>1. j \in 1..Len(g) /\ h[j] = g[j] BY <1>2, <1>3
    <3>2. g[j].what \in did[g[j].rite] BY <3>1 DEF GrimoireDone
    <3> QED BY <3>1, <3>2, <2>2
  <2> QED BY <2>1, <2>2
<1>6. what \in did'[r] BY <1>1
<1>7. ASSUME NEW i \in 1..Len(h) PROVE i \in 1..Len(g) \/ i = k
  BY <1>2, <1>3
<1>8. GrimoireInOrder(h)
  <2> SUFFICES ASSUME NEW i \in 1..Len(h)
               PROVE  /\ \E j \in 1..i : h[j] = LineOf(h[i].rite, Opening)
                      /\ \A j \in 1..i - 1 : h[j].rite = h[i].rite => Precedes(h[j].what, h[i].what)
    BY DEF GrimoireInOrder
  <2>1. CASE i \in 1..Len(g) BY <2>1, <1>4
  <2>2. CASE i = k BY <2>2, <1>1, <1>3, <1>5
  <2> QED BY <2>1, <2>2, <1>7
<1>9. GrimoireDone(c, h)'
  <2>1. ASSUME NEW i \in 1..Len(h) PROVE Of[h[i].rite] = c /\ h[i].what \in did'[h[i].rite]
    <3>1. CASE i \in 1..Len(g) BY <3>1, <1>4
    <3>2. CASE i = k BY <3>2, <1>1, <1>3, <1>6
    <3> QED BY <3>1, <3>2, <1>7
  <2> QED BY <2>1 DEF GrimoireDone
<1> QED BY <1>8, <1>9

LEMMA FollowedDoesShown ==
    ASSUME ScreenAssumption, ShownInv, NEW c \in Followed, NEW r \in Rite, Of[r] = c,
           NEW what \in Int, InTurn(r, what), Does(r, what), ScreenInv'
    PROVE  ShownInv'
<1> USE DEF ShownInv
<1>0. /\ did \in [Rite -> SUBSET Int] /\ grimoire \in [Followed -> Seq(Event)]
      /\ started \subseteq Rite /\ open \subseteq known /\ at \in [Followed -> Nat]
      /\ RecordedInOrder /\ ScreenTypes /\ Rooted(open)
  BY OpenRooted DEF ScreenInv, ScreenTypes, Event
<1>1. PICK g \in Seq(Event) : g = grimoire[c] BY <1>0
<1>2. PICK e \in Event : e = LineOf(r, what) BY DEF LineOf, Event
<1>3. PICK h \in Seq(Event) : h = Append(g, e) /\ Follows(h, g, e)
  BY EventAppended
<1>4. /\ did' = [did EXCEPT ![r] = @ \cup {what}] /\ grimoire' = [grimoire EXCEPT ![c] = h]
      /\ \/ link[c] = "up" /\ at[c] = Len(g) /\ Hear(c, e)
         \/ link[c] # "up" /\ UNCHANGED <<at, started, finished, rendered>>
      /\ UNCHANGED <<link, backlog, replayed>>
  <2>1. c # Own BY DEF ScreenAssumption
  <2> QED BY <2>1, <1>1, <1>2, <1>3 DEF Does
<1>5. \A s \in Rite : did'[s] = IF s = r THEN did[s] \cup {what} ELSE did[s]
  BY <1>0, <1>4
<1>6. grimoire'[c] = h /\ \A d \in Followed \ {c} : grimoire'[d] = grimoire[d]
  BY <1>0, <1>4
<1>7. DidInOrder' /\ \A v \in did[r] : Precedes(v, what)
  BY <1>0, <1>4, DidFollows
<1>8. Recorded(c, g) /\ FollowedShown(c, g)
  BY <1>0, <1>1, RecordedThen DEF AllFollowedShown
<1>9. GrimoireInOrder(h) /\ GrimoireDone(c, h)'
  <2>1. GrimoireInOrder(g) /\ GrimoireDone(c, g) BY <1>8 DEF FollowedShown
  <2> QED BY <2>1, <1>0, <1>2, <1>3, <1>5, <1>7, <1>8, GrimoireMore
<1>10. RunsInOrder(h)
  <2>1. Recorded(c, grimoire[c])' BY DEF ScreenInv, RecordedInOrder
  <2> QED BY <2>1, <1>6 DEF Recorded
<1>11. /\ Len(g) \in Nat /\ Len(h) = Len(g) + 1 /\ h[Len(g) + 1] = e
       /\ \A i \in 1..Len(g) : h[i] = g[i]
  BY <1>3, EventsOf DEF Follows
<1>12. PICK n \in at[c]..Len(g) : ShownTo(c, g, n) BY <1>8 DEF FollowedShown, ShownOf
<1>13. at[c] \in Nat /\ n \in Nat /\ n \in 0..Len(g) /\ n \in at[c]..Len(h) BY <1>0, <1>11, <1>12
<1>14. ShownTo(c, h, n)
  <2>1. Follows(h, g, e) BY <1>3
  <2>2. SaidIn(h, n, Opening) = SaidIn(g, n, Opening)
    BY ONLY <2>1, <1>11, <1>13, SaidBefore
  <2>3. SaidIn(h, n, Ending) = SaidIn(g, n, Ending)
    BY ONLY <2>1, <1>11, <1>13, SaidBefore
  <2>6. HeardTo(c, g, n) BY <1>12 DEF ShownTo
  <2>4. HeardTo(c, h, n) BY ONLY <2>2, <2>3, <2>6 DEF HeardTo, OpenIn
  <2>5. ToldBy(c, h, n)
    <3>1. \A i \in 1..n : i \in 1..Len(g) BY ONLY <1>11, <1>13
    <3>2. \A i \in 1..n : h[i] = g[i] BY ONLY <3>1, <1>11
    <3> QED BY <3>2, <1>12 DEF ShownTo, ToldBy
  <2> QED BY <2>4, <2>5, <1>12 DEF ShownTo
<1>15. \A s \in Rite : Of[s] = Own => s # r /\ Of[s] # c /\ did'[s] = did[s]
  BY <1>5 DEF ScreenAssumption
<1>16. \A s \in Rite : Of[s] = Own => (Happened(s, Opening)' <=> Happened(s, Opening))
  BY <1>15 DEF Happened
<1>17. /\ RenderedSound' /\ AllInOrder' /\ KnownAsTold' /\ ShownOf(c, h)'
       /\ \A s \in Rite : Of[s] # c =>
              /\ LinesOf(s)' = LinesOf(s)
              /\ s \in started' <=> s \in started
              /\ s \in finished' <=> s \in finished
              /\ s \in open' <=> s \in open
       /\ \A d \in Followed \ {c} : at'[d] = at[d]
  <2>1. CASE link[c] # "up" /\ UNCHANGED <<at, started, finished, rendered>>
    <3>1. UNCHANGED <<known, open, sink, buffer, printed, tail>> BY <2>1 DEF rendered
    <3>2. RenderedSound' BY <3>1 DEF RenderedSound, Rendered
    <3>3. \A s : LinesOf(s)' = LinesOf(s) BY <3>1 DEF LinesOf
    <3>4. AllInOrder' BY <3>3 DEF AllInOrder
    <3>5. KnownAsTold' BY <3>1, <2>1, <1>16 DEF KnownAsTold
    <3>6. ShownTo(c, h, n)'
      <4>1. \A s \in Rite : Of[s] = c =>
                /\ LinesOf(s)' = LinesOf(s) /\ (s \in open' <=> s \in open)
                /\ (s \in started' <=> s \in started) /\ (s \in finished' <=> s \in finished)
        BY <3>1, <3>3, <2>1
      <4>2. started' \subseteq Rite BY <2>1, <1>0
      <4>3. link'[c] = link[c] /\ at'[c] = at[c] /\ backlog'[c] = backlog[c]
            /\ replayed'[c] = replayed[c]
        BY <2>1, <1>4
      <4> QED BY <4>1, <4>2, <4>3, <1>14, ShownSame
    <3>7. ShownOf(c, h)' BY <3>6, <2>1, <1>13 DEF ShownOf
    <3> QED BY <3>1, <3>2, <3>3, <3>4, <3>5, <3>7, <2>1
  <2>2. CASE link[c] = "up" /\ at[c] = Len(g) /\ Hear(c, e)
    <3>1. at[c] < Len(h) /\ at[c] \in Nat /\ n = at[c] /\ ~(at[c] < n)
      BY <2>2, <1>11, <1>12, <1>13
    <3>2. Hear(c, h[at[c] + 1]) BY <2>2, <1>11
    <3>3. h \in Seq([rite : Rite, what : Int]) BY DEF Event
    <3>4. \A s \in Rite, w \in {Opening, Ending} : s \in SaidIn(h, Len(h), w) => Of[s] = c
      <4>1. \A i \in 1..Len(h) : Of[h[i].rite] = c BY <1>9 DEF GrimoireDone
      <4> QED BY <4>1, EventsDiffer DEF SaidIn
    <3>5. HeardTo(c, h, n) BY <1>14 DEF ShownTo
    <3>6. /\ \E m \in at'[c]..Len(h) : m = (IF at[c] < n THEN n ELSE n + 1) /\ HeardTo(c, h, m)'
          /\ \A s \in Rite : Of[s] # c =>
                 /\ s \in started' <=> s \in started
                 /\ s \in finished' <=> s \in finished
                 /\ s \in open' <=> s \in open
      BY <3>1, <3>2, <3>3, <3>4, <3>5, <1>0, <1>10, <1>13, Heard DEF ScreenInv
    <3>7. at'[c] = at[c] + 1 /\ \A d \in Followed \ {c} : at'[d] = at[d]
      BY <2>2, <1>0 DEF Hear
    <3>8. PICK m \in at'[c]..Len(h) : m = (IF at[c] < n THEN n ELSE n + 1) /\ HeardTo(c, h, m)'
      BY <3>6
    <3>9. m = at'[c] /\ m \in at[c] + 1..Len(h) BY <3>1, <3>7, <3>8
    <3>10. \A i \in 1..Len(h) : Of[h[i].rite] = c BY <1>9 DEF GrimoireDone
    <3>11. /\ RenderedSound' /\ AllInOrder' /\ KnownAsTold' /\ ToldBy(c, h, m)'
           /\ \A s \in Rite : Of[s] # c => LinesOf(s)' = LinesOf(s)
      BY <3>1, <3>2, <3>8, <3>9, <3>10, <2>2, <1>0, <1>9, <1>10, <1>13, <1>14, <1>16, HearShown
    <3>12. OldTo(c, m)' BY <3>9 DEF OldTo
    <3>13. ShownTo(c, h, m)' BY <3>8, <3>11, <3>12 DEF ShownTo
    <3>14. ShownOf(c, h)' BY <3>8, <3>13 DEF ShownOf
    <3> QED BY <3>6, <3>7, <3>11, <3>14
  <2> QED BY <2>1, <2>2, <1>4
<1>18. AllOwnShown'
  <2>1. ASSUME NEW s \in Rite, Of[s] = Own PROVE OwnShown(s)'
    <3>1. OwnShown(s) BY <2>1 DEF AllOwnShown
    <3>2. LinesOf(s)' = LinesOf(s) /\ did'[s] = did[s] BY <2>1, <1>15, <1>17
    <3>3. PICK got : got = LinesOf(s) /\ got = LinesOf(s)' BY <3>2
    <3> QED BY <3>1, <3>2, <3>3 DEF OwnShown
  <2> QED BY <2>1 DEF AllOwnShown
<1>19. AllFollowedShown'
  <2>1. FollowedShown(c, grimoire[c])'
    <3>1. FollowedShown(c, h)' BY <1>9, <1>17 DEF FollowedShown
    <3>2. h = grimoire'[c] BY <1>6
    <3> QED BY <3>1, <3>2
  <2>2. ASSUME NEW d \in Followed \ {c} PROVE FollowedShown(d, grimoire[d])'
    <3>0. grimoire'[d] = grimoire[d] BY <1>6
    <3>1. PICK f \in Seq(Event) : f = grimoire[d] /\ f = grimoire'[d] BY <3>0, <1>0
    <3>2. FollowedShown(d, f)
      <4>1. FollowedShown(d, grimoire[d]) BY DEF AllFollowedShown
      <4> QED BY ONLY <3>1, <4>1
    <3>3. \A i \in 1..Len(f) : f[i].rite \in Rite BY EventsOf
    <3>4. started' \subseteq Rite BY DEF ScreenInv, ScreenTypes
    <3>5. /\ link'[d] = link[d] /\ at'[d] = at[d] /\ backlog'[d] = backlog[d]
          /\ replayed'[d] = replayed[d]
      BY <1>4, <1>17
    <3>6. \A s \in Rite : did[s] \subseteq did'[s] BY <1>5
    <3>7. \A s \in Rite : Of[s] = d =>
              /\ LinesOf(s)' = LinesOf(s) /\ (s \in open' <=> s \in open)
              /\ (s \in started' <=> s \in started) /\ (s \in finished' <=> s \in finished)
      BY <1>17
    <3>8. FollowedShown(d, f)' BY <3>2, <3>3, <3>4, <3>5, <3>6, <3>7, FollowedSame
    <3> QED BY <3>1, <3>8
  <2> QED BY <2>1, <2>2 DEF AllFollowedShown
<1>20. LinkTypes' BY <1>4 DEF LinkTypes
<1> QED BY <1>7, <1>17, <1>18, <1>19, <1>20

-----------------------------------------------------------------------------
(* The other steps, as they are shown.                                     *)

LEMMA HearsShown ==
    ASSUME ScreenAssumption, ShownInv, NEW c \in Followed, Hears(c), ScreenInv'
    PROVE  ShownInv'
<1> USE DEF ShownInv
<1>0. /\ grimoire \in [Followed -> Seq(Event)] /\ started \subseteq Rite
      /\ open \subseteq known /\ at \in [Followed -> Nat]
      /\ RecordedInOrder /\ ScreenTypes /\ Rooted(open)
  BY OpenRooted DEF ScreenInv, ScreenTypes, Event
<1>1. PICK g \in Seq(Event) : g = grimoire[c] BY <1>0
<1>2. /\ UNCHANGED <<did, grimoire, link, backlog, replayed>>
      /\ link[c] = "up" /\ backlog[c] # None /\ at[c] < backlog[c]
      /\ Hear(c, g[at[c] + 1])
  BY <1>1 DEF Hears
<1>3. Len(g) \in Nat /\ at[c] \in Nat /\ backlog[c] \in 0..Len(g) /\ at[c] < Len(g)
  BY <1>0, <1>1, <1>2, LenProperties DEF ScreenTypes
<1>4. Recorded(c, g) /\ FollowedShown(c, g)
  BY <1>0, <1>1, RecordedThen DEF AllFollowedShown
<1>5. RunsInOrder(g) /\ GrimoireInOrder(g) /\ \A i \in 1..Len(g) : Of[g[i].rite] = c
  BY <1>4 DEF Recorded, FollowedShown, GrimoireDone
<1>6. PICK n \in at[c]..Len(g) : ShownTo(c, g, n) BY <1>4 DEF FollowedShown, ShownOf
<1>7. HeardTo(c, g, n) /\ n \in Nat BY <1>3, <1>6 DEF ShownTo
<1>8. \A s \in Rite, w \in {Opening, Ending} : s \in SaidIn(g, Len(g), w) => Of[s] = c
  BY <1>4 DEF Recorded
<1>9. g \in Seq([rite : Rite, what : Int]) BY DEF Event
<1>10. /\ \E m \in at'[c]..Len(g) : m = (IF at[c] < n THEN n ELSE n + 1) /\ HeardTo(c, g, m)'
       /\ \A s \in Rite : Of[s] # c =>
              /\ s \in started' <=> s \in started
              /\ s \in finished' <=> s \in finished
              /\ s \in open' <=> s \in open
  BY <1>0, <1>2, <1>3, <1>5, <1>7, <1>8, <1>9, Heard DEF ScreenInv
<1>11. at'[c] = at[c] + 1 /\ \A d \in Followed \ {c} : at'[d] = at[d]
  BY <1>0, <1>2 DEF Hear
<1>12. PICK m \in at'[c]..Len(g) : m = (IF at[c] < n THEN n ELSE n + 1) /\ HeardTo(c, g, m)'
  BY <1>10
<1>13. m \in at[c] + 1..Len(g) BY <1>11, <1>12
<1>14. \A s \in Rite : Happened(s, Opening)' <=> Happened(s, Opening)
  <2>1. did' = did BY <1>2
  <2> QED BY ONLY <2>1 DEF Happened
<1>15. /\ RenderedSound' /\ AllInOrder' /\ KnownAsTold' /\ ToldBy(c, g, m)'
       /\ \A s \in Rite : Of[s] # c => LinesOf(s)' = LinesOf(s)
       /\ at[c] < n => started' = started
  BY <1>0, <1>2, <1>3, <1>5, <1>6, <1>12, <1>13, <1>14, HearShown
<1>16. OldTo(c, m)'
  <2>1. CASE at[c] < n
    <3>1. m = n /\ started' = started /\ at[c] # n BY <2>1, <1>3, <1>7, <1>12, <1>15
    <3>2. OldTo(c, n) BY <1>6 DEF ShownTo
    <3> QED BY <3>1, <3>2, <1>2 DEF OldTo
  <2>2. CASE ~(at[c] < n)
    <3>1. m = at'[c] BY <2>2, <1>3, <1>6, <1>7, <1>11, <1>12
    <3> QED BY <3>1 DEF OldTo
  <2> QED BY <2>1, <2>2
<1>17. FollowedShown(c, g)'
  <2>1. ShownTo(c, g, m)' BY <1>12, <1>15, <1>16 DEF ShownTo
  <2>2. ShownOf(c, g)' BY <2>1, <1>12 DEF ShownOf
  <2>3. GrimoireDone(c, g)' BY <1>2, <1>4 DEF FollowedShown, GrimoireDone
  <2> QED BY <2>2, <2>3, <1>5 DEF FollowedShown
<1>18. AllFollowedShown'
  <2>1. FollowedShown(c, grimoire[c])' BY <1>1, <1>2, <1>17
  <2>2. ASSUME NEW d \in Followed \ {c} PROVE FollowedShown(d, grimoire[d])'
    <3>0. grimoire'[d] = grimoire[d] BY <1>2
    <3>1. PICK f \in Seq(Event) : f = grimoire[d] /\ f = grimoire'[d] BY <3>0, <1>0
    <3>2. FollowedShown(d, f)
      <4>1. FollowedShown(d, grimoire[d]) BY DEF AllFollowedShown
      <4> QED BY ONLY <3>1, <4>1
    <3>3. \A i \in 1..Len(f) : f[i].rite \in Rite BY EventsOf
    <3>4. started' \subseteq Rite BY DEF ScreenInv, ScreenTypes
    <3>5. /\ link'[d] = link[d] /\ at'[d] = at[d] /\ backlog'[d] = backlog[d]
          /\ replayed'[d] = replayed[d]
      BY <1>2, <1>11
    <3>6. \A s \in Rite : did[s] \subseteq did'[s] BY <1>2
    <3>7. \A s \in Rite : Of[s] = d =>
              /\ LinesOf(s)' = LinesOf(s) /\ (s \in open' <=> s \in open)
              /\ (s \in started' <=> s \in started) /\ (s \in finished' <=> s \in finished)
      BY <1>10, <1>15
    <3>8. FollowedShown(d, f)' BY <3>2, <3>3, <3>4, <3>5, <3>6, <3>7, FollowedSame
    <3> QED BY <3>1, <3>8
  <2> QED BY <2>1, <2>2 DEF AllFollowedShown
<1>19. AllOwnShown'
  <2>1. ASSUME NEW s \in Rite, Of[s] = Own PROVE OwnShown(s)'
    <3>1. OwnShown(s) BY <2>1 DEF AllOwnShown
    <3>2. Of[s] # c BY <2>1 DEF ScreenAssumption
    <3>3. LinesOf(s)' = LinesOf(s) /\ did'[s] = did[s] BY <3>2, <1>2, <1>15
    <3>4. PICK got : got = LinesOf(s) /\ got = LinesOf(s)' BY <3>3
    <3> QED BY <3>1, <3>3, <3>4 DEF OwnShown
  <2> QED BY <2>1 DEF AllOwnShown
<1>20. DidInOrder' BY <1>2 DEF DidInOrder
<1>21. LinkTypes' BY <1>2 DEF LinkTypes
<1> QED BY <1>15, <1>18, <1>19, <1>20, <1>21

(* Nothing is said or shown.                                               *)
LEMMA NothingShown ==
    ASSUME ScreenAssumption, ShownInv, ScreenInv',
           UNCHANGED <<did, grimoire, started, finished, known, open>>,
           RenderedSound', \A s : LinesOf(s)' = LinesOf(s), LinkTypes',
           \A c \in Followed : \A n \in at[c]..Len(grimoire[c]) :
               OldTo(c, n) => at'[c] <= n /\ OldTo(c, n)'
    PROVE  ShownInv'
<1> USE DEF ShownInv
<1>1. DidInOrder' BY DEF DidInOrder
<1>2. KnownAsTold' BY DEF KnownAsTold, Happened
<1>3. AllInOrder' BY DEF AllInOrder
<1>4. AllOwnShown'
  <2>1. ASSUME NEW s \in Rite, Of[s] = Own PROVE OwnShown(s)'
    <3>1. OwnShown(s) BY <2>1 DEF AllOwnShown
    <3>2. PICK got : got = LinesOf(s) /\ got = LinesOf(s)' OBVIOUS
    <3> QED BY <3>1, <3>2 DEF OwnShown
  <2> QED BY <2>1 DEF AllOwnShown
<1>5. AllFollowedShown'
  <2>1. ASSUME NEW c \in Followed PROVE FollowedShown(c, grimoire[c])'
    <3>1. PICK g : g = grimoire[c] /\ g = grimoire'[c] OBVIOUS
    <3>2. FollowedShown(c, g)
      <4>1. FollowedShown(c, grimoire[c]) BY DEF AllFollowedShown
      <4> QED BY ONLY <3>1, <4>1
    <3>3. PICK n \in at[c]..Len(g) : ShownTo(c, g, n) BY <3>2 DEF FollowedShown, ShownOf
    <3>4. at'[c] <= n /\ OldTo(c, n)' BY <3>1, <3>3 DEF ShownTo
    <3>5. HeardTo(c, g, n)' BY <3>3 DEF ShownTo, HeardTo
    <3>6. ToldBy(c, g, n)' BY <3>3 DEF ShownTo, ToldBy
    <3>7. ShownTo(c, g, n)' BY <3>4, <3>5, <3>6 DEF ShownTo
    <3>8. n \in at'[c]..Len(g)
      <4>1. at[c] \in Nat /\ at'[c] \in Nat /\ Len(g) \in Nat
        BY <3>1, LenProperties DEF ScreenInv, ScreenTypes
      <4> QED BY <4>1, <3>4
    <3>9. ShownOf(c, g)' BY <3>7, <3>8 DEF ShownOf
    <3>10. GrimoireDone(c, g)' BY <3>2 DEF FollowedShown, GrimoireDone
    <3> QED BY <3>1, <3>2, <3>9, <3>10 DEF FollowedShown
  <2> QED BY <2>1 DEF AllFollowedShown
<1> QED BY <1>1, <1>2, <1>3, <1>4, <1>5

(* A connection that is made, comes to its end of what was recorded, or is *)
(* lost.                                                                   *)
LEMMA LinkShown ==
    ASSUME ScreenAssumption, ShownInv, NEW c \in Followed,
           Attaches(c) \/ Replayed(c) \/ Loses(c), ScreenInv'
    PROVE  ShownInv'
<1>1. /\ UNCHANGED <<did, grimoire, started, finished, rendered>>
      /\ UNCHANGED <<known, open, sink, buffer, printed, tail>>
  BY DEF Attaches, Replayed, Loses, rendered
<1>2. /\ RenderedSound' /\ \A s : LinesOf(s)' = LinesOf(s)
  BY <1>1 DEF ShownInv, RenderedSound, Rendered, LinesOf
<1>3. LinkTypes' BY DEF ShownInv, LinkTypes, Attaches, Replayed, Loses
<1>4. /\ at \in [Followed -> Nat] /\ backlog \in [Followed -> Nat \cup {None}]
      /\ DOMAIN link = Followed /\ DOMAIN replayed = Followed /\ started \subseteq Rite
      /\ \A d \in Followed : Len(grimoire[d]) \in Nat
  BY LenProperties DEF ShownInv, ScreenInv, ScreenTypes, LinkTypes
<1>5. ASSUME NEW d \in Followed, NEW n \in at[d]..Len(grimoire[d]), OldTo(d, n)
      PROVE  at'[d] <= n /\ OldTo(d, n)'
  <2>1. at[d] \in Nat /\ n \in Nat /\ at[d] <= n /\ n <= Len(grimoire[d]) BY <1>4
  <2>2. CASE d # c
    <3>1. /\ link'[d] = link[d] /\ at'[d] = at[d] /\ backlog'[d] = backlog[d]
          /\ replayed'[d] = replayed[d]
      BY <2>2, <1>4 DEF Attaches, Replayed, Loses
    <3> QED BY <3>1, <2>1, <1>1, <1>5 DEF OldTo
  <2>3. CASE d = c /\ Attaches(c)
    <3>1. at'[c] = 0 /\ backlog'[c] = Len(grimoire[c]) /\ replayed'[c] = {s \in started : Of[s] = c}
      BY <2>3, <1>4 DEF Attaches
    <3>2. PICK S \in SUBSET Rite : S = {s \in started : Of[s] = c} BY <1>4
    <3>3. S # None BY DEF ScreenAssumption
    <3> QED BY <3>1, <3>2, <3>3, <2>1, <2>3, <1>1 DEF OldTo
  <2>4. CASE d = c /\ Replayed(c)
    <3>1. link[c] = "up" /\ backlog[c] = at[c] /\ at' = at BY <2>4 DEF Replayed
    <3>2. n = at[c] BY <3>1, <2>1, <2>4, <1>5 DEF OldTo
    <3> QED BY <3>1, <3>2, <2>1, <2>4 DEF OldTo
  <2>5. CASE d = c /\ Loses(c)
    <3>1. link'[c] = "lost" /\ at' = at BY <2>5, <1>4 DEF Loses
    <3> QED BY <3>1, <2>1, <2>5 DEF OldTo
  <2> QED BY <2>2, <2>3, <2>4, <2>5
<1> QED BY <1>1, <1>2, <1>3, <1>5, NothingShown

LEMMA ShownStep == ASSUME ScreenAssumption, ShownInv, [Next]_vars PROVE ShownInv'
<1>0. ScreenInv' BY ScreenStep DEF ShownInv
<1>1. ASSUME UNCHANGED <<did, grimoire, wire>>, UNCHANGED <<known, open>>, RenderedSound',
             \A s : LinesOf(s)' = LinesOf(s)
      PROVE  ShownInv'
  <2>1. UNCHANGED <<did, grimoire, started, finished, link, at, backlog, replayed>>
    BY <1>1 DEF wire
  <2>2. LinkTypes' BY <2>1 DEF ShownInv, LinkTypes
  <2>3. ASSUME NEW c \in Followed, NEW n \in at[c]..Len(grimoire[c]), OldTo(c, n)
        PROVE  at'[c] <= n /\ OldTo(c, n)'
    <3>1. at[c] \in Nat /\ Len(grimoire[c]) \in Nat
      BY LenProperties DEF ShownInv, ScreenInv, ScreenTypes
    <3> QED BY <3>1, <2>1, <2>3 DEF OldTo
  <2> QED BY <2>1, <2>2, <2>3, <1>0, <1>1, NothingShown
<1>2. ASSUME NEW r \in Rite, NEW what \in Int, InTurn(r, what), Does(r, what)
      PROVE  ShownInv'
  <2>1. Of[r] \in Followed \/ Of[r] = Own BY DEF ScreenAssumption
  <2> QED BY <2>1, <1>0, <1>2, OwnDoesShown, FollowedDoesShown
<1>3. ASSUME NEW r \in Rite, Begins(r) \/ (\E n \in 1..Output[r] : Says(r, n)) \/ Ends(r)
      PROVE  ShownInv'
  <2>1. PICK what \in Int : InTurn(r, what) /\ Does(r, what) BY <1>3, TakesItsTurn
  <2> QED BY <2>1, <1>2
<1>4. ASSUME Off PROVE ShownInv'
  <2>1. UNCHANGED <<did, grimoire, wire, known, open, sink, buffer, printed, tail>>
    BY <1>4 DEF Off, screenVars, rendered
  <2>2. RenderedSound' /\ \A s : LinesOf(s)' = LinesOf(s)
    BY <2>1 DEF ShownInv, RenderedSound, Rendered, LinesOf
  <2> QED BY <2>1, <2>2, <1>1
<1>5. ASSUME NEW l \in {Note, Partial}, Written(l) PROVE ShownInv'
  <2>1. UNCHANGED <<did, grimoire, wire, known, open>>
    BY <1>5, WrittenRenders DEF Written
  <2>2. RenderedSound' /\ \A s : LinesOf(s)' = LinesOf(s)
    BY <1>5, WrittenSound DEF ShownInv, Written
  <2> QED BY <2>1, <2>2, <1>1
<1>6. CASE ScreenNext
  <2>1. CASE \E r \in Rite : Begins(r) \/ (\E n \in 1..Output[r] : Says(r, n)) \/ Ends(r)
    BY <2>1, <1>3
  <2>2. CASE \E c \in Followed : Attaches(c) \/ Replayed(c) \/ Hears(c) \/ Loses(c)
    BY <2>2, <1>0, HearsShown, LinkShown
  <2> QED BY <2>1, <2>2, <1>6 DEF ScreenNext
<1>7. CASE PromptNext
  <2>1. PICK p \in Prompt :
            \/ Decides(p) \/ SaidAgain(p) \/ HearsClaim(p) \/ HearsRelease(p)
            \/ Settles(p) \/ GoesOn(p) \/ HearsEnd(p)
    BY <1>7 DEF PromptNext
  <2>2. Off \/ Written(Note)
    BY <2>1 DEF Decides, SaidAgain, HearsClaim, HearsRelease, Settles, GoesOn, HearsEnd
  <2> QED BY <2>2, <1>4, <1>5
<1>8. CASE LineNext
  <2>1. Off \/ Written(Note) \/ Written(Partial)
    BY <1>8 DEF LineNext, Leaves, Asked, Answered, AskedAgain, Withdrawn, Reads, Told
  <2> QED BY <2>1, <1>4, <1>5
<1>9. CASE UNCHANGED vars
  BY <1>9, <1>4 DEF vars, Off
<1> QED BY <1>6, <1>7, <1>8, <1>9 DEF Next

LEMMA ShownStart == ASSUME ScreenAssumption, ScreenInit PROVE ShownInv
<1>0. ScreenInv BY ScreenStart
<1>1. /\ did = [r \in Rite |-> {}] /\ grimoire = [c \in Followed |-> <<>>]
      /\ link = [c \in Followed |-> "lost"] /\ replayed = [c \in Followed |-> None]
      /\ at = [c \in Followed |-> 0] /\ started = {} /\ finished = {} /\ known = {} /\ open = {}
      /\ sink = [r \in Rite |-> None] /\ buffer = [r \in Rite |-> <<>>]
      /\ printed = [r \in Rite |-> <<>>] /\ tail = [last |-> Note, began |-> TRUE]
  BY DEF ScreenInit
<1>2. LinkTypes BY <1>1 DEF LinkTypes
<1>3. RenderedSound
  <2>1. PICK out : out = Rendered OBVIOUS
  <2>2. /\ DOMAIN out = Fields /\ DOMAIN out.tail = {"last", "began"}
        /\ out.known = {} /\ out.open = {} /\ out.sink = [r \in Rite |-> None]
        /\ out.buffer = [r \in Rite |-> <<>>] /\ out.printed = [r \in Rite |-> <<>>]
        /\ out.tail.last = Note
    BY <2>1, <1>1 DEF Rendered, Fields
  <2>3. Note \in Text /\ Note.rite = None BY DEF Note, LineOf, Text, Opening
  <2>4. <<>> \in Seq(Event) /\ <<>> \in Seq(Int) OBVIOUS
  <2>5. Held(out)
    <3> HIDE DEF Event
    <3> QED BY <2>2, <2>3, <2>4 DEF Held
  <2>6. SinksAlong(out) /\ UnknownSilent(out) /\ TailIsLast(out)
    BY <2>2, <2>3 DEF SinksAlong, UnknownSilent, TailIsLast
  <2>7. BuffersOpen(out)
    <3>1. \A b \in Rite : out.buffer[b] = <<>> /\ Len(out.buffer[b]) = 0 BY <2>2
    <3> QED BY <3>1 DEF BuffersOpen
  <2> QED BY <2>1, <2>5, <2>6, <2>7 DEF RenderedSound, Sound
<1>4. \A r \in Rite : did[r] = {} /\ LinesOf(r) = <<>>
  <2>1. \A r \in Rite : did[r] = {} /\ printed[r] = <<>> /\ sink[r] = None BY <1>1
  <2>2. <<>> \o <<>> = <<>> OBVIOUS
  <2> QED BY <2>1, <2>2 DEF LinesOf
<1>5. DidInOrder /\ KnownAsTold
  BY <1>1, <1>4 DEF DidInOrder, KnownAsTold, Happened
<1>6. AllInOrder /\ AllOwnShown
  BY <1>4 DEF AllInOrder, InOrder, AllOwnShown, OwnShown, Range
<1>7. AllFollowedShown
  <2>1. ASSUME NEW c \in Followed PROVE FollowedShown(c, grimoire[c])
    <3>1. PICK g : g = grimoire[c] /\ g = <<>> /\ Len(g) = 0 BY <1>1
    <3>2. GrimoireInOrder(g) /\ GrimoireDone(c, g) BY <3>1 DEF GrimoireInOrder, GrimoireDone
    <3>3. at[c] = 0 /\ link[c] # "up" BY <1>1
    <3>4. HeardTo(c, g, 0) BY <1>1 DEF HeardTo, SaidIn, OpenIn
    <3>5. ToldBy(c, g, 0) BY <1>4 DEF ToldBy, Range
    <3>6. ShownTo(c, g, 0) BY <3>3, <3>4, <3>5 DEF ShownTo, OldTo
    <3>7. ShownOf(c, g) BY <3>1, <3>3, <3>6 DEF ShownOf
    <3> QED BY <3>1, <3>2, <3>7 DEF FollowedShown
  <2> QED BY <2>1 DEF AllFollowedShown
<1> QED BY <1>0, <1>2, <1>3, <1>5, <1>6, <1>7 DEF ShownInv

(* What stands on the terminal is what happened, each line of a rite once, *)
(* in the order it was said, and of the cast itself all of it but openings *)
(* that gave way (standalone.py's renderers and their Tail, follow.py's    *)
(* `_Followed`): for any tree of rites, any output, any casts followed and *)
(* any number of connections lost and records said again.                  *)
THEOREM ShownOnceCorrect == Spec => []ShownOnce
<1>1. Init => ShownInv BY ShownStart, ScreenAssumption DEF Init
<1>2. ShownInv /\ [Next]_vars => ShownInv' BY ShownStep, ScreenAssumption
<1>3. ShownInv => ShownOnce
  <2> SUFFICES ASSUME ShownInv, NEW r \in Rite
               PROVE  LET got == LinesOf(r) IN
                      /\ Range(got) \subseteq did[r]
                      /\ \A i, j \in DOMAIN got :
                             i < j => got[i] # Ending /\ (got[j] = Ending \/ got[i] < got[j])
                      /\ Of[r] = Own =>
                             did[r] \ Range(got) \subseteq
                                 (IF Ending \in Range(got) THEN {Opening} ELSE {})
    BY DEF ShownOnce
  <2>1. PICK got : got = LinesOf(r) OBVIOUS
  <2>2. InOrder(got) BY <2>1 DEF ShownInv, AllInOrder
  <2>3. Of[r] = Own => OwnShown(r) BY DEF ShownInv, AllOwnShown
  <2>4. ASSUME Of[r] # Own PROVE Range(got) \subseteq did[r]
    <3>1. PICK c \in Followed : Of[r] = c BY <2>4, ScreenAssumption DEF ScreenAssumption
    <3>2. PICK g : g = grimoire[c] OBVIOUS
    <3>3. FollowedShown(c, g) BY <3>2 DEF ShownInv, AllFollowedShown
    <3>4. PICK n \in at[c]..Len(g) : ShownTo(c, g, n) BY <3>3 DEF FollowedShown, ShownOf
    <3>5. Len(g) \in Nat /\ at[c] \in Nat
      BY <3>2, LenProperties DEF ShownInv, ScreenInv, ScreenTypes
    <3>6. ASSUME NEW w \in Range(got) PROVE w \in did[r]
      <4>1. PICK i \in 1..n : g[i] = LineOf(r, w) BY <3>1, <3>4, <2>1 DEF ShownTo, ToldBy
      <4>2. i \in 1..Len(g) BY <3>4, <3>5
      <4>3. g[i].what \in did[g[i].rite] BY <4>2, <3>3 DEF FollowedShown, GrimoireDone
      <4> QED BY <4>1, <4>3, EventsDiffer
    <3> QED BY <3>6
  <2> QED BY <2>1, <2>2, <2>3, <2>4 DEF InOrder, Precedes, OwnShown
<1> QED BY <1>1, <1>2, <1>3, PTL DEF Spec
=============================================================================
