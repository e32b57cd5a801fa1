----------------------------- MODULE CastProofs -----------------------------
(***************************************************************************)
(* Proofs about Cast, for any casts it queues and any queued by those, in  *)
(* whatever order the daemon's two connections bring the word of them.     *)
(***************************************************************************)
EXTENDS Cast, SequenceTheorems, TLAPS

Statuses == {"ok", "error", "disconnected"}
Frame == ({"hello"} \X Kids) \cup ({"goodbye"} \X Kids \X Statuses)
Sent == DOMAIN wire

(* The casts this one may queue, and those that these may.                 *)
Ours ==
    {k \in Kids : \A S \in SUBSET Kids :
        {j \in Kids : Parent[j] \in S \cup {Root}} \subseteq S => k \in S}

CastTypes ==
    /\ stat \in [Kids -> {"none", "queued", "running", "lost", "ok", "failed"}]
    /\ ended \in [Kids -> Statuses \cup {None}]
    /\ wire \in Seq(Frame)
    /\ heard \subseteq Kids /\ returned \subseteq Kids /\ expected = returned
    /\ attached => phase = "steps"

(* What is asked for was not there before; what is answered is.            *)
QueuedByIt ==
    /\ \A k \in asked : k \in Kids /\ Parent[k] = Root /\ stat[k] = "none"
    /\ \A k \in asking : k \in Kids /\ Parent[k] = Root
    /\ \A k \in returned : Parent[k] = Root

(* A cast is there after the one that queued it.                           *)
Born ==
    /\ \A k \in Ours : stat[k] # "none" /\ Parent[k] \in Kids => stat[Parent[k]] # "none"
    /\ phase = "drive" =>
           ~staying /\ asked = {} /\ \A k \in Ours : stat[k] = "none"

(* Who is said to have ended well did.                                     *)
EndedWell ==
    \A k \in Kids :
        (ended[k] = "ok" \/ \E i \in Sent : wire[i] = Goodbye(k, "ok")) => stat[k] = "ok"

(* While it stays it is told of each cast it set going, of each before the *)
(* word that the one that queued it ended well.                            *)
Stayed == staying /\ phase \in Running

ToldOf(k, n) == k \in heard \/ \E i \in Sent : i < n /\ wire[i] = Hello(k)

TheyTell ==
    Stayed =>
        /\ daemon => writer
        /\ \A k \in Ours : stat[k] # "none" => ToldOf(k, Len(wire) + 1)
        /\ \A k \in Ours : stat[k] # "none" /\ Parent[k] \in Kids =>
               /\ ended[Parent[k]] = "ok" => k \in heard
               /\ \A j \in Sent : wire[j] = Goodbye(Parent[k], "ok") => ToldOf(k, j)

(* The inductive invariant of CodeTold.                                    *)
CastInv == CastTypes /\ QueuedByIt /\ Born /\ EndedWell /\ TheyTell /\ CodeTold
-----------------------------------------------------------------------------

(* The casts that descend from this one are closed under who queues whom:  *)
(* what one of them or this one queues descends, and one that descends is  *)
(* queued by this one or by one that does.                                 *)
LEMMA OursUnder ==
    ASSUME CastAssumption
    PROVE  /\ \A k \in Kids : Parent[k] = Root => k \in Ours
           /\ \A k \in Kids : Parent[k] \in Ours => k \in Ours
           /\ \A k \in Ours : Parent[k] \in Kids => Parent[k] \in Ours
           /\ Ours \subseteq Kids
<1>1. \A k \in Kids : Parent[k] = Root => k \in Ours
  BY DEF Ours
<1>2. \A k \in Kids : Parent[k] \in Ours => k \in Ours
  BY DEF Ours
<1>3. ASSUME NEW k \in Ours, Parent[k] \in Kids
      PROVE  Parent[k] \in Ours
  <2> DEFINE S == {j \in Ours : Parent[j] \in Kids => Parent[j] \in Ours}
  <2>1. {j \in Kids : Parent[j] \in S \cup {Root}} \subseteq S
    <3> SUFFICES ASSUME NEW j \in Kids, Parent[j] \in S \cup {Root}
                 PROVE  j \in S
      OBVIOUS
    <3>1. CASE Parent[j] = Root
      BY <1>1, <3>1 DEF CastAssumption
    <3>2. CASE Parent[j] \in S
      BY <1>2, <3>2
    <3> QED BY <3>1, <3>2
  <2>2. S \in SUBSET Kids
    BY DEF Ours
  <2>3. k \in S
    <3> HIDE DEF S
    <3> QED BY <2>1, <2>2 DEF Ours
  <2> QED BY <1>3, <2>3
<1>4. Ours \subseteq Kids
  BY DEF Ours
<1> QED BY <1>1, <1>2, <1>3, <1>4

(* A word is a hello or a goodbye, and never one and the other.            *)
LEMMA Words ==
    ASSUME NEW f \in Frame
    PROVE  \/ /\ f[1] = "hello" /\ f[2] \in Kids /\ f = Hello(f[2])
              /\ \A k \in Kids, s \in Statuses : f # Goodbye(k, s)
           \/ /\ f[1] = "goodbye" /\ f[2] \in Kids /\ f[3] \in Statuses
              /\ f = Goodbye(f[2], f[3])
              /\ \A k \in Kids : f # Hello(k)
<1>1. CASE f \in {"hello"} \X Kids
  BY <1>1 DEF Hello, Goodbye
<1>2. CASE f \in {"goodbye"} \X Kids \X Statuses
  BY <1>2 DEF Hello, Goodbye
<1> QED BY <1>1, <1>2 DEF Frame

LEMMA WordsOf ==
    ASSUME NEW k \in Kids
    PROVE  /\ Hello(k) \in Frame
           /\ \A s \in Statuses : Goodbye(k, s) \in Frame
           /\ \A j \in Kids : Hello(j) = Hello(k) => j = k
           /\ \A j \in Kids, s \in Statuses : Hello(j) # Goodbye(k, s)
           /\ \A j \in Kids, s \in Statuses, t \in Statuses :
                  Goodbye(j, s) = Goodbye(k, t) => j = k /\ s = t
BY DEF Frame, Hello, Goodbye

(* What the daemon says goes last on the connection.                       *)
LEMMA TellsLast ==
    ASSUME wire \in Seq(Frame), NEW f \in Frame, NEW frames,
           frames = <<>> \/ frames = <<f>>, Tells(frames)
    PROVE  /\ wire' \in Seq(Frame)
           /\ Len(wire) <= Len(wire')
           /\ \A i \in Sent : i \in Sent' /\ wire'[i] = wire[i]
           /\ \A i \in Sent' : i \notin Sent => i = Len(wire) + 1 /\ wire'[i] = f
           /\ daemon /\ writer /\ frames = <<f>> =>
                  /\ Len(wire') = Len(wire) + 1 /\ Len(wire) + 1 \in Sent'
                  /\ wire'[Len(wire) + 1] = f
<1>0. Len(wire) \in Nat /\ Sent = 1..Len(wire)
  BY LenProperties DEF Sent
<1>1. CASE wire' = wire
  <2>1. ~(daemon /\ writer /\ frames = <<f>>)
    <3> SUFFICES ASSUME daemon, writer, frames = <<f>>
                 PROVE  FALSE
      OBVIOUS
    <3>1. wire = Append(wire, f)
      BY <1>1 DEF Tells
    <3>2. Len(Append(wire, f)) = Len(wire) + 1
      BY AppendProperties
    <3> QED BY <1>0, <3>1, <3>2
  <2>2. Sent' = Sent
    BY <1>1 DEF Sent
  <2>3. wire' \in Seq(Frame) /\ Len(wire) <= Len(wire')
    BY <1>0, <1>1
  <2> QED BY <1>1, <2>1, <2>2, <2>3
<1>2. CASE wire' = Append(wire, f)
  <2>1. /\ Append(wire, f) \in Seq(Frame) /\ Len(Append(wire, f)) = Len(wire) + 1
        /\ \A i \in 1..Len(wire) : Append(wire, f)[i] = wire[i]
        /\ Append(wire, f)[Len(wire) + 1] = f
    BY AppendProperties
  <2>2. Sent' = 1..(Len(wire) + 1)
    BY <1>2, <2>1, LenProperties DEF Sent
  <2> QED BY <1>0, <1>2, <2>1, <2>2
<1>3. wire' = wire \/ wire' = Append(wire, f)
  BY DEF Tells
<1> QED BY <1>1, <1>2, <1>3

-----------------------------------------------------------------------------

(* What changes nothing that was said or heard keeps what the daemon tells *)
(* as it was, as long as nobody is hung up that the daemon would tell.     *)
LEMMA QuietStep ==
    ASSUME CastTypes, Born, EndedWell, TheyTell,
           stat' = stat, ended' = ended, heard' = heard, wire' = wire,
           staying' = staying,
           phase' \in Running => phase \in Running,
           phase' = "drive" => phase = "drive" /\ asked' = asked,
           daemon' => daemon /\ writer' = writer
    PROVE  Born' /\ EndedWell' /\ TheyTell'
<1>1. Sent' = Sent /\ Ours' = Ours
  BY DEF Sent, Ours
<1>2. Born'
  BY <1>1 DEF Born
<1>3. EndedWell'
  BY <1>1 DEF EndedWell, Goodbye
<1>4. ASSUME Stayed'
      PROVE  Stayed
  BY <1>4 DEF Stayed, Running
<1>5. \A k, n : ToldOf(k, n) => ToldOf(k, n)'
  BY <1>1 DEF ToldOf, Hello
<1>6. TheyTell'
  <2> SUFFICES ASSUME Stayed'
               PROVE  /\ daemon' => writer'
                      /\ \A k \in Ours : stat[k] # "none" => ToldOf(k, Len(wire) + 1)'
                      /\ \A k \in Ours : stat[k] # "none" /\ Parent[k] \in Kids =>
                             /\ ended[Parent[k]] = "ok" => k \in heard
                             /\ \A j \in Sent : wire[j] = Goodbye(Parent[k], "ok") =>
                                    ToldOf(k, j)'
    BY <1>1 DEF TheyTell, ToldOf, Goodbye, Hello
  <2>1. Stayed
    BY <1>4
  <2> QED BY <1>5, <2>1 DEF TheyTell
<1> QED BY <1>2, <1>3, <1>6

(* Nothing is left to tell one that is over.                               *)
LEMMA GoneStep ==
    ASSUME CastTypes, Born, EndedWell, stat' = stat, ended' = ended, wire' = <<>>,
           phase' \notin Running
    PROVE  Born' /\ EndedWell' /\ TheyTell' /\ wire' \in Seq(Frame)
<1>1. Ours' = Ours /\ Sent' = {}
  BY DEF Ours, Sent
<1>2. TheyTell'
  BY DEF TheyTell, Stayed, Running
<1>3. Born'
  BY <1>1 DEF Born, Running
<1>4. EndedWell'
  BY <1>1 DEF EndedWell, Goodbye
<1> QED BY <1>2, <1>3, <1>4

(* A step of one other cast, and the word of it the daemon sends, or none.  *)
Moves(k, to, f, frames) ==
    /\ daemon /\ stat' = [stat EXCEPT ![k] = to]
    /\ frames = <<>> \/ frames = <<f>>
    /\ Tells(frames)
    /\ UNCHANGED <<daemon, writer, staying, phase, heard, ended>>

(* One cast takes a step, and the daemon says so: one that comes to be has *)
(* a hello, and the one that queued it has not ended.                      *)
LEMMA KidMoves ==
    ASSUME CastAssumption, CastTypes, Born, EndedWell, TheyTell,
           NEW k \in Kids, NEW to, NEW f \in Frame, NEW frames, Moves(k, to, f, frames),
           to \in {"queued", "running", "lost", "ok", "failed"}, stat[k] # "ok",
           \A j \in Kids : f = Goodbye(j, "ok") => j = k /\ to = "ok",
           stat[k] = "none" => frames = <<f>> /\ f = Hello(k),
           stat[k] = "none" /\ k \in Ours =>
               /\ phase # "drive"
               /\ Parent[k] \in Kids => stat[Parent[k]] \notin {"none", "ok"},
           asked = {} => asked' = {}
    PROVE  Born' /\ EndedWell' /\ TheyTell' /\ wire' \in Seq(Frame)
<1>0. /\ daemon /\ stat' = [stat EXCEPT ![k] = to]
      /\ frames = <<>> \/ frames = <<f>>
      /\ Tells(frames)
      /\ daemon' = daemon /\ writer' = writer /\ staying' = staying /\ phase' = phase
      /\ heard' = heard /\ ended' = ended
  BY DEF Moves
<1>1. /\ wire' \in Seq(Frame)
      /\ Len(wire) <= Len(wire')
      /\ \A i \in Sent : i \in Sent' /\ wire'[i] = wire[i]
      /\ \A i \in Sent' : i \notin Sent => i = Len(wire) + 1 /\ wire'[i] = f
      /\ daemon /\ writer /\ frames = <<f>> =>
             /\ Len(wire') = Len(wire) + 1 /\ Len(wire) + 1 \in Sent'
             /\ wire'[Len(wire) + 1] = f
  BY <1>0, TellsLast DEF CastTypes
<1>2. /\ Len(wire) \in Nat /\ Len(wire') \in Nat /\ Sent = 1..Len(wire) /\ Sent' = 1..Len(wire')
  BY <1>1, LenProperties DEF CastTypes, Sent
<1>3. Ours' = Ours /\ Ours \subseteq Kids
  BY DEF Ours
<1>4. \A j \in Kids : j # k => stat'[j] = stat[j]
  BY <1>0 DEF CastTypes
<1>5. stat'[k] = to
  BY <1>0 DEF CastTypes
<1>6. Born'
  <2>1. ASSUME NEW j \in Ours, stat'[j] # "none", Parent[j] \in Kids
        PROVE  stat'[Parent[j]] # "none"
    <3>1. CASE j = k /\ stat[k] = "none"
      BY <1>4, <1>5, <2>1, <3>1
    <3>2. CASE ~(j = k /\ stat[k] = "none")
      <4>1. stat[j] # "none"
        BY <1>3, <1>4, <2>1, <3>2
      <4> QED BY <1>4, <1>5, <2>1, <4>1 DEF Born
    <3> QED BY <3>1, <3>2
  <2>2. ASSUME phase = "drive"
        PROVE  ~staying /\ asked' = {} /\ \A j \in Ours : stat'[j] = "none"
    <3>1. ~staying /\ asked = {} /\ \A j \in Ours : stat[j] = "none"
      BY <2>2 DEF Born
    <3>2. k \notin Ours
      BY <2>2, <3>1
    <3> QED BY <1>3, <1>4, <3>1, <3>2
  <2> QED BY <1>0, <1>3, <2>1, <2>2 DEF Born
<1>7. ASSUME NEW j \in Kids, stat[j] = "ok"
      PROVE  stat'[j] = "ok"
  BY <1>4, <1>7
<1>8. EndedWell'
  <2> SUFFICES ASSUME NEW j \in Kids,
                      \/ ended[j] = "ok"
                      \/ \E i \in Sent' : wire'[i] = Goodbye(j, "ok")
               PROVE  stat'[j] = "ok"
    BY <1>0 DEF EndedWell, Goodbye
  <2>1. CASE ended[j] = "ok"
    BY <1>7, <2>1 DEF EndedWell
  <2>2. CASE \E i \in Sent' : wire'[i] = Goodbye(j, "ok")
    <3>1. PICK i \in Sent' : wire'[i] = Goodbye(j, "ok")
      BY <2>2
    <3>2. CASE i \in Sent
      BY <1>1, <1>7, <3>1, <3>2 DEF EndedWell
    <3>3. CASE i \notin Sent
      BY <1>1, <1>5, <3>1, <3>3
    <3> QED BY <3>2, <3>3
  <2> QED BY <2>1, <2>2
<1>9. \A j, n : ToldOf(j, n) => ToldOf(j, n)'
  BY <1>0, <1>1 DEF ToldOf, Hello
<1>10. TheyTell'
  <2> SUFFICES ASSUME Stayed'
               PROVE  /\ daemon' => writer'
                      /\ \A j \in Ours : stat'[j] # "none" => ToldOf(j, Len(wire) + 1)'
                      /\ \A j \in Ours : stat'[j] # "none" /\ Parent[j] \in Kids =>
                             /\ ended'[Parent[j]] = "ok" => j \in heard'
                             /\ \A i \in Sent' : wire'[i] = Goodbye(Parent[j], "ok") =>
                                    ToldOf(j, i)'
    BY <1>0, <1>3 DEF TheyTell, ToldOf, Goodbye, Hello
  <2>1. Stayed /\ writer
    BY <1>0 DEF Stayed, TheyTell
  <2>2. ASSUME NEW j \in Ours, stat'[j] # "none"
        PROVE  ToldOf(j, Len(wire) + 1)'
    <3>1. CASE j = k /\ stat[k] = "none"
      <4>1. /\ Len(wire') = Len(wire) + 1 /\ Len(wire) + 1 \in Sent'
            /\ wire'[Len(wire) + 1] = Hello(j)
        BY <1>0, <1>1, <2>1, <3>1
      <4>2. Len(wire) + 1 < Len(wire') + 1
        BY <1>2, <4>1
      <4> QED BY <4>1, <4>2 DEF ToldOf, Hello
    <3>2. CASE ~(j = k /\ stat[k] = "none")
      <4>1. ToldOf(j, Len(wire) + 1)
        BY <1>3, <1>4, <2>1, <2>2, <3>2 DEF TheyTell
      <4> QED BY <1>0, <1>1, <1>2, <4>1 DEF ToldOf, Hello
    <3> QED BY <3>1, <3>2
  <2>3. ASSUME NEW j \in Ours, stat'[j] # "none", Parent[j] \in Kids
        PROVE  /\ ended'[Parent[j]] = "ok" => j \in heard'
               /\ \A i \in Sent' : wire'[i] = Goodbye(Parent[j], "ok") => ToldOf(j, i)'
    <3>1. CASE j = k /\ stat[k] = "none"
      <4>1. stat[Parent[k]] # "ok"
        BY <2>3, <3>1
      <4>2. ended[Parent[k]] # "ok"
        BY <2>3, <3>1, <4>1 DEF EndedWell
      <4>3. ASSUME NEW i \in Sent', wire'[i] = Goodbye(Parent[j], "ok")
            PROVE  FALSE
        <5>1. CASE i \in Sent
          BY <1>1, <2>3, <3>1, <4>1, <4>3, <5>1 DEF EndedWell
        <5>2. CASE i \notin Sent
          <6>1. Goodbye(Parent[j], "ok") = Hello(k)
            BY <1>1, <3>1, <4>3, <5>2
          <6> QED BY <2>3, <6>1, WordsOf DEF Statuses
        <5> QED BY <5>1, <5>2
      <4> QED BY <1>0, <3>1, <4>2, <4>3
    <3>2. CASE ~(j = k /\ stat[k] = "none")
      <4>1. stat[j] # "none"
        BY <1>3, <1>4, <2>3, <3>2
      <4>2. /\ ended[Parent[j]] = "ok" => j \in heard
            /\ \A i \in Sent : wire[i] = Goodbye(Parent[j], "ok") => ToldOf(j, i)
            /\ ToldOf(j, Len(wire) + 1)
        BY <2>1, <2>3, <4>1 DEF TheyTell
      <4>3. ASSUME NEW i \in Sent', wire'[i] = Goodbye(Parent[j], "ok")
            PROVE  ToldOf(j, i)'
        <5>1. CASE i \in Sent
          <6>1. ToldOf(j, i)
            BY <1>1, <4>2, <4>3, <5>1
          <6> QED BY <1>0, <1>1, <6>1 DEF ToldOf, Hello
        <5>2. CASE i \notin Sent
          <6>1. i = Len(wire) + 1
            BY <1>1, <5>2
          <6> QED BY <1>0, <1>1, <4>2, <6>1 DEF ToldOf, Hello
        <5> QED BY <5>1, <5>2
      <4> QED BY <1>0, <4>2, <4>3
    <3> QED BY <3>1, <3>2
  <2> QED BY <1>0, <2>1, <2>2, <2>3
<1> QED BY <1>1, <1>6, <1>8, <1>10

(* A word read leaves the connection, and what it said is known.           *)
LEMMA ReadsStep ==
    ASSUME CastAssumption, CastTypes, Born, EndedWell, TheyTell, Reads
    PROVE  Born' /\ EndedWell' /\ TheyTell' /\ CastTypes'
<1> DEFINE m == wire[1]
<1>1. /\ writer /\ wire # <<>> /\ LineageHears(m) /\ wire' = Tail(wire)
      /\ UNCHANGED <<staying, phase, daemon, asked, stat, writer, attached, returned, expected>>
  <2>1. Head(wire) = m
    BY DEF CastTypes
  <2> QED BY <2>1 DEF Reads, root, enqueues
<1>2. m \in Frame
  BY <1>1, EmptySeq, ElementOfSeq, LenProperties DEF CastTypes
<1>3. /\ wire' \in Seq(Frame) /\ Len(wire) \in Nat \ {0} /\ Len(wire') = Len(wire) - 1
      /\ Sent = 1..Len(wire) /\ Sent' = 1..Len(wire')
      /\ \A i \in Sent' : i + 1 \in Sent /\ wire'[i] = wire[i + 1]
  BY <1>1, HeadTailProperties, LenProperties, EmptySeq DEF CastTypes, Sent
<1>4. 1 \in Sent
  BY <1>3
<1>5. Ours' = Ours /\ Ours \subseteq Kids
  BY DEF Ours
<1> HIDE DEF m
<1>6. PICK k : k = m[2]
  OBVIOUS
<1>7. \/ /\ k \in Kids /\ m = Hello(k) /\ heard' = heard \cup {k} /\ ended' = ended
         /\ \A j \in Kids, s \in Statuses : m # Goodbye(j, s)
      \/ /\ k \in Kids /\ heard' = heard
         /\ \A j \in Kids : m # Hello(j)
         /\ \E s \in Statuses : /\ m = Goodbye(k, s)
                                /\ ended' = ended \/ ended' = [ended EXCEPT ![k] = s]
  BY <1>1, <1>2, <1>6, Words DEF LineageHears
<1>8. CastTypes'
  BY <1>1, <1>3, <1>7 DEF CastTypes
<1>9. Born'
  BY <1>1, <1>5 DEF Born
<1>10. ASSUME NEW j \in Kids, ended'[j] = "ok"
       PROVE  ended[j] = "ok" \/ m = Goodbye(j, "ok")
  BY <1>7, <1>10 DEF CastTypes
<1>11. EndedWell'
  <2> SUFFICES ASSUME NEW j \in Kids,
                      \/ ended'[j] = "ok"
                      \/ \E i \in Sent' : wire'[i] = Goodbye(j, "ok")
               PROVE  stat[j] = "ok"
    BY <1>1 DEF EndedWell, Goodbye
  <2>1. ended[j] = "ok" \/ \E i \in Sent : wire[i] = Goodbye(j, "ok")
    BY <1>3, <1>4, <1>10 DEF m
  <2> QED BY <2>1 DEF EndedWell
<1>12. ASSUME NEW j \in Kids, NEW n \in Nat, ToldOf(j, n + 1)
       PROVE  ToldOf(j, n)'
  <2>1. CASE j \in heard
    BY <1>7, <2>1 DEF ToldOf
  <2>2. CASE \E i \in Sent : i < n + 1 /\ wire[i] = Hello(j)
    <3>1. PICK i \in Sent : i < n + 1 /\ wire[i] = Hello(j)
      BY <2>2
    <3>2. CASE i = 1
      <4>1. m = Hello(j)
        BY <3>1, <3>2 DEF m
      <4>2. k = j /\ heard' = heard \cup {k}
        BY <1>7, <4>1, WordsOf
      <4> QED BY <4>2 DEF ToldOf
    <3>3. CASE i # 1
      <4>1. i - 1 \in Sent' /\ i - 1 < n /\ i = (i - 1) + 1
        BY <1>3, <3>1, <3>3
      <4>2. wire'[i - 1] = Hello(j)
        BY <1>3, <3>1, <4>1
      <4> QED BY <4>1, <4>2 DEF ToldOf, Hello
    <3> QED BY <3>2, <3>3
  <2> QED BY <1>12, <2>1, <2>2 DEF ToldOf
<1>13. TheyTell'
  <2> SUFFICES ASSUME Stayed'
               PROVE  /\ daemon' => writer'
                      /\ \A j \in Ours : stat[j] # "none" => ToldOf(j, Len(wire) + 1)'
                      /\ \A j \in Ours : stat[j] # "none" /\ Parent[j] \in Kids =>
                             /\ ended'[Parent[j]] = "ok" => j \in heard'
                             /\ \A i \in Sent' : wire'[i] = Goodbye(Parent[j], "ok") =>
                                    ToldOf(j, i)'
    BY <1>1, <1>5 DEF TheyTell, ToldOf, Goodbye, Hello
  <2>1. Stayed
    BY <1>1 DEF Stayed
  <2>2. ASSUME NEW j \in Ours, stat[j] # "none"
        PROVE  ToldOf(j, Len(wire) + 1)'
    <3>1. PICK n \in Nat : n = Len(wire)
      BY <1>3
    <3>2. ToldOf(j, n + 1)
      BY <2>1, <2>2, <3>1 DEF TheyTell
    <3>3. ToldOf(j, n)'
      BY <1>5, <1>12, <3>2
    <3>4. n = Len(wire') + 1
      BY <1>3, <3>1
    <3> QED BY <3>3, <3>4 DEF ToldOf, Hello
  <2>3. ASSUME NEW j \in Ours, stat[j] # "none", Parent[j] \in Kids
        PROVE  /\ ended'[Parent[j]] = "ok" => j \in heard'
               /\ \A i \in Sent' : wire'[i] = Goodbye(Parent[j], "ok") => ToldOf(j, i)'
    <3>1. /\ ended[Parent[j]] = "ok" => j \in heard
          /\ \A i \in Sent : wire[i] = Goodbye(Parent[j], "ok") => ToldOf(j, i)
      BY <2>1, <2>3 DEF TheyTell
    <3>2. ASSUME ended'[Parent[j]] = "ok"
          PROVE  j \in heard'
      <4>1. CASE ended[Parent[j]] = "ok"
        BY <1>7, <3>1, <4>1
      <4>2. CASE m = Goodbye(Parent[j], "ok")
        <5>1. ToldOf(j, 1)
          BY <1>4, <3>1, <4>2 DEF m
        <5>2. \A i \in Sent : ~(i < 1)
          BY <1>3
        <5> QED BY <1>7, <5>1, <5>2 DEF ToldOf
      <4> QED BY <1>10, <2>3, <3>2, <4>1, <4>2
    <3>3. ASSUME NEW i \in Sent', wire'[i] = Goodbye(Parent[j], "ok")
          PROVE  ToldOf(j, i)'
      <4>1. ToldOf(j, i + 1)
        BY <1>3, <3>1, <3>3
      <4>2. i \in Nat
        BY <1>3
      <4> QED BY <1>5, <1>12, <4>1, <4>2
    <3> QED BY <3>2, <3>3
  <2> QED BY <2>1, <2>2, <2>3, <1>1 DEF TheyTell
<1> QED BY <1>8, <1>9, <1>11, <1>13

(* It starts with nobody queued yet, and one word, of a stranger, waiting. *)
LEMMA DrivesStep ==
    ASSUME CastAssumption, CastTypes, Born, EndedWell, Drives
    PROVE  Born' /\ EndedWell' /\ TheyTell' /\ wire' \in Seq(Frame)
<1>1. UNCHANGED <<daemon, asked, stat, ended, heard>> /\ phase = "drive"
  BY DEF Drives, enqueues, lineage
<1>2. Ours' = Ours
  BY DEF Ours
<1>3. phase' # "drive"
  BY DEF Drives, Refused, Starts
<1>4. Born'
  BY <1>1, <1>2, <1>3 DEF Born
<1>5. CASE wire' = wire /\ phase' = "over"
  <2>1. Sent' = Sent
    BY <1>5 DEF Sent
  <2>2. EndedWell'
    BY <1>1, <1>5, <2>1 DEF EndedWell, Goodbye
  <2>3. TheyTell'
    BY <1>5 DEF TheyTell, Stayed, Running
  <2> QED BY <1>4, <1>5, <2>2, <2>3 DEF CastTypes
<1>6. CASE \E plan \in Resolved : Starts(plan)
  <2>1. PICK plan \in Resolved : Starts(plan)
    BY <1>6
  <2>3. wire' = <<>> \/ \E k \in Kids : wire' = <<Hello(k)>>
    BY <2>1 DEF Starts, Replayed
  <2>4. /\ wire' \in Seq(Frame)
        /\ \A i \in Sent' : \E k \in Kids : wire'[i] = Hello(k)
    <3>2. CASE wire' = <<>>
      BY <3>2 DEF Sent
    <3>3. ASSUME NEW k \in Kids, wire' = <<Hello(k)>>
          PROVE  /\ wire' \in Seq(Frame)
                 /\ \A i \in Sent' : wire'[i] = Hello(k)
      <4>0. Hello(k) \in Frame
        BY WordsOf
      <4>1. wire' \in Seq(Frame)
        BY <3>3, <4>0 DEF Frame, Hello
      <4>2. PICK f : f = Hello(k)
        OBVIOUS
      <4>3. Sent' = {1} /\ wire'[1] = f
        BY <3>3, <4>2 DEF Sent
      <4> QED BY <4>1, <4>2, <4>3
    <3> QED BY <2>3, <3>2, <3>3
  <2>5. EndedWell'
    <3>1. ASSUME NEW j \in Kids, NEW i \in Sent', wire'[i] = Goodbye(j, "ok")
          PROVE  FALSE
      BY <2>4, <3>1, WordsOf DEF Statuses
    <3> QED BY <1>1, <3>1 DEF EndedWell, Goodbye
  <2>6. staying' => (daemon' => writer')
    BY <2>1 DEF Starts
  <2>7. \A j \in Ours : stat'[j] = "none"
    BY <1>1 DEF Born
  <2>8. TheyTell'
    BY <1>2, <2>6, <2>7 DEF TheyTell, Stayed
  <2> QED BY <1>4, <2>4, <2>5, <2>8
<1> QED BY <1>5, <1>6 DEF Drives, Refused

-----------------------------------------------------------------------------

(* All is well where it says so: what its steps queued is heard of, by one *)
(* word or the other, and, of each that is heard of and that ended well,   *)
(* what it queued is heard of before.                                      *)
LEMMA WellIsWell ==
    ASSUME CastAssumption, CastTypes, QueuedByIt, Born, EndedWell, TheyTell,
           Stayed, Settled, ~Failed
    PROVE  \A k \in Kids : From(k) /\ stat[k] # "none" => stat[k] = "ok"
<1> DEFINE S == {k \in Ours : stat[k] # "none" => k \in heard /\ Descends(k)}
<1>1. \A k \in heard : Descends(k) => ended[k] = "ok" /\ stat[k] = "ok"
  <2> SUFFICES ASSUME NEW k \in heard, Descends(k)
               PROVE  ended[k] = "ok" /\ stat[k] = "ok"
    OBVIOUS
  <2>1. k \in Kids
    BY DEF CastTypes
  <2>2. ended[k] # None
    BY DEF Settled
  <2>3. ended[k] = "ok"
    BY <2>1, <2>2 DEF Failed
  <2> QED BY <2>1, <2>3 DEF EndedWell
<1>2. \A k \in heard : Parent[k] = Root => Descends(k)
  BY DEF Descends
<1>3. \A k \in heard : Parent[k] \in heard /\ Descends(Parent[k]) => Descends(k)
  BY DEF Descends
<1>4. returned \subseteq S
  <2> SUFFICES ASSUME NEW k \in returned
               PROVE  k \in S
    OBVIOUS
  <2>1. k \in Kids /\ Parent[k] = Root /\ k \in heard
    BY DEF CastTypes, QueuedByIt, Settled
  <2>2. k \in Ours
    BY <2>1, OursUnder
  <2> QED BY <1>2, <2>1, <2>2
<1>5. ASSUME NEW j \in Kids, Parent[j] \in S
      PROVE  j \in S
  <2>1. j \in Ours /\ Parent[j] \in Kids
    BY <1>5, OursUnder
  <2>2. ASSUME stat[j] # "none"
        PROVE  j \in heard /\ Descends(j)
    <3>1. stat[Parent[j]] # "none"
      BY <2>1, <2>2 DEF Born
    <3>2. Parent[j] \in heard /\ Descends(Parent[j])
      BY <1>5, <3>1
    <3>3. ended[Parent[j]] = "ok"
      BY <1>1, <3>2
    <3>4. j \in heard
      BY <2>1, <2>2, <3>3 DEF TheyTell
    <3> QED BY <1>3, <3>2, <3>4
  <2> QED BY <2>1, <2>2
<1>6. S \in SUBSET Kids
  BY DEF Ours
<1>7. ASSUME NEW k \in Kids, From(k), stat[k] # "none"
      PROVE  stat[k] = "ok"
  <2>1. returned \cup {j \in Kids : Parent[j] \in S} \subseteq S
    BY <1>4, <1>5
  <2>2. k \in S
    <3> HIDE DEF S
    <3> QED BY <1>6, <1>7, <2>1 DEF From
  <2> QED BY <1>1, <1>7, <2>2
<1> QED BY <1>7

(* It says so only once it has nobody left to stay for.                    *)
LEMMA ExitTold ==
    ASSUME CastAssumption, CastTypes, QueuedByIt, Born, EndedWell, TheyTell,
           phase \in {"closed", "waiting"}, Exits(Worst),
           UNCHANGED <<staying, stat, returned>>
    PROVE  CodeTold'
<1> SUFFICES ASSUME code' = 0, staying
             PROVE  \A k \in Kids : From(k)' /\ stat[k] # "none" => stat[k] = "ok"
  BY DEF CodeTold
<1>1. Stayed
  BY DEF Stayed, Running
<1>2. Settled /\ ~Failed
  BY DEF Exits, Worst
<1>3. \A k \in Kids : From(k)' => From(k)
  BY DEF From
<1> QED BY <1>1, <1>2, <1>3, WellIsWell

(* What is said once is not taken back: the casts stay as they were.       *)
LEMMA SaidTold ==
    ASSUME CodeTold,
           phase' = "over" =>
               /\ phase = "over"
               /\ code' = code /\ staying' = staying /\ stat' = stat /\ returned' = returned
    PROVE  CodeTold'
<1> SUFFICES ASSUME phase' = "over"
             PROVE  CodeTold'
  BY DEF CodeTold
<1>1. \A k \in Kids : From(k)' => From(k)
  BY DEF From
<1> QED BY <1>1 DEF CodeTold

-----------------------------------------------------------------------------

LEMMA CastInit == ASSUME CastAssumption, Init PROVE CastInv
<1>1. CastTypes
  BY EmptySeq DEF Init, CastTypes
<1>2. Sent = {}
  BY DEF Init, Sent
<1>3. ASSUME NEW k \in Ours
      PROVE  stat[k] = "none"
  <2> DEFINE S == {j \in Kids : Parent[j] # None}
  <2>1. {j \in Kids : Parent[j] \in S \cup {Root}} \subseteq S
    BY DEF CastAssumption
  <2>2. k \in S
    <3>1. S \in SUBSET Kids
      OBVIOUS
    <3> HIDE DEF S
    <3> QED BY <2>1, <3>1 DEF Ours
  <2> QED BY <2>2 DEF Init
<1>4. Born /\ QueuedByIt
  BY <1>3 DEF Init, Born, QueuedByIt
<1>5. EndedWell
  BY <1>2 DEF Init, EndedWell, CastAssumption
<1>6. TheyTell /\ CodeTold
  BY DEF Init, TheyTell, Stayed, CodeTold
<1> QED BY <1>1, <1>4, <1>5, <1>6 DEF CastInv

(* A step of another cast that is there already, or that comes to be.      *)
LEMMA KidStepKeeps ==
    ASSUME CastAssumption, CastInv, NEW k \in Kids, NEW from, NEW to, NEW f \in Frame,
           NEW frames, frames = <<>> \/ frames = <<f>>,
           KidStep(k, from, to, frames),
           to \in {"queued", "running", "lost", "ok", "failed"}, "ok" \notin from,
           \A j \in Kids : f = Goodbye(j, "ok") => j = k /\ to = "ok",
           "none" \in from => /\ frames = <<f>> /\ f = Hello(k)
                              /\ Parent[k] \in Kids /\ stat[Parent[k]] = "running"
    PROVE  CastInv'
<1>1. /\ UNCHANGED <<staying, phase, code, daemon, attached, asked, asking, returned, writer,
                     heard, ended, expected>>
      /\ stat' = [stat EXCEPT ![k] = to] /\ Tells(frames) /\ daemon /\ stat[k] \in from
      /\ phase \in Running
  BY DEF KidStep, root, enqueues, follower, lineage
<1>2. stat[k] # "ok"
  BY <1>1
<1>3. stat[k] = "none" /\ k \in Ours =>
          phase # "drive" /\ (Parent[k] \in Kids => stat[Parent[k]] \notin {"none", "ok"})
  <2> SUFFICES ASSUME stat[k] = "none", k \in Ours
               PROVE  phase # "drive" /\ stat[Parent[k]] \notin {"none", "ok"}
    OBVIOUS
  <2>1. stat[Parent[k]] = "running" /\ Parent[k] \in Ours
    BY <1>1, OursUnder
  <2> QED BY <2>1 DEF CastInv, Born
<1>4. Born' /\ EndedWell' /\ TheyTell' /\ wire' \in Seq(Frame)
  <2>1. Moves(k, to, f, frames)
    BY <1>1 DEF Moves
  <2> QED BY <1>1, <1>2, <1>3, <2>1, KidMoves DEF CastInv
<1>5. CastTypes'
  BY <1>1, <1>4 DEF CastInv, CastTypes
<1>6. QueuedByIt'
  <2>1. \A j \in asked : j # k
    <3> SUFFICES ASSUME k \in asked
                 PROVE  FALSE
      OBVIOUS
    <3>1. stat[k] = "none" /\ Parent[k] = Root
      BY DEF CastInv, QueuedByIt
    <3> QED BY <1>1, <3>1 DEF CastAssumption
  <2> QED BY <1>1, <2>1 DEF CastInv, CastTypes, QueuedByIt
<1>7. CodeTold'
  BY <1>1 DEF CodeTold, Running
<1> QED BY <1>4, <1>5, <1>6, <1>7 DEF CastInv

(* The daemon takes what this cast asks it to queue.                       *)
LEMMA TakesKeeps ==
    ASSUME CastAssumption, CastInv, NEW k \in Kids, Takes(k), NEW f \in Frame,
           f = Hello(k), \A j \in Kids : f # Goodbye(j, "ok")
    PROVE  CastInv'
<1>1. /\ UNCHANGED <<staying, phase, code, daemon, attached, asking, returned, writer,
                     heard, ended, expected>>
      /\ stat' = [stat EXCEPT ![k] = "queued"] /\ Tells(<<f>>) /\ daemon
      /\ asked' = asked \ {k} /\ k \in asked /\ phase \in Running
  BY DEF Takes, root, follower, lineage
<1>2. stat[k] = "none" /\ Parent[k] = Root
  BY <1>1 DEF CastInv, QueuedByIt
<1>3. stat[k] = "none" /\ k \in Ours =>
          phase # "drive" /\ (Parent[k] \in Kids => stat[Parent[k]] \notin {"none", "ok"})
  BY <1>1, <1>2 DEF CastInv, Born, CastAssumption
<1>4. Born' /\ EndedWell' /\ TheyTell' /\ wire' \in Seq(Frame)
  <2>1. Moves(k, "queued", f, <<f>>)
    BY <1>1 DEF Moves
  <2>2. asked = {} => asked' = {}
    BY <1>1
  <2> QED BY <1>1, <1>2, <1>3, <2>1, <2>2, KidMoves DEF CastInv
<1>5. CastTypes'
  BY <1>1, <1>4 DEF CastInv, CastTypes
<1>6. QueuedByIt'
  BY <1>1 DEF CastInv, CastTypes, QueuedByIt
<1>7. CodeTold'
  BY <1>1 DEF CodeTold, Running
<1> QED BY <1>4, <1>5, <1>6, <1>7 DEF CastInv

(* What an enqueue, an answer or a cut changes besides.                    *)
LEMMA QuietKeeps ==
    ASSUME CastAssumption, CastInv,
           UNCHANGED <<stat, ended, heard, staying>>,
           \/ /\ wire' = wire
              /\ phase' \in Running => phase \in Running
              /\ phase' = "drive" => phase = "drive" /\ asked' = asked
              /\ daemon' => daemon /\ writer' = writer
           \/ wire' = <<>> /\ phase' \notin Running,
           attached' => (attached \/ phase = "steps") /\ phase' = phase,
           \A k \in asked' \cup asking' :
               k \in asked \cup asking \/ (k \in Kids /\ Parent[k] = Root),
           \A k \in asked' : k \in asked \/ stat[k] = "none",
           returned' \subseteq returned \cup asking, expected' = returned',
           phase' = "over" => \/ phase = "over" /\ code' = code /\ returned' = returned
                              \/ /\ phase \in {"closed", "waiting"} /\ Exits(Worst)
                                 /\ returned' = returned
    PROVE  CastInv'
<1>1. Born' /\ EndedWell' /\ TheyTell' /\ wire' \in Seq(Frame)
  BY QuietStep, GoneStep DEF CastInv, CastTypes
<1>2. CastTypes'
  <2>1. returned' \subseteq Kids
    BY DEF CastInv, CastTypes, QueuedByIt
  <2> QED BY <1>1, <2>1 DEF CastInv, CastTypes
<1>3. QueuedByIt'
  BY DEF CastInv, QueuedByIt
<1>4. CodeTold'
  <2>1. CASE phase' = "over" /\ phase # "over"
    BY <2>1, ExitTold DEF CastInv
  <2>2. CASE ~(phase' = "over" /\ phase # "over")
    BY <2>2, SaidTold DEF CastInv
  <2> QED BY <2>1, <2>2
<1> QED BY <1>1, <1>2, <1>3, <1>4 DEF CastInv

LEMMA CastStep == ASSUME CastAssumption, CastInv, [Next]_vars PROVE CastInv'
<1> USE DEF Running
<1>1. CASE Drives
  <2>1. Born' /\ EndedWell' /\ TheyTell' /\ wire' \in Seq(Frame)
    BY <1>1, DrivesStep DEF CastInv
  <2>2. UNCHANGED <<stat, ended, heard, returned, expected, asked, asking>>
    BY <1>1 DEF Drives, enqueues, lineage
  <2>3. phase' = "over" => code' # 0
    BY <1>1 DEF Drives, Refused, Starts
  <2>4. attached' => phase' = "steps"
    BY <1>1 DEF Drives, Refused, Starts, CastInv, CastTypes
  <2>5. CastTypes' /\ QueuedByIt'
    BY <2>1, <2>2, <2>4 DEF CastInv, CastTypes, QueuedByIt
  <2>6. CodeTold'
    BY <2>3 DEF CodeTold
  <2> QED BY <2>1, <2>5, <2>6 DEF CastInv
<1>2. CASE Stays
  <2>1. CASE Exits(Worst)
    BY <1>2, <2>1, QuietKeeps DEF Stays, Exits, enqueues, lineage, CastInv, CastTypes
  <2>2. CASE phase' = "waiting" /\ UNCHANGED <<code, writer, wire>>
    BY <1>2, <2>2, QuietKeeps DEF Stays, enqueues, lineage, CastInv, CastTypes
  <2> QED BY <1>2, <2>1, <2>2 DEF Stays
<1>3. CASE Wakes
  BY <1>3, QuietKeeps DEF Wakes, Exits, enqueues, lineage, CastInv, CastTypes
<1>4. CASE Reads
  <2>1. Born' /\ EndedWell' /\ TheyTell' /\ CastTypes'
    BY <1>4, ReadsStep DEF CastInv
  <2>2. UNCHANGED <<phase, code, staying, stat, returned, asked, asking>>
    BY <1>4 DEF Reads, root, enqueues
  <2>3. QueuedByIt'
    BY <2>2 DEF CastInv, QueuedByIt
  <2>4. CodeTold'
    BY <2>2, SaidTold DEF CastInv
  <2> QED BY <2>1, <2>3, <2>4 DEF CastInv
<1>5. CASE HangsUp \/ HungUp
  BY <1>5, QuietKeeps DEF HangsUp, HungUp, root, enqueues, lineage, CastInv, CastTypes
<1>6. CASE GoodbyeHeard
  BY <1>6, QuietKeeps DEF GoodbyeHeard, root, enqueues, follower, lineage, CastInv, CastTypes
<1>7. ASSUME NEW k \in Kids, Takes(k)
      PROVE  CastInv'
  <2>1. PICK f \in Frame : f = Hello(k) /\ \A j \in Kids : f # Goodbye(j, "ok")
    BY WordsOf DEF Statuses
  <2> QED BY <1>7, <2>1, TakesKeeps
<1>8. ASSUME NEW k \in Kids, KidStarts(k) \/ KidBack(k)
      PROVE  CastInv'
  <2>1. Hello(k) \in Frame /\ \A j \in Kids : Hello(k) # Goodbye(j, "ok")
    BY WordsOf DEF Statuses
  <2>2. PICK f \in Frame : f = Hello(k)
    BY <2>1
  <2>3. \/ KidStep(k, {"queued"}, "running", <<f>>)
        \/ KidStep(k, {"lost"}, "running", <<f>>)
    BY <1>8, <2>2 DEF KidStarts, KidBack
  <2>4. \A j \in Kids : f # Goodbye(j, "ok")
    BY <2>1, <2>2
  <2> QED BY <2>3, <2>4, KidStepKeeps
<1>9. ASSUME NEW k \in Kids, KidEnds(k) \/ KidLost(k)
      PROVE  CastInv'
  <2>1. /\ \A s \in Statuses : Goodbye(k, s) \in Frame
        /\ \A j \in Kids, s \in Statuses : Goodbye(k, s) = Goodbye(j, "ok") => j = k /\ s = "ok"
    BY WordsOf DEF Statuses
  <2>2. CASE KidStep(k, {"running"}, "ok", <<Goodbye(k, "ok")>>)
    <3>1. PICK f \in Frame : f = Goodbye(k, "ok")
      BY <2>1 DEF Statuses
    <3>2. \A j \in Kids : f = Goodbye(j, "ok") => j = k
      BY <2>1, <3>1 DEF Statuses
    <3>3. KidStep(k, {"running"}, "ok", <<f>>)
      BY <2>2, <3>1
    <3> QED BY <3>2, <3>3, KidStepKeeps
  <2>3. CASE KidStep(k, {"running", "queued"}, "failed", <<Goodbye(k, "error")>>)
    <3>1. PICK f \in Frame : f = Goodbye(k, "error")
      BY <2>1 DEF Statuses
    <3>2. \A j \in Kids : f # Goodbye(j, "ok")
      BY <2>1, <3>1 DEF Statuses
    <3>3. KidStep(k, {"running", "queued"}, "failed", <<f>>)
      BY <2>3, <3>1
    <3> QED BY <3>2, <3>3, KidStepKeeps
  <2>4. CASE KidStep(k, {"lost"}, "failed", <<>>)
    <3>1. PICK f \in Frame : \A j \in Kids : f # Goodbye(j, "ok")
      <4>1. \A j \in Kids : Goodbye(k, "error") # Goodbye(j, "ok")
        BY <2>1 DEF Statuses
      <4> QED BY <2>1, <4>1 DEF Statuses
    <3>2. PICK frames : frames = <<>>
      OBVIOUS
    <3>3. KidStep(k, {"lost"}, "failed", frames)
      BY <2>4, <3>2
    <3> QED BY <3>1, <3>2, <3>3, KidStepKeeps
  <2>5. CASE KidStep(k, {"running"}, "lost", <<Goodbye(k, "disconnected")>>)
    <3>1. PICK f \in Frame : f = Goodbye(k, "disconnected")
      BY <2>1 DEF Statuses
    <3>2. \A j \in Kids : f # Goodbye(j, "ok")
      BY <2>1, <3>1 DEF Statuses
    <3>3. KidStep(k, {"running"}, "lost", <<f>>)
      BY <2>5, <3>1
    <3> QED BY <3>2, <3>3, KidStepKeeps
  <2> QED BY <1>9, <2>2, <2>3, <2>4, <2>5 DEF KidEnds, KidLost
<1>10. ASSUME NEW k \in Kids, KidEnqueues(k)
       PROVE  CastInv'
  <2>1. Hello(k) \in Frame /\ \A j \in Kids : Hello(k) # Goodbye(j, "ok")
    BY WordsOf DEF Statuses
  <2>2. PICK f \in Frame : f = Hello(k)
    BY <2>1
  <2>3. /\ KidStep(k, {"none"}, "queued", <<f>>)
        /\ Parent[k] \in Kids /\ stat[Parent[k]] = "running"
    BY <1>10, <2>2 DEF KidEnqueues
  <2>4. \A j \in Kids : f # Goodbye(j, "ok")
    BY <2>1, <2>2
  <2> QED BY <2>2, <2>3, <2>4, KidStepKeeps
<1>11. CASE Ends
  BY <1>11, QuietKeeps
     DEF Ends, Closes, enqueues, follower, lineage, CastInv, CastTypes
<1>12. CASE Leaves
  BY <1>12, QuietKeeps DEF Leaves, Out, lineage, CastInv, CastTypes
<1>13. ASSUME UNCHANGED <<daemon, view, unread, stat, hanging, lineage, done, losses>>,
              \/ /\ phase = "steps" /\ phase' = "closed" /\ attached' = FALSE
                 /\ asking' = {} /\ UNCHANGED <<staying, asked, answers, returned, writer, wire>>
              \/ UNCHANGED <<root, attached, enqueues, writer, wire>>
              \/ Out("left")
              \/ Out("dead")
       PROVE  CastInv'
  BY <1>13, QuietKeeps DEF Out, root, enqueues, lineage, CastInv, CastTypes
<1>14. CASE AskedToEnd
  <2>1. phase = "steps"
    BY <1>14 DEF AskedToEnd, CastInv, CastTypes
  <2> QED BY <1>13, <1>14, <2>1 DEF AskedToEnd, Cancelled
<1>15. CASE Cuts
  BY <1>13, <1>15 DEF Cuts, Interrupt, Cancelled
<1>16. CASE DaemonGoes
  BY <1>16, QuietKeeps DEF DaemonGoes, root, enqueues, follower, lineage, CastInv, CastTypes
<1>17. ASSUME NEW k \in Kids, Enqueues(k)
       PROVE  CastInv'
  BY <1>17, QuietKeeps DEF Enqueues, root, follower, lineage, CastInv, CastTypes
<1>18. ASSUME NEW k \in Kids, GivesUp(k)
       PROVE  CastInv'
  BY <1>18, QuietKeeps DEF GivesUp, root, follower, lineage, CastInv, CastTypes
<1>19. ASSUME NEW k \in Kids, Returns(k)
       PROVE  CastInv'
  BY <1>19, QuietKeeps DEF Returns, root, CastInv, CastTypes
<1>20. CASE LosesConnection
  BY <1>20, QuietKeeps
     DEF LosesConnection, root, follower, lineage, CastInv, CastTypes
<1>21. CASE Reattaches
  BY <1>21, QuietKeeps
     DEF Reattaches, root, enqueues, follower, lineage, CastInv, CastTypes
<1>22. CASE GoneNoticed
  BY <1>22, QuietKeeps
     DEF GoneNoticed, root, enqueues, follower, lineage, CastInv, CastTypes
<1>23. CASE UNCHANGED vars
  BY <1>23, QuietKeeps DEF vars, CastInv, CastTypes
<1> QED
  BY <1>1, <1>2, <1>3, <1>4, <1>5, <1>6, <1>7, <1>8, <1>9, <1>10, <1>11, <1>12, <1>14, <1>15,
     <1>16, <1>17, <1>18, <1>19, <1>20, <1>21, <1>22, <1>23 DEF Next, Own, Others

(* A terminal that stayed says all is well only when it is: every cast its *)
(* steps queued, and every one those queued, has ended, and ended well,    *)
(* whichever of the daemon's two connections is the first with the word.   *)
THEOREM CodeToldCorrect == Spec => []CodeTold
<1>1. Init => CastInv
  BY CastInit, CastAssumption
<1>2. CastInv /\ [Next]_vars => CastInv'
  BY CastStep, CastAssumption
<1>3. CastInv => CodeTold
  BY DEF CastInv
<1> QED BY <1>1, <1>2, <1>3, PTL DEF Spec
=============================================================================
