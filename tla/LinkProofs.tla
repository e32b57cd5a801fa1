----------------------------- MODULE LinkProofs -----------------------------
(***************************************************************************)
(* Proofs about Link: for any casts, things waited on and connections,     *)
(* however late either end learns that the other is gone, and however the  *)
(* daemon ends and starts again.                                           *)
(***************************************************************************)
EXTENDS Link, SequenceTheorems, FunctionTheorems, FiniteSetTheorems, TLAPS

(* What is said of each thing: by the cast that it is open, then that it   *)
(* has ended, and by the daemon.                                           *)
Opener(x) ==
    CASE x \in Prompt -> "asked" [] x \in Slot -> "slot"
      [] x \in Enqueue -> "enqueue" [] OTHER -> "awaits"

Endings(x) ==
    CASE x \in Prompt -> {"resolved", "withdrawn"} [] x \in Slot -> {"released"}
      [] x \in Enqueue -> {} [] OTHER -> {"awaitWithdrawn"}

Tellings(x) ==
    CASE x \in Prompt -> {"answer", "claimed", "unclaimed"} [] x \in Slot -> {"granted"}
      [] x \in Enqueue -> {"accepted", "refused"} [] OTHER -> {"childEnded"}

UpKinds == {"hello", "goodbye", "asked", "slot", "enqueue", "awaits",
            "resolved", "withdrawn", "released", "awaitWithdrawn"}
DownKinds == {"answer", "claimed", "unclaimed", "granted", "accepted", "refused", "childEnded"}

UpFrames(c) ==
    {f \in [kind : UpKinds, about : Mine(c, Id) \cup {c}] :
        \/ f.kind \in {"hello", "goodbye"} /\ f.about = c
        \/ f.about \in Mine(c, Id) /\ (f.kind = Opener(f.about) \/ f.kind \in Endings(f.about))}

DownFrames(c) ==
    {f \in [kind : DownKinds, about : Mine(c, Id)] : f.kind \in Tellings(f.about)}

Wanted == {"waiting", "running"}
Pooled == held \cup Pool!Requests(waiting)

Up(c, k, kind, x) == Frame(kind, x) \in Range(up[c][k])
Down(c, k, kind, x) == Frame(kind, x) \in Range(down[c][k])

Unmet(c, k) == Up(c, k, "hello", c)

UpTypes == DOMAIN up = Cast /\ \A c \in Cast : up[c] \in [Conn -> Seq(UpFrames(c))]
DownTypes == DOMAIN down = Cast /\ \A c \in Cast : down[c] \in [Conn -> Seq(DownFrames(c))]

Types ==
    /\ at \in [Id -> {"idle", "waiting", "running", "over", "queued", "refused", "gone"}]
    /\ claimed \subseteq {p \in Prompt : at[p] = "waiting"}
    /\ conn \in [Cast -> Nat] /\ connecting \in [Cast -> Nat]
    /\ opened \in [Cast -> Nat] /\ peer \in [Cast -> Nat]
    /\ over \subseteq Cast
    /\ handling \in [Cast -> SUBSET Conn]
    /\ status \in [Cast -> {"none", "running", "disconnected", "ended"}]
    /\ known \subseteq Prompt \cup Await /\ claims \subseteq known \cap Prompt
    /\ tasks \subseteq Enqueue
    /\ queued \in [Enqueue -> Nat]
    /\ held \subseteq Slot /\ Pool!Requests(waiting) \subseteq Slot
    /\ UpTypes /\ DownTypes

(* The connections of a cast: the newest is the one it has, or is making;  *)
(* nothing is told on one before its hello is read.                        *)
Connections(c) ==
    /\ opened[c] <= Conns[c]
    /\ conn[c] \in {None, opened[c]} /\ connecting[c] \in {None, opened[c]}
    /\ conn[c] = None \/ connecting[c] = None
    /\ peer[c] \in handling[c] \cup {None}
    /\ \A k \in handling[c] : k <= opened[c]
    /\ c \in over => conn[c] = None /\ \A x \in Mine(c, Id) : at[x] \notin Wanted
    /\ \A k \in Conn :
        /\ k > opened[c] \/ k = connecting[c] => up[c][k] = <<>>
        /\ k > opened[c] \/ k = connecting[c] \/ Unmet(c, k) => down[c][k] = <<>> /\ peer[c] # k
        /\ \A i \in DOMAIN up[c][k] : up[c][k][i].kind = "hello" => i = 1
        /\ Up(c, k, "goodbye", c) => c \in over

(* What is said of a thing is said of one begun, and its end when over.    *)
Begun(c) ==
    /\ \A k \in Conn, x \in Mine(c, Id) :
        /\ \A kind \in {Opener(x)} \cup Endings(x) : Up(c, k, kind, x) => at[x] # "idle"
        /\ \A kind \in Endings(x) : Up(c, k, kind, x) => at[x] \notin Wanted
        /\ \A kind \in Tellings(x) : Down(c, k, kind, x) => at[x] # "idle"
    /\ \A x \in Mine(c, known \cup Pooled \cup tasks) : at[x] # "idle"

Base == Types /\ \A c \in Cast : Connections(c) /\ Begun(c)

-----------------------------------------------------------------------------

(* An enqueue is in one place: unread, in hand, or told.                   *)
Unread(e) == \E k \in Conn : Up(Of[e], k, "enqueue", e)
ToldOf(e, kind) == \E k \in Conn : Down(Of[e], k, kind, e)

Sole(e) ==
    \A k, l \in Conn : \A i \in DOMAIN up[Of[e]][k], j \in DOMAIN up[Of[e]][l] :
        up[Of[e]][k][i] = Frame("enqueue", e) /\ up[Of[e]][l][j] = Frame("enqueue", e)
            => k = l /\ i = j

Once(e) ==
    /\ queued[e] \in {0, 1}
    /\ Unread(e) => e \notin tasks
    /\ Unread(e) \/ e \in tasks =>
        /\ queued[e] = 0 /\ at[e] \notin {"idle", "queued", "refused"}
        /\ ~ToldOf(e, "accepted") /\ ~ToldOf(e, "refused")
    /\ at[e] = "idle" => queued[e] = 0
    /\ ToldOf(e, "accepted") \/ at[e] = "queued" => queued[e] = 1
    /\ ToldOf(e, "refused") \/ at[e] = "refused" => queued[e] = 0

EnqueuedOnce(e) == Sole(e) /\ Once(e)

-----------------------------------------------------------------------------

(* A claim told of is one the daemon holds, or is told to be let go after. *)
ClaimsTrue(c, k, x) ==
    x \notin claims =>
        \A i \in DOMAIN down[c][k] : down[c][k][i] = Frame("claimed", x) =>
            \E j \in DOMAIN down[c][k] : j > i /\ down[c][k][j] = Frame("unclaimed", x)

(* A thing waited on is held by the daemon, or one end is about to hear.   *)
Reachable(c, k, x) ==
    CASE x \in Prompt ->
            /\ x \in known \/ Up(c, k, "asked", x)
            /\ x \in claimed => x \in claims \/ Down(c, k, "unclaimed", x)
            /\ ClaimsTrue(c, k, x)
      [] x \in Slot ->
            /\ Up(c, k, "slot", x) \/ x \in Pooled
            /\ x \in held => Down(c, k, "granted", x)
      [] x \in Enqueue ->
            \/ Up(c, k, "enqueue", x) \/ x \in tasks
            \/ Down(c, k, "accepted", x) \/ Down(c, k, "refused", x)
      [] OTHER -> x \in known \/ Up(c, k, "awaits", x) \/ Down(c, k, "childEnded", x)

Waits(c) == {x \in Mine(c, Id) : at[x] = "waiting"}

Said(c, k, x) == \E kind \in {Opener(x)} : Up(c, k, kind, x)
EndSaid(c, k, x) == \E kind \in Endings(x) : Up(c, k, kind, x)

(* A connection met is the one the cast is told things on, and no older    *)
(* one has anything to say.                                                *)
Heeds(c, k) ==
    /\ k = None => \A x \in Waits(c) : x \in Prompt \cup Await /\ x \notin claimed
    /\ \A x \in Waits(c), j \in Conn : Up(c, j, "slot", x) => j = k
    /\ k \in handling[c] =>
        IF Unmet(c, k)
        THEN \A x \in Waits(c) : Said(c, k, x) /\ x \notin claimed \cup Pooled
        ELSE /\ peer[c] = k
             /\ \A j \in handling[c] : j # k => up[c][j] = <<>>
             /\ status[c] = "running" => \A x \in Waits(c) : Reachable(c, k, x)

Heeded(c) == \A k \in Nat : k = conn[c] => Heeds(c, k)

-----------------------------------------------------------------------------

Met(c, k) == ~Unmet(c, k) /\ k # connecting[c]

(* What the daemon holds came by a connection met and not seen to end: one *)
(* the cast has left, or one that says it has ended, if it has.            *)
Owed(c, k, x) ==
    \E j \in handling[c] :
        Met(c, j) /\ (at[x] \in Wanted \/ j # k \/ EndSaid(c, j, x))

(* What is said open is open, or is said ended after.                      *)
Closing(c, k, x) ==
    \A i \in DOMAIN up[c][k] : up[c][k][i] = Frame(Opener(x), x) =>
        \/ at[x] \in Wanted
        \/ \E j \in DOMAIN up[c][k] : j > i /\ up[c][k][j].about = x
                                      /\ up[c][k][j].kind \in Endings(x)

(* An await is said once, and not again once told to have ended.           *)
AwaitsOnce(c, k, x) ==
    \A i, j \in DOMAIN up[c][k] :
        up[c][k][i] = Frame("awaits", x) /\ up[c][k][j] = Frame("awaits", x) => i = j

EndedOnce(c, k, x) ==
    /\ Down(c, k, "childEnded", x) => x \notin known
    /\ (x \in known /\ ~Unmet(c, k)) \/ Down(c, k, "childEnded", x) => ~Up(c, k, "awaits", x)

Accounts(c, k) ==
    /\ \A x \in Mine(c, known \cup Pooled) : Owed(c, k, x)
    /\ k \in handling[c] =>
        /\ \A x \in Mine(c, Id \ Enqueue) : Closing(c, k, x)
        /\ \A x \in Mine(c, Await) : AwaitsOnce(c, k, x) /\ EndedOnce(c, k, x)

Accounted(c) == \A k \in Nat : k = conn[c] => Accounts(c, k)

-----------------------------------------------------------------------------
(* Frames written, read and lost.                                          *)

LEMMA InSeq ==
    ASSUME NEW S, NEW s \in Seq(S)
    PROVE  /\ Len(s) \in Nat /\ DOMAIN s = 1..Len(s)
           /\ \A i \in DOMAIN s : s[i] \in S
           /\ \A f : f \in Range(s) <=> \E i \in DOMAIN s : s[i] = f
           /\ s = <<>> <=> DOMAIN s = {}
           /\ s = <<>> <=> Range(s) = {}
<1>1. Len(s) \in Nat /\ DOMAIN s = 1..Len(s) /\ \A i \in 1..Len(s) : s[i] \in S
  BY LenProperties, ElementOfSeq
<1>2. \A f : f \in Range(s) <=> \E i \in DOMAIN s : s[i] = f
  BY DEF Range
<1>3. s = <<>> <=> DOMAIN s = {}
  <2>1. s # <<>> => 1 \in DOMAIN s
    BY <1>1, EmptySeq
  <2>2. s = <<>> => DOMAIN s = {}
    OBVIOUS
  <2> QED BY <2>1, <2>2
<1> QED BY <1>1, <1>2, <1>3

LEMMA Appended ==
    ASSUME NEW S, NEW s \in Seq(S), NEW f \in S
    PROVE  LET t == Append(s, f) IN
           /\ t \in Seq(S) /\ DOMAIN s \subseteq DOMAIN t
           /\ Len(s) + 1 \in DOMAIN t /\ t[Len(s) + 1] = f
           /\ \A i \in DOMAIN s : t[i] = s[i] /\ i < Len(s) + 1
           /\ \A i \in DOMAIN t : i \in DOMAIN s \/ i = Len(s) + 1
           /\ Range(t) = Range(s) \cup {f}
<1> DEFINE t == Append(s, f)
<1>1. /\ t \in Seq(S) /\ Len(t) = Len(s) + 1 /\ Len(s) \in Nat
      /\ DOMAIN s = 1..Len(s) /\ DOMAIN t = 1..Len(t)
      /\ \A i \in 1..Len(s) : t[i] = s[i]
      /\ t[Len(s) + 1] = f
  BY AppendProperties, LenProperties
<1> HIDE DEF t
<1>2. /\ DOMAIN s \subseteq DOMAIN t /\ Len(s) + 1 \in DOMAIN t
      /\ \A i \in DOMAIN t : i \in DOMAIN s \/ i = Len(s) + 1
      /\ \A i \in DOMAIN s : i < Len(s) + 1
  BY <1>1
<1>3. Range(t) = Range(s) \cup {f}
  BY <1>1, <1>2 DEF Range
<1> QED BY <1>1, <1>2, <1>3 DEF t

LEMMA Tailed ==
    ASSUME NEW S, NEW s \in Seq(S), s # <<>>
    PROVE  LET t == Tail(s) IN
           /\ t \in Seq(S) /\ Head(s) \in S
           /\ 1 \in DOMAIN s /\ s[1] = Head(s)
           /\ \A i \in DOMAIN t : i + 1 \in DOMAIN s /\ t[i] = s[i + 1] /\ i \in Nat \ {0}
           /\ \A i \in DOMAIN s : i = 1 \/ (i - 1 \in DOMAIN t /\ t[i - 1] = s[i] /\ i > 1 /\ i \in Nat)
           /\ Range(s) = {Head(s)} \cup Range(t)
<1> DEFINE t == Tail(s)
<1>1. /\ t \in Seq(S) /\ Head(s) \in S /\ Head(s) = s[1]
      /\ Len(s) \in Nat \ {0} /\ Len(t) = Len(s) - 1
      /\ DOMAIN s = 1..Len(s) /\ DOMAIN t = 1..Len(t)
      /\ \A i \in 1..Len(t) : t[i] = s[i + 1]
  BY HeadTailProperties, LenProperties, EmptySeq
<1> HIDE DEF t
<1>2. 1 \in DOMAIN s
  BY <1>1
<1>3. \A i \in DOMAIN t : i + 1 \in DOMAIN s /\ t[i] = s[i + 1] /\ i \in Nat \ {0}
  BY <1>1
<1>4. ASSUME NEW i \in DOMAIN s, i # 1
      PROVE  i - 1 \in DOMAIN t /\ t[i - 1] = s[i] /\ i > 1 /\ i \in Nat
  <2>1. i \in Nat /\ i > 1 /\ i - 1 \in 1..Len(t) /\ (i - 1) + 1 = i
    BY <1>1, <1>4
  <2> QED BY <1>1, <2>1
<1>5. Range(s) = {Head(s)} \cup Range(t)
  <2>1. \A f \in Range(s) : f = Head(s) \/ f \in Range(t)
    BY <1>1, <1>4 DEF Range
  <2>2. \A f \in Range(t) : f \in Range(s)
    BY <1>3 DEF Range
  <2> QED BY <1>1, <1>2, <2>1, <2>2 DEF Range
<1> QED BY <1>1, <1>2, <1>3, <1>4, <1>5 DEF t

LEMMA Joined ==
    ASSUME NEW S, NEW s \in Seq(S), NEW r \in Seq(S)
    PROVE  LET t == s \o r IN
           /\ t \in Seq(S) /\ DOMAIN s \subseteq DOMAIN t
           /\ \A i \in DOMAIN s : t[i] = s[i]
           /\ \A i \in DOMAIN t : \/ i \in DOMAIN s
                                  \/ /\ i - Len(s) \in DOMAIN r /\ t[i] = r[i - Len(s)]
                                     /\ \A j \in DOMAIN s : j < i
           /\ Range(t) = Range(s) \cup Range(r)
<1> DEFINE t == s \o r
<1>1. /\ t \in Seq(S) /\ Len(t) = Len(s) + Len(r) /\ Len(s) \in Nat /\ Len(r) \in Nat
      /\ DOMAIN s = 1..Len(s) /\ DOMAIN r = 1..Len(r) /\ DOMAIN t = 1..Len(t)
      /\ \A i \in 1..Len(s) + Len(r) : t[i] = IF i <= Len(s) THEN s[i] ELSE r[i - Len(s)]
  BY ConcatProperties, LenProperties
<1> HIDE DEF t
<1>2. DOMAIN s \subseteq DOMAIN t /\ \A i \in DOMAIN s : t[i] = s[i]
  BY <1>1
<1>3. ASSUME NEW i \in DOMAIN t, i \notin DOMAIN s
      PROVE  i - Len(s) \in DOMAIN r /\ t[i] = r[i - Len(s)] /\ \A j \in DOMAIN s : j < i
  BY <1>1, <1>3
<1>4. ASSUME NEW i \in DOMAIN r
      PROVE  i + Len(s) \in DOMAIN t /\ t[i + Len(s)] = r[i]
  <2>1. i + Len(s) \in 1..Len(s) + Len(r) /\ ~(i + Len(s) <= Len(s)) /\ (i + Len(s)) - Len(s) = i
    BY <1>1, <1>4
  <2> QED BY <1>1, <2>1
<1>5. Range(t) = Range(s) \cup Range(r)
  <2>1. \A f \in Range(t) : f \in Range(s) \/ f \in Range(r)
    BY <1>2, <1>3 DEF Range
  <2>2. \A f \in Range(s) : f \in Range(t)
    BY <1>2 DEF Range
  <2>3. \A f \in Range(r) : f \in Range(t)
    BY <1>4 DEF Range
  <2> QED BY <2>1, <2>2, <2>3
<1> QED BY <1>1, <1>2, <1>3, <1>5 DEF t

LEMMA Listed ==
    ASSUME NEW S, IsFiniteSet(S)
    PROVE  /\ SetToSeq(S) \in Seq(S) /\ Range(SetToSeq(S)) = S
           /\ \A i, j \in DOMAIN SetToSeq(S) : SetToSeq(S)[i] = SetToSeq(S)[j] => i = j
<1> DEFINE n == Cardinality(S)
           f == SetToSeq(S)
<1>1. n \in Nat /\ ExistsBijection(1..n, S)
  BY FS_CardinalityType
<1>2. \E g \in [1..n -> S] : IsInjective(g)
  BY <1>1 DEF ExistsBijection, Bijection, Injection
<1>3. f \in [1..n -> S] /\ IsInjective(f)
  BY <1>2 DEF SetToSeq
<1>4. Cardinality(1..n) = n
  BY <1>1, FS_Interval
<1> HIDE DEF f, n
<1>5. f \in Seq(S)
  BY <1>1, <1>3, SeqDef
<1>6. f \in Injection(1..n, S)
  BY <1>3 DEF Injection
<1>7. f \in Surjection(1..n, S)
  BY <1>4, <1>6, FS_Injection DEF n
<1>8. Range(f) = S
  BY <1>3, <1>7 DEF Surjection, Range
<1> QED BY <1>3, <1>5, <1>8 DEF IsInjective, f

LEMMA KindsOf ==
    ASSUME LinkAssumption, NEW x \in Id
    PROVE  /\ x \in Prompt => /\ x \notin Slot \cup Enqueue \cup Await /\ Opener(x) = "asked"
                              /\ Endings(x) = {"resolved", "withdrawn"}
                              /\ Tellings(x) = {"answer", "claimed", "unclaimed"}
           /\ x \in Slot => /\ x \notin Prompt \cup Enqueue \cup Await /\ Opener(x) = "slot"
                            /\ Endings(x) = {"released"} /\ Tellings(x) = {"granted"}
           /\ x \in Enqueue => /\ x \notin Prompt \cup Slot \cup Await /\ Opener(x) = "enqueue"
                               /\ Endings(x) = {} /\ Tellings(x) = {"accepted", "refused"}
           /\ x \in Await => /\ x \notin Prompt \cup Slot \cup Enqueue /\ Opener(x) = "awaits"
                             /\ Endings(x) = {"awaitWithdrawn"} /\ Tellings(x) = {"childEnded"}
           /\ x \in Prompt \/ x \in Slot \/ x \in Enqueue \/ x \in Await
           /\ Of[x] \in Cast
  BY DEF LinkAssumption, Opener, Endings, Tellings, Id

LEMMA OpenerKinds ==
    ASSUME LinkAssumption, NEW x \in Id
    PROVE  /\ Opener(x) \in UpKinds \ {"hello", "goodbye"} /\ Opener(x) \notin Endings(x)
           /\ Endings(x) \subseteq UpKinds \ {"hello", "goodbye", "asked", "slot", "enqueue", "awaits"}
           /\ Tellings(x) \subseteq DownKinds
<1>1. CASE x \in Prompt
  BY <1>1, KindsOf DEF UpKinds, DownKinds
<1>2. CASE x \in Slot
  BY <1>2, KindsOf DEF UpKinds, DownKinds
<1>3. CASE x \in Enqueue
  BY <1>3, KindsOf DEF UpKinds, DownKinds
<1>4. CASE x \in Await
  BY <1>4, KindsOf DEF UpKinds, DownKinds
<1> QED BY <1>1, <1>2, <1>3, <1>4, KindsOf

LEMMA Framed ==
    ASSUME NEW kind, NEW x
    PROVE  /\ Frame(kind, x).kind = kind /\ Frame(kind, x).about = x
           /\ \A l, y : Frame(kind, x) = Frame(l, y) <=> kind = l /\ x = y
  BY DEF Frame

LEMMA UpFramed ==
    ASSUME LinkAssumption, NEW c \in Cast, NEW x \in Mine(c, Id)
    PROVE  /\ \A kind \in {Opener(x)} \cup Endings(x) : Frame(kind, x) \in UpFrames(c)
           /\ Frame("hello", c) \in UpFrames(c) /\ Frame("goodbye", c) \in UpFrames(c)
  BY OpenerKinds DEF UpFrames, UpKinds, Frame, Mine

LEMMA GreetingFramed ==
    ASSUME LinkAssumption, NEW c \in Cast
    PROVE  Frame("hello", c) \in UpFrames(c) /\ Frame("goodbye", c) \in UpFrames(c)
  BY DEF UpFrames, UpKinds, Frame, Mine

LEMMA DownFramed ==
    ASSUME LinkAssumption, NEW c \in Cast, NEW x \in Mine(c, Id), NEW kind \in Tellings(x)
    PROVE  Frame(kind, x) \in DownFrames(c)
  BY OpenerKinds DEF DownFrames, Frame, Mine

(* A frame is what it is about and a kind said of that.                    *)
LEMMA UpFrameIs ==
    ASSUME LinkAssumption, NEW c \in Cast, NEW f \in UpFrames(c)
    PROVE  /\ f = Frame(f.kind, f.about)
           /\ \/ f.kind \in {"hello", "goodbye"} /\ f.about = c
              \/ /\ f.about \in Id /\ Of[f.about] = c /\ f.kind \notin {"hello", "goodbye"}
                 /\ f.kind = Opener(f.about) \/ f.kind \in Endings(f.about)
<1>1. f = Frame(f.kind, f.about)
  BY DEF UpFrames, Frame
<1>2. \/ f.kind \in {"hello", "goodbye"} /\ f.about = c
      \/ f.about \in Mine(c, Id) /\ (f.kind = Opener(f.about) \/ f.kind \in Endings(f.about))
  BY DEF UpFrames
<1> QED BY <1>1, <1>2, OpenerKinds DEF Mine

LEMMA DownFrameIs ==
    ASSUME LinkAssumption, NEW c \in Cast, NEW f \in DownFrames(c)
    PROVE  /\ f = Frame(f.kind, f.about)
           /\ f.about \in Id /\ Of[f.about] = c /\ f.kind \in Tellings(f.about)
  BY DEF DownFrames, Frame, Mine

LEMMA SameFrames == \A c : UpFrames(c)' = UpFrames(c) /\ DownFrames(c)' = DownFrames(c)
  BY DEF UpFrames, DownFrames, Mine, Id, Opener, Endings, Tellings

-----------------------------------------------------------------------------
(* What each way of writing and reading changes.                           *)

LEMMA Sent ==
    ASSUME LinkAssumption, Types, NEW c \in Cast, NEW f \in UpFrames(c), Send(c, f),
           conn[c] \in Conn \cup {None}
    PROVE  /\ UpTypes'
           /\ \A d \in Cast, k \in Conn :
                up'[d][k] = IF d = c /\ k = conn[c] THEN Append(up[d][k], f) ELSE up[d][k]
           /\ \A d \in Cast, k \in Conn : \A kind, x :
                Up(d, k, kind, x)' <=> \/ Up(d, k, kind, x)
                                       \/ d = c /\ k = conn[c] /\ f = Frame(kind, x)
<1>1. None \notin Conn
  BY DEF None, Conn
<1>2. \A d \in Cast, k \in Conn :
        up'[d][k] = IF d = c /\ k = conn[c] THEN Append(up[d][k], f) ELSE up[d][k]
  BY <1>1 DEF Send, Types, UpTypes
<1>3. DOMAIN up' = Cast /\ \A d \in Cast : DOMAIN up'[d] = Conn /\ up'[d] = [k \in Conn |-> up'[d][k]]
  BY DEF Send, Types, UpTypes
<1>4. ASSUME NEW d \in Cast, NEW k \in Conn
      PROVE  /\ up'[d][k] \in Seq(UpFrames(d))
             /\ Range(up'[d][k]) = IF d = c /\ k = conn[c] THEN Range(up[d][k]) \cup {f}
                                   ELSE Range(up[d][k])
  <2>1. up[d][k] \in Seq(UpFrames(d))
    BY DEF Types, UpTypes
  <2>2. CASE d = c /\ k = conn[c]
    <3>1. up[c][k] \in Seq(UpFrames(c))
      BY <2>1, <2>2
    <3>2. /\ Append(up[c][k], f) \in Seq(UpFrames(c))
          /\ Range(Append(up[c][k], f)) = Range(up[c][k]) \cup {f}
      BY <3>1, Appended
    <3> QED BY <1>2, <2>2, <3>2
  <2>3. CASE ~(d = c /\ k = conn[c])
    BY <1>2, <2>1, <2>3
  <2> QED BY <2>2, <2>3
<1>5. UpTypes'
  BY <1>3, <1>4, SameFrames DEF UpTypes
<1>6. ASSUME NEW d \in Cast, NEW k \in Conn, NEW kind, NEW x
      PROVE  Up(d, k, kind, x)' <=> \/ Up(d, k, kind, x)
                                    \/ d = c /\ k = conn[c] /\ f = Frame(kind, x)
  <2>1. Up(d, k, kind, x)' <=> Frame(kind, x) \in Range(up'[d][k])
    BY DEF Up, Frame
  <2> QED BY <1>4, <2>1 DEF Up
<1> QED BY <1>2, <1>5, <1>6

(* A frame read, up or down.                                               *)
LEMMA HeardUp ==
    ASSUME LinkAssumption, Types, NEW c \in Cast, NEW k \in Conn, Heard(c, k), up[c][k] # <<>>
    PROVE  /\ UpTypes' /\ Head(up[c][k]) \in UpFrames(c)
           /\ \A d \in Cast, j \in Conn :
                up'[d][j] = IF d = c /\ j = k THEN Tail(up[d][j]) ELSE up[d][j]
           /\ \A d \in Cast, j \in Conn : \A kind, x :
                Up(d, j, kind, x) <=> \/ Up(d, j, kind, x)'
                                      \/ d = c /\ j = k /\ Head(up[c][k]) = Frame(kind, x)
<1> DEFINE f == Head(up[c][k])
<1>1. \A d \in Cast, j \in Conn :
        up'[d][j] = IF d = c /\ j = k THEN Tail(up[d][j]) ELSE up[d][j]
  BY DEF Heard, Types, UpTypes
<1>2. DOMAIN up' = Cast /\ \A d \in Cast : DOMAIN up'[d] = Conn /\ up'[d] = [j \in Conn |-> up'[d][j]]
  BY DEF Heard, Types, UpTypes
<1>3. ASSUME NEW d \in Cast, NEW j \in Conn
      PROVE  /\ up'[d][j] \in Seq(UpFrames(d))
             /\ Range(up[d][j]) = IF d = c /\ j = k THEN Range(up'[d][j]) \cup {f}
                                  ELSE Range(up'[d][j])
  <2>1. up[d][j] \in Seq(UpFrames(d))
    BY DEF Types, UpTypes
  <2>2. CASE d = c /\ j = k
    <3>1. up[c][k] \in Seq(UpFrames(c))
      BY <2>1, <2>2
    <3>2. /\ Tail(up[c][k]) \in Seq(UpFrames(c))
          /\ Range(up[c][k]) = {f} \cup Range(Tail(up[c][k]))
      BY <3>1, Tailed
    <3> QED BY <1>1, <2>2, <3>2
  <2>3. CASE ~(d = c /\ j = k)
    BY <1>1, <2>1, <2>3
  <2> QED BY <2>2, <2>3
<1>4. UpTypes'
  BY <1>2, <1>3, SameFrames DEF UpTypes
<1>5. f \in UpFrames(c)
  <2>1. up[c][k] \in Seq(UpFrames(c))
    BY DEF Types, UpTypes
  <2> QED BY <2>1, Tailed
<1> HIDE DEF f
<1>6. ASSUME NEW d \in Cast, NEW j \in Conn, NEW kind, NEW x
      PROVE  Up(d, j, kind, x) <=> \/ Up(d, j, kind, x)'
                                   \/ d = c /\ j = k /\ f = Frame(kind, x)
  <2>1. Up(d, j, kind, x)' <=> Frame(kind, x) \in Range(up'[d][j])
    BY DEF Up, Frame
  <2> QED BY <1>3, <2>1 DEF Up
<1> QED BY <1>1, <1>4, <1>5, <1>6 DEF f

LEMMA HeardDown ==
    ASSUME LinkAssumption, Types, NEW c \in Cast, conn[c] \in Conn, Hear(c),
           down[c][conn[c]] # <<>>
    PROVE  /\ DownTypes' /\ Head(down[c][conn[c]]) \in DownFrames(c)
           /\ \A d \in Cast, j \in Conn :
                down'[d][j] = IF d = c /\ j = conn[c] THEN Tail(down[d][j]) ELSE down[d][j]
           /\ \A d \in Cast, j \in Conn : \A kind, x :
                Down(d, j, kind, x) <=>
                    \/ Down(d, j, kind, x)'
                    \/ d = c /\ j = conn[c] /\ Head(down[c][conn[c]]) = Frame(kind, x)
<1> DEFINE k == conn[c]
           f == Head(down[c][k])
<1>1. \A d \in Cast, j \in Conn :
        down'[d][j] = IF d = c /\ j = k THEN Tail(down[d][j]) ELSE down[d][j]
  BY DEF Hear, Types, DownTypes
<1>2. /\ DOMAIN down' = Cast
      /\ \A d \in Cast : DOMAIN down'[d] = Conn /\ down'[d] = [j \in Conn |-> down'[d][j]]
  BY DEF Hear, Types, DownTypes
<1>3. ASSUME NEW d \in Cast, NEW j \in Conn
      PROVE  /\ down'[d][j] \in Seq(DownFrames(d))
             /\ Range(down[d][j]) = IF d = c /\ j = k THEN Range(down'[d][j]) \cup {f}
                                    ELSE Range(down'[d][j])
  <2>1. down[d][j] \in Seq(DownFrames(d))
    BY DEF Types, DownTypes
  <2>2. CASE d = c /\ j = k
    <3>1. down[c][k] \in Seq(DownFrames(c))
      BY <2>1, <2>2
    <3>2. /\ Tail(down[c][k]) \in Seq(DownFrames(c))
          /\ Range(down[c][k]) = {f} \cup Range(Tail(down[c][k]))
      BY <3>1, Tailed
    <3> QED BY <1>1, <2>2, <3>2
  <2>3. CASE ~(d = c /\ j = k)
    BY <1>1, <2>1, <2>3
  <2> QED BY <2>2, <2>3
<1>4. DownTypes'
  BY <1>2, <1>3, SameFrames DEF DownTypes
<1>5. f \in DownFrames(c)
  <2>1. down[c][k] \in Seq(DownFrames(c))
    BY DEF Types, DownTypes
  <2> QED BY <2>1, Tailed
<1> HIDE DEF f
<1>6. ASSUME NEW d \in Cast, NEW j \in Conn, NEW kind, NEW x
      PROVE  Down(d, j, kind, x) <=> \/ Down(d, j, kind, x)'
                                     \/ d = c /\ j = k /\ f = Frame(kind, x)
  <2>1. Down(d, j, kind, x)' <=> Frame(kind, x) \in Range(down'[d][j])
    BY DEF Down, Frame
  <2> QED BY <1>3, <2>1 DEF Down
<1> QED BY <1>1, <1>4, <1>5, <1>6 DEF f

(* A frame told on the peer, to a cast that is not closed.                 *)
LEMMA Told ==
    ASSUME LinkAssumption, Types, NEW c \in Cast, NEW f \in DownFrames(c),
           Tell(c, peer[c], f), peer[c] \in Conn \cup {None}
    PROVE  /\ DownTypes'
           /\ \A d \in Cast, j \in Conn :
                down'[d][j] = IF d = c /\ j = peer[c] /\ c \notin over
                              THEN Append(down[d][j], f) ELSE down[d][j]
           /\ \A d \in Cast, j \in Conn : \A kind, x :
                Down(d, j, kind, x)' <=>
                    \/ Down(d, j, kind, x)
                    \/ d = c /\ j = peer[c] /\ c \notin over /\ f = Frame(kind, x)
<1>1. None \notin Conn
  BY DEF None, Conn
<1>2. \A d \in Cast, j \in Conn :
        down'[d][j] = IF d = c /\ j = peer[c] /\ c \notin over
                      THEN Append(down[d][j], f) ELSE down[d][j]
  BY <1>1 DEF Tell, Types, DownTypes
<1>3. /\ DOMAIN down' = Cast
      /\ \A d \in Cast : DOMAIN down'[d] = Conn /\ down'[d] = [j \in Conn |-> down'[d][j]]
  BY DEF Tell, Types, DownTypes
<1>4. ASSUME NEW d \in Cast, NEW j \in Conn
      PROVE  /\ down'[d][j] \in Seq(DownFrames(d))
             /\ Range(down'[d][j]) = IF d = c /\ j = peer[c] /\ c \notin over
                                     THEN Range(down[d][j]) \cup {f} ELSE Range(down[d][j])
  <2>1. down[d][j] \in Seq(DownFrames(d))
    BY DEF Types, DownTypes
  <2>2. CASE d = c /\ j = peer[c] /\ c \notin over
    <3>1. down[c][j] \in Seq(DownFrames(c))
      BY <2>1, <2>2
    <3>2. /\ Append(down[c][j], f) \in Seq(DownFrames(c))
          /\ Range(Append(down[c][j], f)) = Range(down[c][j]) \cup {f}
      BY <3>1, Appended
    <3> QED BY <1>2, <2>2, <3>2
  <2>3. CASE ~(d = c /\ j = peer[c] /\ c \notin over)
    BY <1>2, <2>1, <2>3
  <2> QED BY <2>2, <2>3
<1>5. DownTypes'
  BY <1>3, <1>4, SameFrames DEF DownTypes
<1>6. ASSUME NEW d \in Cast, NEW j \in Conn, NEW kind, NEW x
      PROVE  Down(d, j, kind, x)' <=>
                \/ Down(d, j, kind, x)
                \/ d = c /\ j = peer[c] /\ c \notin over /\ f = Frame(kind, x)
  <2>1. Down(d, j, kind, x)' <=> Frame(kind, x) \in Range(down'[d][j])
    BY DEF Down, Frame
  <2> QED BY <1>4, <2>1 DEF Down
<1> QED BY <1>2, <1>5, <1>6

Grants(c) == {Frame("granted", s) : s \in Mine(c, held' \ held)}
ToldGrants(c, k) == \E g \in Seq(Grants(c)) : down'[c][k] = down[c][k] \o g

(* What a step of the pool hands out is told on the peers.                 *)
LEMMA GrantsTold ==
    ASSUME LinkAssumption, Types, TellGrants, held' \subseteq Slot
    PROVE  /\ DownTypes'
           /\ \A d \in Cast, j \in Conn :
                \/ down'[d][j] = down[d][j]
                \/ /\ j = peer[d] /\ d \notin over
                   /\ ToldGrants(d, j)
           /\ \A d \in Cast, j \in Conn : \A kind, x :
                Down(d, j, kind, x)' <=>
                    \/ Down(d, j, kind, x)
                    \/ j = peer[d] /\ d \notin over /\ kind = "granted" /\ x \in Mine(d, held' \ held)
<1> DEFINE g(d) == SetToSeq(Grants(d))
<1>1. ASSUME NEW d \in Cast
      PROVE  /\ g(d) \in Seq(Grants(d)) /\ Range(g(d)) = Grants(d) /\ Grants(d) \subseteq DownFrames(d)
  <2>1. IsFiniteSet(Mine(d, held' \ held)) /\ Mine(d, held' \ held) \subseteq Mine(d, Slot)
    BY FS_Subset DEF LinkAssumption, Mine, Id
  <2>2. IsFiniteSet(Grants(d))
    <3> DEFINE h == [s \in Mine(d, held' \ held) |-> Frame("granted", s)]
    <3>1. h \in Surjection(Mine(d, held' \ held), Grants(d))
      BY DEF Surjection, Grants
    <3> HIDE DEF h
    <3> QED BY <2>1, <3>1, FS_Surjection
  <2>3. Grants(d) \subseteq DownFrames(d)
    BY <2>1, KindsOf, DownFramed DEF Mine, Id, Grants
  <2> QED BY <2>2, <2>3, Listed
<1>2. /\ DOMAIN down' = Cast
      /\ \A d \in Cast : DOMAIN down'[d] = Conn /\ down'[d] = [j \in Conn |-> down'[d][j]]
      /\ \A d \in Cast, j \in Conn :
            down'[d][j] = IF j # peer[d] \/ d \in over THEN down[d][j] ELSE down[d][j] \o g(d)
  BY DEF TellGrants, Grants
<1> HIDE DEF g
<1>3. ASSUME NEW d \in Cast, NEW j \in Conn
      PROVE  /\ down'[d][j] \in Seq(DownFrames(d))
             /\ Range(down'[d][j]) = IF j # peer[d] \/ d \in over THEN Range(down[d][j])
                                     ELSE Range(down[d][j]) \cup Grants(d)
  <2>1. down[d][j] \in Seq(DownFrames(d))
    BY DEF Types, DownTypes
  <2>2. g(d) \in Seq(DownFrames(d))
    BY <1>1, InSeq, SeqDef
  <2>3. /\ down[d][j] \o g(d) \in Seq(DownFrames(d))
        /\ Range(down[d][j] \o g(d)) = Range(down[d][j]) \cup Range(g(d))
    BY <2>1, <2>2, Joined
  <2> QED BY <1>1, <1>2, <2>1, <2>3
<1>4. DownTypes'
  BY <1>2, <1>3, SameFrames DEF DownTypes
<1>5. ASSUME NEW d \in Cast, NEW j \in Conn, NEW kind, NEW x
      PROVE  Down(d, j, kind, x)' <=>
                \/ Down(d, j, kind, x)
                \/ j = peer[d] /\ d \notin over /\ kind = "granted" /\ x \in Mine(d, held' \ held)
  <2>1. Down(d, j, kind, x)' <=> Frame(kind, x) \in Range(down'[d][j])
    BY DEF Down, Frame
  <2>2. Frame(kind, x) \in Grants(d) <=> kind = "granted" /\ x \in Mine(d, held' \ held)
    BY DEF Frame, Grants
  <2> QED BY <1>3, <2>1, <2>2 DEF Down
<1> QED BY <1>1, <1>2, <1>4, <1>5 DEF ToldGrants

(* What each step of the pool moves: nothing waits or is held that did not *)
(* before, and nothing is let go of but what ends.                         *)
LEMMA Granting ==
    ASSUME Types, NEW slots, NEW entries, Pool!Grant(slots, entries)
    PROVE  /\ slots \subseteq held' /\ held' \cup Pool!Requests(waiting')
                                        = slots \cup Pool!Requests(entries)
           /\ Pool!Requests(waiting') \subseteq Pool!Requests(entries)
  BY DEF Pool!Grant, Pool!Granted, Pool!Requests

LEMMA PoolMoves ==
    ASSUME LinkAssumption, Types
    PROVE  /\ \A s \in Slot : Pool!Requested(s) =>
                /\ held \subseteq held' /\ Pooled' = Pooled \cup {s}
           /\ \A s \in Slot : Pool!Released(s) =>
                /\ held \ {s} \subseteq held' /\ Pooled' = Pooled \ {s}
           /\ \A c \in Cast : Pool!Ended(c) =>
                /\ held \ Mine(c, Slot) \subseteq held' /\ Pooled' = Pooled \ Mine(c, Slot)
<1>1. held \subseteq Slot /\ Pool!Requests(waiting) \subseteq Slot
  BY DEF Types
<1>2. Pooled' = held' \cup Pool!Requests(waiting')
  BY DEF Pooled, Pool!Requests
<1>3. ASSUME NEW s \in Slot, Pool!Requested(s)
      PROVE  held \subseteq held' /\ Pooled' = Pooled \cup {s}
  <2> DEFINE entries == waiting \cup {[request |-> s, arrival |-> asks]}
  <2>1. Pool!Grant(held, entries)
    BY <1>3 DEF Pool!Requested
  <2>2. Pool!Requests(entries) = Pool!Requests(waiting) \cup {s}
    <3>1. [request |-> s, arrival |-> asks].request = s
      OBVIOUS
    <3> HIDE DEF entries
    <3>2. \A w : w \in entries <=> w \in waiting \/ w = [request |-> s, arrival |-> asks]
      BY DEF entries
    <3> QED BY <3>1, <3>2 DEF Pool!Requests
  <2> HIDE DEF entries
  <2> QED BY <1>2, <2>1, <2>2, Granting DEF Pooled
<1>4. ASSUME NEW s \in Slot, Pool!Released(s)
      PROVE  held \ {s} \subseteq held' /\ Pooled' = Pooled \ {s}
  <2> DEFINE entries == {w \in waiting : w.request # s}
  <2>1. Pool!Grant(held \ {s}, entries)
    BY <1>4 DEF Pool!Released
  <2>2. Pool!Requests(entries) = Pool!Requests(waiting) \ {s}
    BY DEF Pool!Requests
  <2> HIDE DEF entries
  <2> QED BY <1>2, <2>1, <2>2, Granting DEF Pooled
<1>5. ASSUME NEW c \in Cast, Pool!Ended(c)
      PROVE  held \ Mine(c, Slot) \subseteq held' /\ Pooled' = Pooled \ Mine(c, Slot)
  <2> DEFINE entries == {w \in waiting : Of[w.request] # c}
             slots == {s \in held : Of[s] # c}
  <2>1. Pool!Grant(slots, entries)
    BY <1>1, <1>5 DEF Pool!Ended, Pool!Requests
  <2>2. Pool!Requests(entries) = Pool!Requests(waiting) \ Mine(c, Slot)
    BY <1>1 DEF Pool!Requests, Mine
  <2>3. slots = held \ Mine(c, Slot)
    BY <1>1 DEF Mine
  <2> HIDE DEF entries, slots
  <2> QED BY <1>2, <2>1, <2>2, <2>3, Granting DEF Pooled
<1> QED BY <1>3, <1>4, <1>5

-----------------------------------------------------------------------------
(* The types, the connections and what is begun.                           *)

LEMMA ConnsAre ==
    ASSUME LinkAssumption, Base, NEW c \in Cast
    PROVE  /\ None \notin Conn /\ Conn \subseteq Nat /\ \A k \in Conn : k > 0
           /\ conn[c] \in Conn \cup {None} /\ connecting[c] \in Conn \cup {None}
           /\ peer[c] \in Conn \cup {None} /\ opened[c] \in Nat
           /\ \A k \in Nat : k # 0 /\ k <= Conns[c] => k \in Conn
<1>1. /\ Conns \in [Cast -> Nat] /\ handling[c] \subseteq Conn /\ opened[c] \in Nat
      /\ Connections(c)
  BY DEF LinkAssumption, Base, Types
<1>2. \A k \in Conn : \E d \in Cast : k \in 1..Conns[d]
  BY DEF Conn
<1>3. \A k \in Conn : k \in Nat /\ k > 0
  BY <1>1, <1>2
<1>4. \A k \in Nat : k # 0 /\ k <= Conns[c] => k \in Conn
  BY <1>1 DEF Conn
<1> QED BY <1>1, <1>3, <1>4 DEF Connections, None

(* A cast that a step leaves alone, but for the slots granted to it.       *)
Aside(d) ==
    /\ conn'[d] = conn[d] /\ connecting'[d] = connecting[d] /\ opened'[d] = opened[d]
    /\ peer'[d] = peer[d] /\ handling'[d] = handling[d] /\ status'[d] = status[d]
    /\ d \in over' <=> d \in over
    /\ \A x \in Mine(d, Id) :
        /\ at'[x] = at[x]
        /\ x \in claimed' <=> x \in claimed
        /\ x \in known' <=> x \in known
        /\ x \in claims' <=> x \in claims
        /\ x \in tasks' <=> x \in tasks
        /\ x \in Pooled' <=> x \in Pooled
        /\ x \in held => x \in held'
    /\ \A e \in Mine(d, Enqueue) : queued'[e] = queued[e]
    /\ \A j \in Conn : up'[d][j] = up[d][j]
    /\ \A j \in Conn :
        \/ down'[d][j] = down[d][j]
        \/ /\ j = peer[d] /\ d \notin over
           /\ ToldGrants(d, j)
    /\ \A j \in Conn : \A kind, x :
        Down(d, j, kind, x)' <=>
            \/ Down(d, j, kind, x)
            \/ j = peer[d] /\ d \notin over /\ kind = "granted" /\ x \in Mine(d, held' \ held)

LEMMA UpSame ==
    ASSUME NEW d, NEW j, up'[d][j] = up[d][j]
    PROVE  \A kind, x : Up(d, j, kind, x)' <=> Up(d, j, kind, x)
  BY DEF Up, Frame, Range

LEMMA DownSame ==
    ASSUME NEW d, NEW j, down'[d][j] = down[d][j]
    PROVE  \A kind, x : Down(d, j, kind, x)' <=> Down(d, j, kind, x)
  BY DEF Down, Frame, Range

LEMMA SameSaid ==
    /\ \A x : Opener(x)' = Opener(x) /\ Endings(x)' = Endings(x) /\ Tellings(x)' = Tellings(x)
    /\ \A c, xs : Mine(c, xs)' = Mine(c, xs)
    /\ Id' = Id /\ Wanted' = Wanted
  BY DEF Opener, Endings, Tellings, Mine, Id, Wanted

LEMMA AsideBase ==
    ASSUME LinkAssumption, Base, Types', NEW d \in Cast, Aside(d)
    PROVE  Connections(d)' /\ Begun(d)'
<1>1. Connections(d) /\ Begun(d)
  BY DEF Base
<1>2. \A j \in Conn : \A kind, x : Up(d, j, kind, x)' <=> Up(d, j, kind, x)
  BY UpSame DEF Aside
<1>3. \A x : x \in Mine(d, Id)' <=> x \in Mine(d, Id)
  BY DEF Mine, Id
<1>4. Connections(d)'
  BY <1>1, <1>2, <1>3 DEF Connections, Aside, Unmet, Wanted
<1>5. \A x \in Mine(d, Id) : x \in held' \ held => x \in Mine(d, known \cup Pooled \cup tasks)
  BY DEF Aside, Pooled, Mine
<1>6. Begun(d)'
  <2>1. \A x \in Mine(d, Id) : Opener(x)' = Opener(x) /\ Endings(x)' = Endings(x) /\ Tellings(x)' = Tellings(x)
    BY DEF Opener, Endings, Tellings
  <2>2. ASSUME NEW j \in Conn, NEW x \in Mine(d, Id), NEW kind \in Tellings(x), Down(d, j, kind, x)'
        PROVE  at'[x] # "idle"
    <3>1. at'[x] = at[x]
      BY DEF Aside
    <3>2. Down(d, j, kind, x) \/ x \in Mine(d, held' \ held)
      BY <2>2 DEF Aside
    <3>3. CASE Down(d, j, kind, x)
      BY <1>1, <3>1, <3>3 DEF Begun
    <3>4. CASE x \in Mine(d, held' \ held)
      <4>1. x \in Mine(d, known \cup Pooled \cup tasks)
        BY <1>5, <3>4 DEF Mine
      <4> QED BY <1>1, <3>1, <4>1 DEF Begun
    <3> QED BY <3>2, <3>3, <3>4
  <2>3. \A j \in Conn, x \in Mine(d, Id) :
            /\ \A kind \in {Opener(x)} \cup Endings(x) : Up(d, j, kind, x)' => at'[x] # "idle"
            /\ \A kind \in Endings(x) : Up(d, j, kind, x)' => at'[x] \notin Wanted
    BY <1>1, <1>2 DEF Begun, Aside
  <2>4. \A x : x \in Mine(d, known \cup Pooled \cup tasks)' <=> x \in Mine(d, known \cup Pooled \cup tasks)
    BY DEF Aside, Mine, Types, Base, Pooled, Id
  <2>5. \A x \in Mine(d, known \cup Pooled \cup tasks) : at'[x] # "idle"
    BY <1>1 DEF Begun, Aside, Mine, Types, Base, Pooled, Id
  <2> QED BY <1>3, <2>1, <2>2, <2>3, <2>4, <2>5 DEF Begun, Wanted
<1> QED BY <1>4, <1>6

(* A cast writes a frame that is no hello, or nothing.                     *)
LEMMA Wrote ==
    ASSUME LinkAssumption, Base, NEW c \in Cast, NEW f \in UpFrames(c), f.kind # "hello",
           up' = up \/ Send(c, f)
    PROVE  /\ UpTypes'
           /\ \A d \in Cast, k \in Conn :
                \/ up'[d][k] = up[d][k]
                \/ d = c /\ k = conn[c] /\ up'[d][k] = Append(up[d][k], f)
           /\ \A d \in Cast, k \in Conn : \A kind, x :
                Up(d, k, kind, x)' => \/ Up(d, k, kind, x)
                                      \/ d = c /\ k = conn[c] /\ f = Frame(kind, x)
           /\ \A d \in Cast, k \in Conn : \A kind, x : Up(d, k, kind, x) => Up(d, k, kind, x)'
           /\ \A k \in Conn :
                /\ Unmet(c, k)' <=> Unmet(c, k)
                /\ k > opened[c] \/ k = connecting[c] => up'[c][k] = <<>>
                /\ \A i \in DOMAIN up'[c][k] : up'[c][k][i].kind = "hello" => i = 1
<1>1. /\ Types /\ Connections(c) /\ conn[c] \in Conn \cup {None}
  BY ConnsAre DEF Base
<1>2. CASE up' = up
  <2>1. UpTypes'
    BY <1>1, <1>2, SameFrames DEF Types, UpTypes
  <2> QED BY <1>1, <1>2, <2>1, UpSame DEF Connections, Unmet
<1>3. CASE Send(c, f)
  <2>1. /\ UpTypes'
        /\ \A d \in Cast, k \in Conn :
                up'[d][k] = IF d = c /\ k = conn[c] THEN Append(up[d][k], f) ELSE up[d][k]
        /\ \A d \in Cast, k \in Conn : \A kind, x :
                Up(d, k, kind, x)' <=> \/ Up(d, k, kind, x)
                                       \/ d = c /\ k = conn[c] /\ f = Frame(kind, x)
    BY <1>1, <1>3, Sent
  <2>2. \A d \in Cast, k \in Conn :
            \/ up'[d][k] = up[d][k]
            \/ d = c /\ k = conn[c] /\ up'[d][k] = Append(up[d][k], f)
    BY <2>1
  <2>3. \A k \in Conn : Unmet(c, k)' <=> Unmet(c, k)
    BY <2>1, Framed DEF Unmet
  <2>4. ASSUME NEW k \in Conn, up'[c][k] # up[c][k]
        PROVE  /\ ~(k > opened[c] \/ k = connecting[c])
               /\ \A i \in DOMAIN up'[c][k] : up'[c][k][i].kind = "hello" => i = 1
    <3>1. k = conn[c] /\ up'[c][k] = Append(up[c][k], f)
      BY <2>2, <2>4
    <3>2. ~(k > opened[c] \/ k = connecting[c])
      BY <1>1, <3>1, ConnsAre DEF Connections
    <3>3. up[c][k] \in Seq(UpFrames(c))
      BY <1>1 DEF Types, UpTypes
    <3>4. \A i \in DOMAIN up'[c][k] :
            up'[c][k][i].kind = "hello" => i \in DOMAIN up[c][k] /\ up'[c][k][i] = up[c][k][i]
      BY <3>1, <3>3, Appended
    <3> QED BY <1>1, <3>2, <3>4 DEF Connections
  <2>5. \A k \in Conn : /\ k > opened[c] \/ k = connecting[c] => up'[c][k] = <<>>
                        /\ \A i \in DOMAIN up'[c][k] : up'[c][k][i].kind = "hello" => i = 1
    BY <1>1, <2>4 DEF Connections
  <2>6. \A d \in Cast, k \in Conn : \A kind, x : Up(d, k, kind, x) => Up(d, k, kind, x)'
    BY <2>1
  <2>7. \A d \in Cast, k \in Conn : \A kind, x :
            Up(d, k, kind, x)' => \/ Up(d, k, kind, x)
                                  \/ d = c /\ k = conn[c] /\ f = Frame(kind, x)
    BY <2>1
  <2> QED BY <2>1, <2>2, <2>3, <2>5, <2>6, <2>7
<1> QED BY <1>2, <1>3

(* A cast begins, ends, or hears of, one thing it waits on.                *)
LEMMA WorksBase ==
    ASSUME LinkAssumption, Base, NEW c \in Cast, NEW x \in Mine(c, Id), c \notin over,
           UNCHANGED <<ends, server, board, pool>>,
           up' = up \/ \E kind \in {Opener(x)} \cup Endings(x) :
                            /\ kind \in Endings(x) => at'[x] \notin Wanted
                            /\ Send(c, Frame(kind, x)),
           DownTypes', \A d \in Cast \ {c}, k \in Conn : down'[d][k] = down[d][k],
           \A k \in Conn : \A kind, y : Down(c, k, kind, y)' => Down(c, k, kind, y),
           at' \in [Id -> {"idle", "waiting", "running", "over", "queued", "refused", "gone"}],
           \A y \in Id : y # x => at'[y] = at[y],
           at'[x] # "idle", at'[x] \in Wanted => at[x] \in Wanted \cup {"idle"},
           claimed' \subseteq {p \in Prompt : at'[p] = "waiting"},
           \A y : y # x => (y \in claimed' <=> y \in claimed)
    PROVE  /\ Base' /\ \A d \in Cast \ {c} : Aside(d)
           /\ \A k \in Conn : \A kind, y :
                Up(c, k, kind, y)' =>
                    Up(c, k, kind, y) \/ (kind \in {Opener(x)} \cup Endings(x) /\ y = x)
<1>1. Types /\ Connections(c) /\ Begun(c) /\ x \in Id /\ Of[x] = c
  BY DEF Base, Mine
<1>2. /\ UpTypes'
      /\ \A d \in Cast, k \in Conn : d # c => up'[d][k] = up[d][k]
      /\ \A k \in Conn : \A kind, y : Up(c, k, kind, y)' =>
            \/ Up(c, k, kind, y)
            \/ /\ kind \in {Opener(x)} \cup Endings(x) /\ y = x
               /\ kind \in Endings(x) => at'[x] \notin Wanted
      /\ \A k \in Conn :
            /\ Unmet(c, k)' <=> Unmet(c, k)
            /\ k > opened[c] \/ k = connecting[c] => up'[c][k] = <<>>
            /\ \A i \in DOMAIN up'[c][k] : up'[c][k][i].kind = "hello" => i = 1
  <2>1. PICK kind \in {Opener(x)} \cup Endings(x) :
            up' = up \/ (Send(c, Frame(kind, x)) /\ (kind \in Endings(x) => at'[x] \notin Wanted))
    OBVIOUS
  <2> DEFINE f == Frame(kind, x)
  <2>2. /\ f \in UpFrames(c) /\ f.kind # "hello"
        /\ \A l, y : f = Frame(l, y) => l = kind /\ y = x
    BY <1>1, UpFramed, OpenerKinds, Framed
  <2>3. up' = up \/ Send(c, f)
    BY <2>1
  <2> HIDE DEF f
  <2>4. /\ UpTypes'
        /\ \A d \in Cast, k \in Conn :
            \/ up'[d][k] = up[d][k]
            \/ d = c /\ k = conn[c] /\ up'[d][k] = Append(up[d][k], f)
        /\ \A d \in Cast, k \in Conn : \A l, y :
            Up(d, k, l, y)' => \/ Up(d, k, l, y)
                               \/ d = c /\ k = conn[c] /\ f = Frame(l, y)
        /\ \A k \in Conn :
            /\ Unmet(c, k)' <=> Unmet(c, k)
            /\ k > opened[c] \/ k = connecting[c] => up'[c][k] = <<>>
            /\ \A i \in DOMAIN up'[c][k] : up'[c][k][i].kind = "hello" => i = 1
    BY <2>2, <2>3, Wrote
  <2>5. CASE up' = up
    BY <2>4, <2>5, UpSame
  <2>6. CASE up' # up
    BY <2>1, <2>2, <2>4, <2>6
  <2> QED BY <2>5, <2>6
<1>3. UNCHANGED <<conn, connecting, over, opened, alive, handling, peer, tasks,
                  queued, status, known, claims, held, waiting>>
  BY DEF ends, server, board, pool
<1>4. Types'
  BY <1>1, <1>2, <1>3 DEF Types, Pool!Requests
<1>5. Pooled' = Pooled
  BY <1>3 DEF Pooled, Pool!Requests
<1>6. ASSUME NEW d \in Cast \ {c} PROVE Aside(d)
  <2>1. \A y \in Mine(d, Id) : at'[y] = at[y] /\ (y \in claimed' <=> y \in claimed)
    BY <1>1 DEF Mine
  <2> QED BY <1>2, <1>3, <1>5, <2>1, DownSame DEF Aside, Mine
<1>7. \A k \in Conn : down[c][k] = <<>> => down'[c][k] = <<>>
  <2> TAKE k \in Conn
  <2> HAVE down[c][k] = <<>>
  <2>1. /\ \A kind, y : ~Down(c, k, kind, y) /\ ~Down(c, k, kind, y)'
    BY DEF Down, Range
  <2>2. down'[c][k] \in Seq(DownFrames(c))
    BY SameFrames DEF DownTypes
  <2>3. \A f \in Range(down'[c][k]) : f = Frame(f.kind, f.about)
    BY <2>2, InSeq, DownFrameIs
  <2>4. \A f \in Range(down'[c][k]) : Down(c, k, f.kind, f.about)'
    BY <2>3 DEF Down, Frame
  <2> QED BY <2>1, <2>2, <2>4, InSeq
<1>8. Connections(c)'
  <2>1. c \notin over' /\ \A k \in Conn : Up(c, k, "goodbye", c)' => Up(c, k, "goodbye", c)
    BY <1>1, <1>2, <1>3, OpenerKinds
  <2> QED BY <1>1, <1>2, <1>3, <1>7, <2>1 DEF Connections
<1>9. Begun(c)'
  <2>1. ASSUME NEW k \in Conn, NEW y \in Mine(c, Id)
        PROVE  /\ \A kind \in {Opener(y)} \cup Endings(y) : Up(c, k, kind, y)' => at'[y] # "idle"
               /\ \A kind \in Endings(y) : Up(c, k, kind, y)' => at'[y] \notin Wanted
               /\ \A kind \in Tellings(y) : Down(c, k, kind, y)' => at'[y] # "idle"
    <3>1. CASE y = x
      <4>1. \A kind \in Endings(x) : Up(c, k, kind, x) => at'[x] \notin Wanted
        BY <1>1 DEF Begun
      <4> QED BY <1>2, <3>1, <4>1
    <3>2. CASE y # x
      <4>1. at'[y] = at[y]
        BY <3>2 DEF Mine
      <4>2. \A kind : Up(c, k, kind, y)' => Up(c, k, kind, y)
        BY <1>2, <3>2
      <4> QED BY <1>1, <4>1, <4>2 DEF Begun
    <3> QED BY <3>1, <3>2
  <2>2. \A y \in Mine(c, known \cup Pooled \cup tasks)' : at'[y] # "idle"
    BY <1>1, <1>3, <1>5 DEF Begun, Mine, Types, Id, Pooled
  <2> QED BY <2>1, <2>2, SameSaid DEF Begun, Wanted
<1>10. \A d \in Cast : Connections(d)' /\ Begun(d)'
  BY <1>4, <1>6, <1>8, <1>9, AsideBase
<1> QED BY <1>2, <1>4, <1>6, <1>10 DEF Base

LEMMA BeginsBase ==
    ASSUME LinkAssumption, Base, NEW x \in Id, Begins(x)
    PROVE  Base' /\ \A d \in Cast \ {Of[x]} : Aside(d)
<1>1. /\ Of[x] \in Cast /\ Types /\ x \in Mine(Of[x], Id)
  BY KindsOf DEF Base, Mine
<1>2. /\ at[x] = "idle" /\ Of[x] \notin over
      /\ UNCHANGED <<claimed, ends, down, server, board, pool>>
      /\ at' = [at EXCEPT ![x] = IF x \in Slot /\ conn[Of[x]] = None THEN "running" ELSE "waiting"]
      /\ up' = up \/ Send(Of[x], Frame(Opener(x), x))
  BY DEF Begins, Opener
<1>3. /\ at'[x] \in Wanted /\ at'[x] # "idle" /\ \A y \in Id : y # x => at'[y] = at[y]
      /\ at' \in [Id -> {"idle", "waiting", "running", "over", "queued", "refused", "gone"}]
      /\ claimed' \subseteq {p \in Prompt : at'[p] = "waiting"}
  BY <1>1, <1>2 DEF Types, Wanted, Id
<1>4. /\ DownTypes' /\ \A d \in Cast, k \in Conn : down'[d][k] = down[d][k]
      /\ \A k \in Conn : \A kind, y : Down(Of[x], k, kind, y)' => Down(Of[x], k, kind, y)
  BY <1>1, <1>2, SameFrames, DownSame DEF Types, DownTypes
<1>5. Opener(x) \notin Endings(x)
  BY OpenerKinds
<1> QED BY <1>1, <1>2, <1>3, <1>4, <1>5, WorksBase

LEMMA ClosesBase ==
    ASSUME LinkAssumption, Base, NEW x \in Id, Closes(x)
    PROVE  Base' /\ \A d \in Cast \ {Of[x]} : Aside(d)
<1>1. /\ Of[x] \in Cast /\ Types /\ x \in Mine(Of[x], Id) /\ Connections(Of[x])
  BY KindsOf DEF Base, Mine
<1>2. /\ at[x] \in Wanted
      /\ UNCHANGED <<ends, down, server, board, pool>>
      /\ at' = [at EXCEPT ![x] = "over"] /\ claimed' = claimed \ {x}
  BY DEF Closes, Wanted
<1>3. up' = up \/ \E kind \in Endings(x) : Send(Of[x], Frame(kind, x))
  BY KindsOf DEF Closes
<1>4. /\ at'[x] = "over" /\ at'[x] \notin Wanted /\ at'[x] # "idle"
      /\ \A y \in Id : y # x => at'[y] = at[y]
      /\ at' \in [Id -> {"idle", "waiting", "running", "over", "queued", "refused", "gone"}]
      /\ claimed' \subseteq {p \in Prompt : at'[p] = "waiting"}
  BY <1>1, <1>2 DEF Types, Wanted, Id
<1>5. /\ DownTypes' /\ \A d \in Cast, k \in Conn : down'[d][k] = down[d][k]
      /\ \A k \in Conn : \A kind, y : Down(Of[x], k, kind, y)' => Down(Of[x], k, kind, y)
  BY <1>1, <1>2, SameFrames, DownSame DEF Types, DownTypes
<1>6. Of[x] \notin over
  BY <1>1, <1>2 DEF Connections
<1> QED BY <1>1, <1>2, <1>3, <1>4, <1>5, <1>6, WorksBase

(* What a cast hears of is one of its own, begun; what is waited on comes  *)
(* to what it is told, and an answer is said to be taken.                  *)
LEMMA HearsWhat ==
    ASSUME LinkAssumption, Base, NEW c \in Cast, Hears(c)
    PROVE  LET f == Head(down[c][conn[c]])
               x == f.about
           IN  /\ conn[c] \in Conn /\ c \notin over /\ down[c][conn[c]] # <<>> /\ Hear(c)
               /\ x \in Mine(c, Id) /\ at[x] # "idle" /\ f.kind \in Tellings(x) /\ f = Frame(f.kind, x)
               /\ UNCHANGED <<ends, server, board, pool>>
               /\ \/ at[x] # "waiting" /\ UNCHANGED <<work, up>>
                  \/ /\ at[x] = "waiting" /\ f.kind = "answer" /\ x \in Prompt
                     /\ at' = [at EXCEPT ![x] = "over"] /\ claimed' = claimed \ {x}
                     /\ Send(c, Frame("resolved", x))
                  \/ /\ at[x] = "waiting" /\ f.kind = "claimed" /\ x \in Prompt
                     /\ claimed' = claimed \cup {x} /\ UNCHANGED <<at, up>>
                  \/ /\ at[x] = "waiting" /\ f.kind = "unclaimed" /\ x \in Prompt
                     /\ claimed' = claimed \ {x} /\ UNCHANGED <<at, up>>
                  \/ /\ at[x] = "waiting" /\ f.kind = "granted" /\ x \in Slot
                     /\ at' = [at EXCEPT ![x] = "running"] /\ UNCHANGED <<claimed, up>>
                  \/ /\ at[x] = "waiting" /\ f.kind = "accepted" /\ x \in Enqueue
                     /\ at' = [at EXCEPT ![x] = "queued"] /\ UNCHANGED <<claimed, up>>
                  \/ /\ at[x] = "waiting" /\ f.kind = "refused" /\ x \in Enqueue
                     /\ at' = [at EXCEPT ![x] = "refused"] /\ UNCHANGED <<claimed, up>>
                  \/ /\ at[x] = "waiting" /\ f.kind = "childEnded" /\ x \in Await
                     /\ at' = [at EXCEPT ![x] = "over"] /\ UNCHANGED <<claimed, up>>
<1> DEFINE f == Head(down[c][conn[c]])
           x == f.about
<1>1. /\ conn[c] \in Conn /\ c \notin over /\ down[c][conn[c]] # <<>> /\ Hear(c)
      /\ UNCHANGED <<ends, server, board, pool>> /\ Types /\ Begun(c)
  BY ConnsAre DEF Hears, Base, Connections
<1>2. f \in DownFrames(c) /\ f \in Range(down[c][conn[c]])
  <2>1. down[c][conn[c]] \in Seq(DownFrames(c))
    BY <1>1 DEF Types, DownTypes
  <2> QED BY <1>1, <2>1, Tailed
<1>3. x \in Mine(c, Id) /\ f.kind \in Tellings(x) /\ f = Frame(f.kind, x)
  BY <1>2, DownFrameIs DEF Mine
<1>4. at[x] # "idle"
  <2>1. Down(c, conn[c], f.kind, x)
    BY <1>2, <1>3 DEF Down
  <2> QED BY <1>1, <1>3, <2>1 DEF Begun
<1>5. IF at[x] # "waiting" THEN UNCHANGED <<work, up>>
      ELSE CASE f.kind = "answer" ->
                    at' = [at EXCEPT ![x] = "over"] /\ claimed' = claimed \ {x}
                        /\ Send(c, Frame("resolved", x))
             [] f.kind = "claimed" -> claimed' = claimed \cup {x} /\ UNCHANGED <<at, up>>
             [] f.kind = "unclaimed" -> claimed' = claimed \ {x} /\ UNCHANGED <<at, up>>
             [] f.kind = "granted" -> at' = [at EXCEPT ![x] = "running"] /\ UNCHANGED <<claimed, up>>
             [] f.kind = "accepted" -> at' = [at EXCEPT ![x] = "queued"] /\ UNCHANGED <<claimed, up>>
             [] f.kind = "refused" -> at' = [at EXCEPT ![x] = "refused"] /\ UNCHANGED <<claimed, up>>
             [] OTHER -> at' = [at EXCEPT ![x] = "over"] /\ UNCHANGED <<claimed, up>>
  BY DEF Hears
<1> HIDE DEF f, x
<1>6. x \in Id /\ \/ x \in Prompt /\ f.kind \in {"answer", "claimed", "unclaimed"}
                  \/ x \in Slot /\ f.kind = "granted"
                  \/ x \in Enqueue /\ f.kind \in {"accepted", "refused"}
                  \/ x \in Await /\ f.kind = "childEnded"
  BY <1>3, KindsOf DEF Mine
<1>7. \/ at[x] # "waiting" /\ UNCHANGED <<work, up>>
      \/ /\ at[x] = "waiting" /\ f.kind = "answer" /\ x \in Prompt
         /\ at' = [at EXCEPT ![x] = "over"] /\ claimed' = claimed \ {x}
         /\ Send(c, Frame("resolved", x))
      \/ /\ at[x] = "waiting" /\ f.kind = "claimed" /\ x \in Prompt
         /\ claimed' = claimed \cup {x} /\ UNCHANGED <<at, up>>
      \/ /\ at[x] = "waiting" /\ f.kind = "unclaimed" /\ x \in Prompt
         /\ claimed' = claimed \ {x} /\ UNCHANGED <<at, up>>
      \/ /\ at[x] = "waiting" /\ f.kind = "granted" /\ x \in Slot
         /\ at' = [at EXCEPT ![x] = "running"] /\ UNCHANGED <<claimed, up>>
      \/ /\ at[x] = "waiting" /\ f.kind = "accepted" /\ x \in Enqueue
         /\ at' = [at EXCEPT ![x] = "queued"] /\ UNCHANGED <<claimed, up>>
      \/ /\ at[x] = "waiting" /\ f.kind = "refused" /\ x \in Enqueue
         /\ at' = [at EXCEPT ![x] = "refused"] /\ UNCHANGED <<claimed, up>>
      \/ /\ at[x] = "waiting" /\ f.kind = "childEnded" /\ x \in Await
         /\ at' = [at EXCEPT ![x] = "over"] /\ UNCHANGED <<claimed, up>>
  BY <1>5, <1>6
<1> QED BY <1>1, <1>3, <1>4, <1>7 DEF f, x

LEMMA HearsBase ==
    ASSUME LinkAssumption, Base, NEW c \in Cast, Hears(c)
    PROVE  Base' /\ \A d \in Cast \ {c} : Aside(d)
<1> DEFINE f == Head(down[c][conn[c]])
<1>1. PICK x : /\ x = f.about /\ x \in Mine(c, Id) /\ at[x] # "idle"
               /\ conn[c] \in Conn /\ c \notin over /\ down[c][conn[c]] # <<>> /\ Hear(c)
               /\ UNCHANGED <<ends, server, board, pool>>
               /\ \/ UNCHANGED <<at, claimed, up>>
                  \/ /\ at[x] = "waiting" /\ x \in Prompt
                     /\ at' = [at EXCEPT ![x] = "over"] /\ claimed' = claimed \ {x}
                     /\ Send(c, Frame("resolved", x))
                  \/ /\ at[x] = "waiting" /\ x \in Prompt /\ UNCHANGED <<at, up>>
                     /\ claimed' \in {claimed \ {x}, claimed \cup {x}}
                  \/ /\ at[x] = "waiting" /\ x \notin Prompt /\ UNCHANGED <<claimed, up>>
                     /\ \E r \in {"running", "queued", "refused", "over"} :
                            at' = [at EXCEPT ![x] = r]
  BY HearsWhat, KindsOf DEF work, Mine
<1>2. Types /\ x \in Id /\ (x \in Prompt => "resolved" \in Endings(x))
  BY <1>1, KindsOf DEF Base, Mine
<1>3. /\ at' \in [Id -> {"idle", "waiting", "running", "over", "queued", "refused", "gone"}]
      /\ \A y \in Id : y # x => at'[y] = at[y]
      /\ at'[x] # "idle" /\ (at'[x] \in Wanted => at[x] \in Wanted \cup {"idle"})
      /\ claimed' \subseteq {p \in Prompt : at'[p] = "waiting"}
      /\ \A y : y # x => (y \in claimed' <=> y \in claimed)
  <2>1. CASE UNCHANGED <<at, claimed>>
    BY <1>1, <1>2, <2>1 DEF Types
  <2>2. CASE at[x] = "waiting" /\ at' = [at EXCEPT ![x] = "over"] /\ claimed' = claimed \ {x}
    BY <1>2, <2>2 DEF Types, Wanted, Id
  <2>3. CASE at[x] = "waiting" /\ x \in Prompt /\ at' = at
                /\ claimed' \in {claimed \ {x}, claimed \cup {x}}
    BY <1>2, <2>3 DEF Types, Wanted, Id
  <2>4. CASE /\ at[x] = "waiting" /\ x \notin Prompt /\ claimed' = claimed
             /\ \E r \in {"running", "queued", "refused", "over"} : at' = [at EXCEPT ![x] = r]
    <3>1. PICK r \in {"running", "queued", "refused", "over"} : at' = [at EXCEPT ![x] = r]
      BY <2>4
    <3> QED BY <1>2, <2>4, <3>1 DEF Types, Wanted, Id
  <2> QED BY <1>1, <2>1, <2>2, <2>3, <2>4
<1>4. up' = up \/ \E kind \in {Opener(x)} \cup Endings(x) :
                        /\ kind \in Endings(x) => at'[x] \notin Wanted
                        /\ Send(c, Frame(kind, x))
  <2>1. CASE up' = up
    BY <2>1
  <2>2. CASE x \in Prompt /\ at' = [at EXCEPT ![x] = "over"] /\ Send(c, Frame("resolved", x))
    <3>1. at'[x] = "over"
      BY <1>2, <2>2 DEF Types
    <3> QED BY <1>2, <2>2, <3>1 DEF Wanted
  <2> QED BY <1>1, <2>1, <2>2
<1>5. /\ DownTypes'
      /\ \A d \in Cast \ {c}, k \in Conn : down'[d][k] = down[d][k]
      /\ \A k \in Conn : \A kind, y : Down(c, k, kind, y)' => Down(c, k, kind, y)
  BY <1>1, <1>2, HeardDown
<1>6. x \in Mine(c, Id) /\ c \notin over /\ UNCHANGED <<ends, server, board, pool>>
  BY <1>1
<1> QED BY <1>3, <1>4, <1>5, <1>6, WorksBase

LEMMA ConnectsBase ==
    ASSUME LinkAssumption, Base, NEW c \in Cast, Connects(c)
    PROVE  Base' /\ \A d \in Cast \ {c} : Aside(d)
<1> DEFINE k == opened[c] + 1
<1>1. /\ Types /\ Connections(c) /\ Begun(c)
  BY DEF Base
<1>2. /\ c \notin over /\ conn[c] = None /\ connecting[c] = None /\ opened[c] < Conns[c]
      /\ opened' = [opened EXCEPT ![c] = k] /\ connecting' = [connecting EXCEPT ![c] = k]
      /\ handling' = [handling EXCEPT ![c] = @ \cup {k}]
      /\ UNCHANGED <<at, claimed, conn, over, up, down, alive, peer, tasks, queued, status, known,
                     claims, held, waiting>>
  BY <1>1 DEF Connects, Handles, work, board, pool, Types
<1>3. k \in Conn /\ k \in Nat /\ k > opened[c] /\ k <= Conns[c] /\ opened[c] \in Nat
  <2>1. opened[c] \in Nat /\ Conns[c] \in Nat
    BY <1>1 DEF Types, LinkAssumption
  <2>2. k \in Nat /\ k # 0 /\ k > opened[c] /\ k <= Conns[c]
    BY <1>2, <2>1
  <2> HIDE DEF k
  <2> QED BY <2>1, <2>2, ConnsAre
<1> HIDE DEF k
<1>4. /\ opened'[c] = k /\ connecting'[c] = k /\ handling'[c] = handling[c] \cup {k}
      /\ \A d \in Cast \ {c} : /\ opened'[d] = opened[d] /\ connecting'[d] = connecting[d]
                               /\ handling'[d] = handling[d]
  BY <1>1, <1>2 DEF Types
<1>5. Types'
  BY <1>1, <1>2, <1>3, SameFrames DEF Types, UpTypes, DownTypes, Pool!Requests
<1>6. ASSUME NEW d \in Cast \ {c} PROVE Aside(d)
  BY <1>2, <1>4, DownSame DEF Aside, Mine, Pooled, Pool!Requests
<1>7. Connections(c)'
  <2>1. \A j \in Conn : j > k => j > opened[c]
    <3>1. \A j \in Nat : j > k => j > opened[c]
      BY <1>3
    <3> QED BY <3>1, ConnsAre
  <2>2. \A j \in Conn : Unmet(c, j)' <=> Unmet(c, j)
    BY <1>2 DEF Unmet, Up
  <2>3. \A j \in handling[c] : j <= k
    <3>1. \A j \in handling[c] : j \in Nat /\ j <= opened[c]
      BY <1>1, ConnsAre DEF Types, Connections
    <3> QED BY <1>3, <3>1
  <2>4. k <= k
    BY <1>3
  <2>5. \A j \in Conn : Up(c, j, "goodbye", c)' => Up(c, j, "goodbye", c)
    BY <1>2 DEF Up
  <2>6. \A j \in Conn :
        /\ j > k \/ j = k => up[c][j] = <<>>
        /\ j > k \/ j = k \/ Unmet(c, j) => down[c][j] = <<>> /\ peer[c] # j
    BY <1>1, <1>3, <2>1 DEF Connections
  <2>7. /\ opened'[c] <= Conns[c]
        /\ conn'[c] \in {None, opened'[c]} /\ connecting'[c] \in {None, opened'[c]}
        /\ conn'[c] = None \/ connecting'[c] = None
        /\ peer'[c] \in handling'[c] \cup {None}
        /\ \A j \in handling'[c] : j <= opened'[c]
        /\ c \notin over'
    BY <1>1, <1>2, <1>3, <1>4, <2>3, <2>4 DEF Connections
  <2>8. \A j \in Conn :
        /\ j > opened'[c] \/ j = connecting'[c] => up'[c][j] = <<>>
        /\ j > opened'[c] \/ j = connecting'[c] \/ Unmet(c, j)' => down'[c][j] = <<>> /\ peer'[c] # j
        /\ \A i \in DOMAIN up'[c][j] : up'[c][j][i].kind = "hello" => i = 1
        /\ Up(c, j, "goodbye", c)' => c \in over'
    BY <1>1, <1>2, <1>4, <2>2, <2>5, <2>6 DEF Connections
  <2> QED BY <2>7, <2>8 DEF Connections
<1>8. Begun(c)'
  BY <1>1, <1>2, SameSaid DEF Begun, Up, Down, Pooled, Pool!Requests, Mine
<1>9. \A d \in Cast : Connections(d)' /\ Begun(d)'
  BY <1>5, <1>6, <1>7, <1>8, AsideBase
<1> QED BY <1>5, <1>6, <1>9 DEF Base

(* What a cast has open of one kind, said in some order.                   *)
Saying(c, kind, xs) == SetToSeq({Frame(kind, x) : x \in Open(c, xs)})

LEMMA OpenSaid ==
    ASSUME LinkAssumption, NEW c \in Cast, NEW xs \in SUBSET Id,
           NEW kind, \A x \in xs : Opener(x) = kind
    PROVE  LET s == Saying(c, kind, xs) IN
           /\ s \in Seq(UpFrames(c))
           /\ \A f : f \in Range(s) <=> \E x \in Open(c, xs) : f = Frame(Opener(x), x)
           /\ \A i, j \in DOMAIN s : s[i] = s[j] => i = j
<1> DEFINE S == {Frame(kind, x) : x \in Open(c, xs)}
<1>1. IsFiniteSet(Open(c, xs)) /\ \A x \in Open(c, xs) : x \in Mine(c, Id) /\ Opener(x) = kind
  BY FS_Subset DEF LinkAssumption, Open, Mine
<1>2. IsFiniteSet(S)
  <2> DEFINE h == [x \in Open(c, xs) |-> Frame(kind, x)]
  <2>1. h \in Surjection(Open(c, xs), S)
    BY DEF Surjection
  <2> HIDE DEF h, S
  <2> QED BY <1>1, <2>1, FS_Surjection
<1>3. S \subseteq UpFrames(c)
  BY <1>1, UpFramed
<1>4. \A f : f \in S <=> \E x \in Open(c, xs) : f = Frame(Opener(x), x)
  BY <1>1
<1> HIDE DEF S
<1>5. /\ SetToSeq(S) \in Seq(S) /\ Range(SetToSeq(S)) = S
      /\ \A i, j \in DOMAIN SetToSeq(S) : SetToSeq(S)[i] = SetToSeq(S)[j] => i = j
  BY <1>2, Listed
<1>6. SetToSeq(S) \in Seq(UpFrames(c))
  BY <1>3, <1>5, InSeq, SeqDef
<1> QED BY <1>4, <1>5, <1>6 DEF S, Saying

LEMMA BacklogIs ==
    ASSUME LinkAssumption, NEW c \in Cast
    PROVE  LET b == Backlog(c) IN
           /\ b \in Seq(UpFrames(c))
           /\ \A f : f \in Range(b) <=>
                \/ f = Frame("hello", c)
                \/ \E x \in Open(c, Id \ Enqueue) : f = Frame(Opener(x), x)
           /\ \A i \in DOMAIN b : b[i].kind = "hello" => i = 1
           /\ \A i, j \in DOMAIN b : b[i].kind = "awaits" /\ b[i] = b[j] => i = j
<1> DEFINE hello == <<Frame("hello", c)>>
           prompts == Saying(c, "asked", Prompt)
           slots == Saying(c, "slot", Slot)
           awaits == Saying(c, "awaits", Await)
           of(s, xs) == /\ s \in Seq(UpFrames(c))
                        /\ \A f : f \in Range(s) <=> \E x \in Open(c, xs) : f = Frame(Opener(x), x)
                        /\ \A i, j \in DOMAIN s : s[i] = s[j] => i = j
           asked == hello \o prompts
           front == asked \o slots
           b == front \o awaits
<1>1. of(prompts, Prompt) /\ of(slots, Slot) /\ of(awaits, Await)
  <2>1. /\ Prompt \in SUBSET Id /\ \A x \in Prompt : Opener(x) = "asked"
        /\ Slot \in SUBSET Id /\ \A x \in Slot : Opener(x) = "slot"
        /\ Await \in SUBSET Id /\ \A x \in Await : Opener(x) = "awaits"
    BY KindsOf DEF Id
  <2>2. of(prompts, Prompt)
    BY <2>1, OpenSaid
  <2>3. of(slots, Slot)
    BY <2>1, OpenSaid
  <2>4. of(awaits, Await)
    BY <2>1, OpenSaid
  <2> QED BY <2>2, <2>3, <2>4
<1>2. /\ hello \in Seq(UpFrames(c)) /\ DOMAIN hello = {1} /\ hello[1] = Frame("hello", c)
      /\ Range(hello) = {Frame("hello", c)} /\ Len(hello) = 1
  BY GreetingFramed DEF Range
<1>3. b = Backlog(c)
  <2>1. /\ hello \in Seq(UpFrames(c)) /\ prompts \in Seq(UpFrames(c)) /\ slots \in Seq(UpFrames(c))
        /\ awaits \in Seq(UpFrames(c))
    BY <1>1, <1>2
  <2>2. Backlog(c) = hello \o prompts \o slots \o awaits
    BY DEF Backlog, Saying
  <2> QED BY <2>2
<1> HIDE DEF hello, prompts, slots, awaits
<1>4. /\ asked \in Seq(UpFrames(c)) /\ Range(asked) = Range(hello) \cup Range(prompts)
      /\ DOMAIN hello \subseteq DOMAIN asked /\ \A i \in DOMAIN hello : asked[i] = hello[i]
  BY <1>1, <1>2, Joined
<1> HIDE DEF asked
<1>5. /\ front \in Seq(UpFrames(c)) /\ Range(front) = Range(asked) \cup Range(slots)
      /\ DOMAIN asked \subseteq DOMAIN front /\ \A i \in DOMAIN asked : front[i] = asked[i]
  BY <1>1, <1>4, Joined
<1>9. \A i \in DOMAIN front : front[i].kind = "hello" => i = 1
  <2>1. ASSUME NEW xs, NEW s, of(s, xs), xs \subseteq Id, NEW i \in DOMAIN s
        PROVE  s[i].kind # "hello"
    <3>1. s[i] \in Range(s)
      BY <2>1, InSeq
    <3>2. PICK x \in Open(c, xs) : s[i] = Frame(Opener(x), x)
      BY <2>1, <3>1
    <3>3. x \in Id
      BY <2>1 DEF Open, Mine
    <3> QED BY <3>2, <3>3, OpenerKinds, Framed
  <2>2. \A i \in DOMAIN asked : i \in DOMAIN hello \/ (i - Len(hello) \in DOMAIN prompts /\ asked[i] = prompts[i - Len(hello)])
    BY <1>1, <1>2, Joined DEF asked
  <2>3. \A i \in DOMAIN front : i \in DOMAIN asked \/ (i - Len(asked) \in DOMAIN slots /\ front[i] = slots[i - Len(asked)])
    BY <1>1, <1>4, Joined
  <2>4. Prompt \subseteq Id /\ Slot \subseteq Id
    BY DEF Id
  <2>5. /\ \A i \in DOMAIN prompts : prompts[i].kind # "hello"
        /\ \A i \in DOMAIN slots : slots[i].kind # "hello"
    BY <1>1, <2>1, <2>4
  <2> HIDE DEF front
  <2> QED BY <1>2, <1>4, <1>5, <2>2, <2>3, <2>5
<1> HIDE DEF front
<1>6. /\ b \in Seq(UpFrames(c)) /\ Range(b) = Range(front) \cup Range(awaits)
      /\ DOMAIN front \subseteq DOMAIN b /\ \A i \in DOMAIN front : b[i] = front[i]
      /\ \A i \in DOMAIN b : \/ i \in DOMAIN front
                             \/ /\ i - Len(front) \in DOMAIN awaits
                                /\ b[i] = awaits[i - Len(front)]
  BY <1>1, <1>5, Joined
<1> HIDE DEF b
<1>7. \A f : f \in Range(b) <=> \/ f = Frame("hello", c)
                                \/ \E x \in Open(c, Id \ Enqueue) : f = Frame(Opener(x), x)
  <2>1. Open(c, Id \ Enqueue) = Open(c, Prompt) \cup Open(c, Slot) \cup Open(c, Await)
    <3>1. Id \ Enqueue = Prompt \cup Slot \cup Await
      BY KindsOf DEF Id
    <3> QED BY <3>1 DEF Open, Mine
  <2>2. \A f : f \in Range(b) <=> f \in Range(hello) \/ f \in Range(prompts) \/ f \in Range(slots)
                                                     \/ f \in Range(awaits)
    BY <1>4, <1>5, <1>6
  <2> QED BY <1>1, <1>2, <2>1, <2>2
<1>8. \A i \in DOMAIN awaits : awaits[i].kind = "awaits"
  <2> TAKE i \in DOMAIN awaits
  <2>1. awaits[i] \in Range(awaits)
    BY <1>1, InSeq
  <2>2. PICK x \in Open(c, Await) : awaits[i] = Frame(Opener(x), x)
    BY <1>1, <2>1
  <2>3. x \in Id /\ x \in Await
    BY DEF Open, Mine, Id
  <2> QED BY <2>2, <2>3, KindsOf, Framed
<1>10. \A i \in DOMAIN b : b[i].kind = "hello" => i = 1
  BY <1>6, <1>8, <1>9
<1>11. \A i \in DOMAIN front : front[i].kind # "awaits"
  <2> TAKE i \in DOMAIN front
  <2>1. front[i] \in Range(hello) \cup Range(prompts) \cup Range(slots)
    BY <1>4, <1>5, InSeq
  <2>2. CASE front[i] = Frame("hello", c)
    BY <2>2, Framed
  <2>3. CASE \E x \in Open(c, Prompt) \cup Open(c, Slot) : front[i] = Frame(Opener(x), x)
    <3>1. PICK x \in Open(c, Prompt) \cup Open(c, Slot) : front[i] = Frame(Opener(x), x)
      BY <2>3
    <3>2. x \in Id /\ (x \in Prompt \/ x \in Slot)
      BY DEF Open, Mine, Id
    <3> QED BY <3>1, <3>2, KindsOf, Framed
  <2> QED BY <1>1, <1>2, <2>1, <2>2, <2>3
<1>12. ASSUME NEW i \in DOMAIN b, NEW j \in DOMAIN b, b[i].kind = "awaits", b[i] = b[j]
       PROVE  i = j
  <2>1. i \notin DOMAIN front /\ j \notin DOMAIN front
    BY <1>6, <1>11, <1>12
  <2>2. i - Len(front) = j - Len(front)
    BY <1>1, <1>6, <1>12, <2>1
  <2>3. i \in Nat /\ j \in Nat /\ Len(front) \in Nat
    <3>1. \A m \in 1..Len(b) : m \in Nat
      BY <1>6, InSeq
    <3> QED BY <1>5, <1>6, <3>1, InSeq
  <2> QED BY <2>2, <2>3
<1> QED BY <1>3, <1>6, <1>7, <1>10, <1>12

LEMMA AttachesBase ==
    ASSUME LinkAssumption, Base, NEW c \in Cast, Attaches(c)
    PROVE  Base' /\ \A d \in Cast \ {c} : Aside(d)
<1> DEFINE k == connecting[c]
<1>1. /\ Types /\ Connections(c) /\ Begun(c)
  BY DEF Base
<1>2. /\ k \in Conn /\ k \in Nat /\ k = opened[c] /\ conn[c] = None /\ up[c][k] = <<>>
      /\ down[c][k] = <<>> /\ peer[c] # k
  BY <1>1, ConnsAre DEF Attaches, Connections
<1>3. /\ connecting' = [connecting EXCEPT ![c] = None]
      /\ UNCHANGED <<at, claimed, over, opened, down, alive, peer, tasks, queued, status, known,
                     claims, held, waiting>>
      /\ \/ /\ c \in over /\ handling' = [handling EXCEPT ![c] = @ \ {k}] /\ UNCHANGED <<conn, up>>
         \/ /\ c \notin over /\ UNCHANGED handling
            /\ conn' = [conn EXCEPT ![c] = k] /\ up' = [up EXCEPT ![c][k] = Backlog(c)]
  BY DEF Attaches, Handled, work, board, pool
<1> HIDE DEF k
<1>4. /\ Backlog(c) \in Seq(UpFrames(c))
      /\ \A f : f \in Range(Backlog(c)) <=>
            \/ f = Frame("hello", c)
            \/ \E x \in Open(c, Id \ Enqueue) : f = Frame(Opener(x), x)
      /\ \A i \in DOMAIN Backlog(c) : Backlog(c)[i].kind = "hello" => i = 1
  BY BacklogIs
<1>5. \A d \in Cast, j \in Conn :
        \/ up'[d][j] = up[d][j]
        \/ d = c /\ j = k /\ c \notin over /\ conn'[c] = k /\ up'[d][j] = Backlog(c)
  BY <1>1, <1>3 DEF Types, UpTypes
<1>6. UpTypes'
  <2>1. /\ DOMAIN up' = Cast
        /\ \A d \in Cast : DOMAIN up'[d] = Conn /\ up'[d] = [j \in Conn |-> up'[d][j]]
    BY <1>1, <1>3 DEF Types, UpTypes
  <2>2. ASSUME NEW d \in Cast, NEW j \in Conn PROVE up'[d][j] \in Seq(UpFrames(d))
    <3>1. up[d][j] \in Seq(UpFrames(d))
      BY <1>1 DEF Types, UpTypes
    <3>2. d = c => Backlog(c) \in Seq(UpFrames(d))
      BY <1>4
    <3> QED BY <1>5, <3>1, <3>2
  <2> QED BY <2>1, <2>2, SameFrames DEF UpTypes
<1>7. /\ connecting'[c] = None /\ conn'[c] \in {None, opened[c]}
      /\ (c \in over => conn'[c] = None) /\ peer[c] \in handling'[c] \cup {None}
      /\ handling'[c] \subseteq handling[c]
      /\ \A d \in Cast \ {c} : /\ conn'[d] = conn[d] /\ connecting'[d] = connecting[d]
                               /\ handling'[d] = handling[d]
  BY <1>1, <1>2, <1>3 DEF Types, Connections
<1>8. Types'
  <2>1. DownTypes'
    BY <1>1, <1>3, SameFrames DEF Types, DownTypes
  <2>2. conn' \in [Cast -> Nat] /\ connecting' \in [Cast -> Nat]
    BY <1>1, <1>2, <1>3 DEF Types, None
  <2>3. handling' \in [Cast -> SUBSET Conn]
    BY <1>1, <1>3 DEF Types
  <2> QED BY <1>1, <1>3, <1>6, <2>1, <2>2, <2>3 DEF Types, Pool!Requests
<1>9. ASSUME NEW d \in Cast \ {c} PROVE Aside(d)
  BY <1>3, <1>5, <1>7, DownSame DEF Aside, Mine, Pooled, Pool!Requests
<1>10. \A j \in Conn : \A kind, x :
        Up(c, j, kind, x)' =>
            \/ Up(c, j, kind, x)
            \/ j = k /\ c \notin over /\ kind = "hello"
            \/ j = k /\ x \in Open(c, Id \ Enqueue) /\ kind = Opener(x)
  <2> TAKE j \in Conn
  <2> TAKE kind, x
  <2> HAVE Up(c, j, kind, x)'
  <2>1. CASE up'[c][j] = up[c][j]
    BY <2>1, UpSame
  <2>2. CASE j = k /\ c \notin over /\ up'[c][j] = Backlog(c)
    <3>1. Frame(kind, x) \in Range(Backlog(c))
      BY <2>2 DEF Up, Frame
    <3>2. \/ Frame(kind, x) = Frame("hello", c)
          \/ \E y \in Open(c, Id \ Enqueue) : Frame(kind, x) = Frame(Opener(y), y)
      BY <1>4, <3>1
    <3>3. \A l, y : Frame(kind, x) = Frame(l, y) <=> kind = l /\ x = y
      BY Framed
    <3> QED BY <2>2, <3>2, <3>3
  <2> QED BY <1>5, <2>1, <2>2
<1>11. Connections(c)'
  <2>1. \A j \in Conn : j # k => (Unmet(c, j)' => Unmet(c, j))
    BY <1>5, UpSame DEF Unmet
  <2>2. \A j \in Conn : Up(c, j, "goodbye", c)' => Up(c, j, "goodbye", c)
    <3>1. \A x \in Open(c, Id \ Enqueue) : Opener(x) # "goodbye"
      BY OpenerKinds DEF Open, Mine
    <3> QED BY <1>10, <3>1
  <2>3. \A j \in Conn : j > opened[c] => up'[c][j] = <<>>
    <3>1. ~(k > opened[c])
      BY <1>1, <1>2
    <3> QED BY <1>1, <1>5, <3>1 DEF Connections
  <2>4. \A j \in Conn : \A i \in DOMAIN up'[c][j] : up'[c][j][i].kind = "hello" => i = 1
    BY <1>1, <1>4, <1>5 DEF Connections
  <2>5. \A j \in Conn : j > opened[c] \/ Unmet(c, j)' => down[c][j] = <<>> /\ peer[c] # j
    BY <1>1, <1>2, <2>1 DEF Connections
  <2>6. \A j \in Conn : j # None
    BY ConnsAre
  <2>7. c \in over => \A x \in Mine(c, Id)' : at'[x] \notin Wanted'
    BY <1>1, <1>3, SameSaid DEF Connections
  <2> QED BY <1>1, <1>3, <1>7, <2>2, <2>3, <2>4, <2>5, <2>6, <2>7 DEF Connections
<1>12. Begun(c)'
  <2>1. ASSUME NEW j \in Conn, NEW y \in Mine(c, Id)
        PROVE  /\ \A kind \in {Opener(y)} \cup Endings(y) : Up(c, j, kind, y)' => at[y] # "idle"
               /\ \A kind \in Endings(y) : Up(c, j, kind, y)' => at[y] \notin Wanted
               /\ \A kind \in Tellings(y) : Down(c, j, kind, y)' => at[y] # "idle"
    <3>1. y \in Open(c, Id \ Enqueue) => at[y] # "idle"
      BY DEF Open
    <3>2. \A kind \in {Opener(y)} \cup Endings(y) : kind # "hello"
      BY OpenerKinds DEF Mine
    <3>3. \A kind \in Endings(y) : kind # Opener(y)
      BY OpenerKinds DEF Mine
    <3>4. \A kind \in Tellings(y) : Down(c, j, kind, y)' => Down(c, j, kind, y)
      BY <1>3, DownSame
    <3> QED BY <1>1, <1>10, <3>1, <3>2, <3>3, <3>4 DEF Begun
  <2>2. \A y \in Mine(c, known \cup Pooled \cup tasks)' : at[y] # "idle"
    BY <1>1, <1>3 DEF Begun, Mine, Pooled, Pool!Requests
  <2> QED BY <1>3, <2>1, <2>2, SameSaid DEF Begun
<1>13. \A d \in Cast : Connections(d)' /\ Begun(d)'
  BY <1>8, <1>9, <1>11, <1>12, AsideBase
<1> QED BY <1>8, <1>9, <1>13 DEF Base

(* A cast leaves its connection, its own frames unread with it.            *)
LEMMA LeavesBase ==
    ASSUME LinkAssumption, Base, NEW c \in Cast,
           conn' = [conn EXCEPT ![c] = None], over' \in {over, over \cup {c}},
           UNCHANGED <<connecting, opened, server, board, pool>>,
           up' = up \/ (c \in over' /\ Send(c, Frame("goodbye", c))),
           DownTypes', \A d \in Cast \ {c}, k \in Conn : down'[d][k] = down[d][k],
           \A k \in Conn : down'[c][k] \in {<<>>, down[c][k]},
           at' \in [Id -> {"idle", "waiting", "running", "over", "queued", "refused", "gone"}],
           \A y \in Id : at'[y] = at[y] \/ (Of[y] = c /\ at[y] \in Wanted /\ at'[y] # "idle"),
           c \in over' => \A y \in Mine(c, Id) : at'[y] \notin Wanted,
           claimed' \subseteq {p \in Prompt : at'[p] = "waiting"},
           \A y : Of[y] # c => (y \in claimed' <=> y \in claimed)
    PROVE  Base' /\ \A d \in Cast \ {c} : Aside(d)
<1>1. Types /\ Connections(c) /\ Begun(c)
  BY DEF Base
<1>2. UNCHANGED <<connecting, opened, alive, handling, peer, tasks, queued, status, known, claims,
                  held, waiting>>
  BY DEF server, board, pool
<1>3. /\ UpTypes'
      /\ \A d \in Cast, k \in Conn : d # c => up'[d][k] = up[d][k]
      /\ \A k \in Conn : \A kind, y : Up(c, k, kind, y)' =>
            Up(c, k, kind, y) \/ (kind = "goodbye" /\ c \in over')
      /\ \A k \in Conn :
            /\ Unmet(c, k)' <=> Unmet(c, k)
            /\ k > opened[c] \/ k = connecting[c] => up'[c][k] = <<>>
            /\ \A i \in DOMAIN up'[c][k] : up'[c][k][i].kind = "hello" => i = 1
  <2> DEFINE f == Frame("goodbye", c)
  <2>1. f \in UpFrames(c) /\ f.kind # "hello" /\ \A l, y : f = Frame(l, y) => l = "goodbye"
    BY GreetingFramed, Framed
  <2>2. up' = up \/ Send(c, f)
    OBVIOUS
  <2> HIDE DEF f
  <2>3. /\ UpTypes'
        /\ \A d \in Cast, k \in Conn :
            \/ up'[d][k] = up[d][k]
            \/ d = c /\ k = conn[c] /\ up'[d][k] = Append(up[d][k], f)
        /\ \A d \in Cast, k \in Conn : \A l, y :
            Up(d, k, l, y)' => \/ Up(d, k, l, y)
                               \/ d = c /\ k = conn[c] /\ f = Frame(l, y)
        /\ \A k \in Conn :
            /\ Unmet(c, k)' <=> Unmet(c, k)
            /\ k > opened[c] \/ k = connecting[c] => up'[c][k] = <<>>
            /\ \A i \in DOMAIN up'[c][k] : up'[c][k][i].kind = "hello" => i = 1
    BY <2>1, <2>2, Wrote
  <2>4. CASE up' = up
    BY <2>3, <2>4, UpSame
  <2>5. CASE c \in over'
    BY <2>1, <2>3, <2>5
  <2> QED BY <2>4, <2>5
<1>4. conn'[c] = None /\ \A d \in Cast \ {c} : conn'[d] = conn[d] /\ (d \in over' <=> d \in over)
  BY <1>1 DEF Types
<1>5. Types'
  <2>1. conn' \in [Cast -> Nat] /\ over' \subseteq Cast
    BY <1>1 DEF Types, None
  <2> QED BY <1>1, <1>2, <1>3, <2>1 DEF Types, Pool!Requests
<1>6. \A k \in Conn : /\ down[c][k] = <<>> => down'[c][k] = <<>>
                      /\ \A kind, y : Down(c, k, kind, y)' => Down(c, k, kind, y)
  <2> TAKE k \in Conn
  <2>1. CASE down'[c][k] = down[c][k]
    BY <2>1, DownSame
  <2>2. CASE down'[c][k] = <<>>
    BY <2>2 DEF Down, Range
  <2> QED BY <2>1, <2>2
<1>7. ASSUME NEW d \in Cast \ {c} PROVE Aside(d)
  <2>1. \A y \in Mine(d, Id) : at'[y] = at[y] /\ (y \in claimed' <=> y \in claimed)
    BY DEF Mine
  <2>2. Pooled' = Pooled
    BY <1>2 DEF Pooled, Pool!Requests
  <2> QED BY <1>2, <1>3, <1>4, <2>1, <2>2, DownSame DEF Aside, Mine
<1>8. Connections(c)'
  <2>1. \A k \in Conn : Up(c, k, "goodbye", c)' => c \in over'
    BY <1>1, <1>3 DEF Connections
  <2>2. c \in over' => \A y \in Mine(c, Id)' : at'[y] \notin Wanted'
    BY SameSaid
  <2> QED BY <1>1, <1>2, <1>3, <1>4, <1>6, <2>1, <2>2 DEF Connections
<1>9. Begun(c)'
  <2>1. ASSUME NEW k \in Conn, NEW y \in Mine(c, Id)
        PROVE  /\ \A kind \in {Opener(y)} \cup Endings(y) : Up(c, k, kind, y)' => at'[y] # "idle"
               /\ \A kind \in Endings(y) : Up(c, k, kind, y)' => at'[y] \notin Wanted
               /\ \A kind \in Tellings(y) : Down(c, k, kind, y)' => at'[y] # "idle"
    <3>1. at'[y] = at[y] \/ (at[y] \in Wanted /\ at'[y] # "idle")
      BY DEF Mine
    <3>2. \A kind \in {Opener(y)} \cup Endings(y) : Up(c, k, kind, y)' => Up(c, k, kind, y)
      BY <1>3, OpenerKinds DEF Mine
    <3> QED BY <1>1, <1>6, <3>1, <3>2 DEF Begun
  <2>2. \A y \in Mine(c, known \cup Pooled \cup tasks)' : at'[y] # "idle"
    <3>1. \A y \in Mine(c, known \cup Pooled \cup tasks)' : y \in Id /\ y \in Mine(c, known \cup Pooled \cup tasks)
      BY <1>1, <1>2 DEF Mine, Pooled, Pool!Requests, Types, Id
    <3> QED BY <1>1, <3>1 DEF Begun
  <2> QED BY <2>1, <2>2, SameSaid DEF Begun
<1>10. \A d \in Cast : Connections(d)' /\ Begun(d)'
  BY <1>5, <1>7, <1>8, <1>9, AsideBase
<1> QED BY <1>5, <1>7, <1>10 DEF Base

LEMMA GoneBase ==
    ASSUME LinkAssumption, Base, NEW c \in Cast, Gone(c)
    PROVE  Base' /\ \A d \in Cast \ {c} : Aside(d)
<1>1. Types /\ conn[c] \in Conn /\ Connections(c)
  BY ConnsAre DEF Gone, Base
<1>2. /\ conn' = [conn EXCEPT ![c] = None] /\ down' = [down EXCEPT ![c][conn[c]] = <<>>]
      /\ UNCHANGED <<connecting, over, opened, up, server, board, pool>>
      /\ at' = [x \in Id |-> IF Of[x] # c \/ at[x] # "waiting" THEN at[x]
                             ELSE IF x \in Slot THEN "running"
                             ELSE IF x \in Enqueue THEN "gone" ELSE at[x]]
      /\ claimed' = claimed \ Mine(c, Prompt)
  BY DEF Gone, Detached
<1>3. /\ DownTypes' /\ \A d \in Cast \ {c}, k \in Conn : down'[d][k] = down[d][k]
      /\ \A k \in Conn : down'[c][k] \in {<<>>, down[c][k]}
  <2>1. \A d \in Cast, k \in Conn :
            down'[d][k] = IF d = c /\ k = conn[c] THEN <<>> ELSE down[d][k]
    BY <1>1, <1>2 DEF Types, DownTypes
  <2>2. /\ DOMAIN down' = Cast
        /\ \A d \in Cast : DOMAIN down'[d] = Conn /\ down'[d] = [j \in Conn |-> down'[d][j]]
    BY <1>1, <1>2 DEF Types, DownTypes
  <2>3. \A d \in Cast, k \in Conn : down'[d][k] \in Seq(DownFrames(d))
    <3>1. \A d \in Cast, k \in Conn : /\ down[d][k] \in Seq(DownFrames(d))
                                      /\ <<>> \in Seq(DownFrames(d))
      BY <1>1, EmptySeq DEF Types, DownTypes
    <3> QED BY <2>1, <3>1
  <2>4. DownTypes'
    BY <2>2, <2>3, SameFrames DEF DownTypes
  <2> QED BY <2>1, <2>4
<1>4. /\ at' \in [Id -> {"idle", "waiting", "running", "over", "queued", "refused", "gone"}]
      /\ \A y \in Id : at'[y] = at[y] \/ (Of[y] = c /\ at[y] \in Wanted /\ at'[y] # "idle")
  BY <1>1, <1>2 DEF Types, Wanted
<1>5. c \in over' => \A y \in Mine(c, Id) : at'[y] \notin Wanted
  BY <1>1, <1>2, ConnsAre DEF Connections
<1>6. /\ claimed' \subseteq {p \in Prompt : at'[p] = "waiting"}
      /\ \A y : Of[y] # c => (y \in claimed' <=> y \in claimed)
  BY <1>1, <1>2 DEF Types, Mine, Id
<1> QED BY <1>2, <1>3, <1>4, <1>5, <1>6, LeavesBase

LEMMA EndsBase ==
    ASSUME LinkAssumption, Base, NEW c \in Cast, Ends(c) \/ Dies(c)
    PROVE  Base' /\ \A d \in Cast \ {c} : Aside(d)
<1>1. Types /\ Connections(c)
  BY DEF Base
<1>2. /\ conn' = [conn EXCEPT ![c] = None] /\ over' = over \cup {c}
      /\ down' = [down EXCEPT ![c] = [k \in Conn |-> <<>>]]
      /\ UNCHANGED <<connecting, opened, server, board, pool>>
      /\ up' = up \/ Send(c, Frame("goodbye", c))
      /\ \/ UNCHANGED <<at, claimed>> /\ Open(c, Id) = {}
         \/ /\ at' = [x \in Id |-> IF x \in Open(c, Id) THEN "over" ELSE at[x]]
            /\ claimed' = claimed \ Mine(c, Prompt)
  BY DEF Ends, Dies, work
<1>3. /\ DownTypes' /\ \A d \in Cast \ {c}, k \in Conn : down'[d][k] = down[d][k]
      /\ \A k \in Conn : down'[c][k] \in {<<>>, down[c][k]}
  <2>1. \A d \in Cast, k \in Conn : down'[d][k] = IF d = c THEN <<>> ELSE down[d][k]
    BY <1>1, <1>2 DEF Types, DownTypes
  <2>2. /\ DOMAIN down' = Cast
        /\ \A d \in Cast : DOMAIN down'[d] = Conn /\ down'[d] = [j \in Conn |-> down'[d][j]]
    BY <1>1, <1>2 DEF Types, DownTypes
  <2>3. \A d \in Cast, k \in Conn : down'[d][k] \in Seq(DownFrames(d))
    <3>1. \A d \in Cast, k \in Conn : /\ down[d][k] \in Seq(DownFrames(d))
                                      /\ <<>> \in Seq(DownFrames(d))
      BY <1>1, EmptySeq DEF Types, DownTypes
    <3> QED BY <2>1, <3>1
  <2>4. DownTypes'
    BY <2>2, <2>3, SameFrames DEF DownTypes
  <2> QED BY <2>1, <2>4
<1>4. /\ at' \in [Id -> {"idle", "waiting", "running", "over", "queued", "refused", "gone"}]
      /\ \A y \in Id : at'[y] = at[y] \/ (Of[y] = c /\ at[y] \in Wanted /\ at'[y] # "idle")
      /\ \A y \in Mine(c, Id) : at'[y] \notin Wanted
      /\ claimed' \subseteq {p \in Prompt : at'[p] = "waiting"}
      /\ \A y : Of[y] # c => (y \in claimed' <=> y \in claimed)
  <2>1. \A y \in Mine(c, Id) : y \in Open(c, Id) <=> at[y] \in Wanted
    BY DEF Open, Mine, Wanted
  <2>2. CASE UNCHANGED <<at, claimed>> /\ Open(c, Id) = {}
    BY <1>1, <2>1, <2>2 DEF Types
  <2>3. CASE /\ at' = [x \in Id |-> IF x \in Open(c, Id) THEN "over" ELSE at[x]]
             /\ claimed' = claimed \ Mine(c, Prompt)
    <3>1. \A y \in Id : at'[y] = IF Of[y] = c /\ at[y] \in Wanted THEN "over" ELSE at[y]
      BY <2>1, <2>3 DEF Mine, Open, Wanted
    <3>2. at' \in [Id -> {"idle", "waiting", "running", "over", "queued", "refused", "gone"}]
      BY <1>1, <2>3 DEF Types
    <3>3. \A y \in Mine(c, Id) : at'[y] \notin Wanted
      BY <3>1 DEF Mine, Wanted
    <3>4. claimed' \subseteq {p \in Prompt : at'[p] = "waiting"}
      BY <1>1, <2>3, <3>1 DEF Types, Mine, Id
    <3>5. \A y : Of[y] # c => (y \in claimed' <=> y \in claimed)
      BY <2>3 DEF Mine
    <3> QED BY <3>1, <3>2, <3>3, <3>4, <3>5
  <2> QED BY <1>2, <2>2, <2>3
<1>5. c \in over'
  BY <1>2
<1> QED BY <1>2, <1>3, <1>4, <1>5, LeavesBase

-----------------------------------------------------------------------------
(* The daemon's end: it reads of a connection, or loses what is unread.    *)

Quiets(c, k) ==
    \/ up' = up
    \/ k \in Conn /\ up[c][k] # <<>> /\ Heard(c, k)
    \/ k \in Conn /\ up' = [up EXCEPT ![c][k] = <<>>]

LEMMA Quieted ==
    ASSUME LinkAssumption, Base, NEW c \in Cast, NEW k, Quiets(c, k)
    PROVE  /\ UpTypes'
           /\ \A d \in Cast, j \in Conn : d # c \/ j # k => up'[d][j] = up[d][j]
           /\ \A j \in Conn : \A kind, x : Up(c, j, kind, x)' => Up(c, j, kind, x)
           /\ \A j \in Conn : up[c][j] = <<>> => up'[c][j] = <<>>
           /\ \A j \in Conn : \A i \in DOMAIN up'[c][j] : up'[c][j][i].kind = "hello" => i = 1
           /\ up'[c][k] = up[c][k] \/ ~Unmet(c, k)'
<1>1. Types /\ Connections(c)
  BY DEF Base
<1>2. CASE up' = up
  <2>1. UpTypes'
    BY <1>1, <1>2, SameFrames DEF Types, UpTypes
  <2> QED BY <1>1, <1>2, <2>1, UpSame DEF Connections
<1>3. CASE k \in Conn /\ up[c][k] # <<>> /\ Heard(c, k)
  <2>1. /\ UpTypes'
        /\ \A d \in Cast, j \in Conn :
            up'[d][j] = IF d = c /\ j = k THEN Tail(up[d][j]) ELSE up[d][j]
        /\ \A d \in Cast, j \in Conn : \A kind, x :
            Up(d, j, kind, x) <=> \/ Up(d, j, kind, x)'
                                  \/ d = c /\ j = k /\ Head(up[c][k]) = Frame(kind, x)
    BY <1>1, <1>3, HeardUp
  <2>2. up[c][k] \in Seq(UpFrames(c)) /\ up'[c][k] = Tail(up[c][k])
    BY <1>1, <1>3, <2>1 DEF Types, UpTypes
  <2>3. \A i \in DOMAIN up'[c][k] : i + 1 \in DOMAIN up[c][k] /\ up'[c][k][i] = up[c][k][i + 1]
                                    /\ i \in Nat \ {0}
    BY <1>3, <2>2, Tailed
  <2>4. \A i \in DOMAIN up'[c][k] : up'[c][k][i].kind # "hello"
    <3>1. \A i \in DOMAIN up[c][k] : up[c][k][i].kind = "hello" => i = 1
      BY <1>1, <1>3 DEF Connections
    <3>2. \A i \in DOMAIN up'[c][k] : i + 1 # 1
      BY <2>3
    <3> QED BY <2>3, <3>1, <3>2
  <2>5. ~Unmet(c, k)'
    <3>1. Unmet(c, k)' <=> Frame("hello", c) \in Range(up'[c][k])
      BY DEF Unmet, Up, Frame
    <3> QED BY <2>4, <3>1, Framed DEF Range
  <2>6. \A j \in Conn : \A i \in DOMAIN up'[c][j] : up'[c][j][i].kind = "hello" => i = 1
    BY <1>1, <2>1, <2>4 DEF Connections
  <2>7. \A j \in Conn : \A kind, x : Up(c, j, kind, x)' => Up(c, j, kind, x)
    BY <2>1
  <2> QED BY <1>3, <2>1, <2>5, <2>6, <2>7
<1>4. CASE k \in Conn /\ up' = [up EXCEPT ![c][k] = <<>>]
  <2>1. \A d \in Cast, j \in Conn : up'[d][j] = IF d = c /\ j = k THEN <<>> ELSE up[d][j]
    BY <1>1, <1>4 DEF Types, UpTypes
  <2>2. UpTypes'
    <3>1. /\ DOMAIN up' = Cast
          /\ \A d \in Cast : DOMAIN up'[d] = Conn /\ up'[d] = [j \in Conn |-> up'[d][j]]
      BY <1>1, <1>4 DEF Types, UpTypes
    <3>2. \A d \in Cast, j \in Conn : /\ up[d][j] \in Seq(UpFrames(d))
                                      /\ <<>> \in Seq(UpFrames(d))
      BY <1>1, EmptySeq DEF Types, UpTypes
    <3> QED BY <2>1, <3>1, <3>2, SameFrames DEF UpTypes
  <2>3. \A kind, x : ~Up(c, k, kind, x)'
    BY <1>4, <2>1 DEF Up, Frame, Range
  <2>4. \A j \in Conn : \A kind, x : Up(c, j, kind, x)' => Up(c, j, kind, x)
    BY <2>1, <2>3, UpSame
  <2>5. ~Unmet(c, k)'
    BY <2>3 DEF Unmet
  <2>6. \A j \in Conn : \A i \in DOMAIN up'[c][j] : up'[c][j][i].kind = "hello" => i = 1
    BY <1>1, <2>1 DEF Connections
  <2> QED BY <2>1, <2>2, <2>4, <2>5, <2>6
<1> QED BY <1>2, <1>3, <1>4 DEF Quiets

LEMMA DaemonBase ==
    ASSUME LinkAssumption, Base, NEW c \in Cast, NEW k, Quiets(c, k),
           UNCHANGED <<work, ends>>,
           \/ down' = down /\ held' = held
           \/ TellGrants
           \/ held' = held /\ \E x \in Mine(c, Id) : \E kind \in Tellings(x) :
                at[x] # "idle" /\ Tell(c, peer[c], Frame(kind, x)),
           handling' \in [Cast -> SUBSET Conn], handling'[c] \subseteq handling[c],
           peer' \in [Cast -> Nat],
           status' \in [Cast -> {"none", "running", "disconnected", "ended"}],
           \A d \in Cast \ {c} : /\ handling'[d] = handling[d] /\ peer'[d] = peer[d]
                                 /\ status'[d] = status[d],
           peer'[c] \in handling'[c] \cup {None},
           peer'[c] \in {None, peer[c]} \/ (peer'[c] = k /\ up'[c][k] # up[c][k]),
           known' \subseteq Prompt \cup Await, claims' \subseteq known' \cap Prompt, tasks' \subseteq Enqueue,
           queued' \in [Enqueue -> Nat], held' \subseteq Slot, Pool!Requests(waiting') \subseteq Slot,
           \A y \in Id : Of[y] # c =>
                /\ y \in known' <=> y \in known
                /\ y \in claims' <=> y \in claims
                /\ y \in tasks' <=> y \in tasks
                /\ y \in Pooled' <=> y \in Pooled
                /\ y \in held => y \in held'
                /\ y \in Enqueue => queued'[y] = queued[y],
           \A y \in Mine(c, known' \cup Pooled' \cup tasks') : at[y] # "idle"
    PROVE  Base' /\ \A d \in Cast \ {c} : Aside(d)
<1>1. Types /\ Connections(c) /\ Begun(c) /\ peer[c] \in Conn \cup {None}
  BY ConnsAre DEF Base
<1>2. /\ UpTypes'
      /\ \A d \in Cast, j \in Conn : d # c \/ j # k => up'[d][j] = up[d][j]
      /\ \A j \in Conn : \A kind, x : Up(c, j, kind, x)' => Up(c, j, kind, x)
      /\ \A j \in Conn : up[c][j] = <<>> => up'[c][j] = <<>>
      /\ \A j \in Conn : \A i \in DOMAIN up'[c][j] : up'[c][j][i].kind = "hello" => i = 1
      /\ up'[c][k] = up[c][k] \/ ~Unmet(c, k)'
  BY Quieted
<1>3. UNCHANGED <<at, claimed, conn, connecting, over, opened>>
  BY DEF work, ends
<1>4. /\ DownTypes'
      /\ \A d \in Cast, j \in Conn :
            \/ down'[d][j] = down[d][j]
            \/ d = c /\ j = peer[c]
            \/ /\ j = peer[d] /\ d \notin over
               /\ ToldGrants(d, j)
      /\ \A d \in Cast \ {c}, j \in Conn : \A kind, x :
            Down(d, j, kind, x)' <=>
                \/ Down(d, j, kind, x)
                \/ j = peer[d] /\ d \notin over /\ kind = "granted" /\ x \in Mine(d, held' \ held)
      /\ \A j \in Conn : \A kind, x :
            Down(c, j, kind, x)' => Down(c, j, kind, x) \/ at[x] # "idle"
  <2>1. CASE down' = down /\ held' = held
    <3>1. DownTypes'
      BY <1>1, <2>1, SameFrames DEF Types, DownTypes
    <3>2. \A d \in Cast, j \in Conn : \A kind, x : Down(d, j, kind, x)' <=> Down(d, j, kind, x)
      BY <2>1, DownSame
    <3>3. \A d : Mine(d, held' \ held) = {}
      BY <2>1 DEF Mine
    <3> QED BY <2>1, <3>1, <3>2, <3>3
  <2>2. CASE TellGrants
    <3>1. /\ DownTypes'
          /\ \A d \in Cast, j \in Conn :
                \/ down'[d][j] = down[d][j]
                \/ /\ j = peer[d] /\ d \notin over
                   /\ ToldGrants(d, j)
          /\ \A d \in Cast, j \in Conn : \A kind, x :
                Down(d, j, kind, x)' <=>
                    \/ Down(d, j, kind, x)
                    \/ j = peer[d] /\ d \notin over /\ kind = "granted" /\ x \in Mine(d, held' \ held)
      BY <1>1, <2>2, GrantsTold
    <3>2. \A x \in Mine(c, held' \ held) : at[x] # "idle"
      BY DEF Pooled, Mine
    <3>3. \A j \in Conn : \A kind, x : Down(c, j, kind, x)' => Down(c, j, kind, x) \/ at[x] # "idle"
      BY <3>1, <3>2
    <3>4. \A d \in Cast, j \in Conn :
            \/ down'[d][j] = down[d][j]
            \/ d = c /\ j = peer[c]
            \/ /\ j = peer[d] /\ d \notin over
               /\ ToldGrants(d, j)
      BY <3>1
    <3> QED BY <3>1, <3>3, <3>4
  <2>3. CASE held' = held /\ \E x \in Mine(c, Id) : \E kind \in Tellings(x) :
                at[x] # "idle" /\ Tell(c, peer[c], Frame(kind, x))
    <3>1. PICK x \in Mine(c, Id) : \E kind \in Tellings(x) :
                at[x] # "idle" /\ Tell(c, peer[c], Frame(kind, x))
      BY <2>3
    <3>2. PICK kind \in Tellings(x) : at[x] # "idle" /\ Tell(c, peer[c], Frame(kind, x))
      BY <3>1
    <3> DEFINE f == Frame(kind, x)
    <3>3. f \in DownFrames(c) /\ Tell(c, peer[c], f) /\ \A l, y : f = Frame(l, y) => y = x
      BY <3>2, DownFramed, Framed
    <3> HIDE DEF f
    <3>4. /\ DownTypes'
          /\ \A d \in Cast, j \in Conn :
                down'[d][j] = IF d = c /\ j = peer[c] /\ c \notin over
                              THEN Append(down[d][j], f) ELSE down[d][j]
          /\ \A d \in Cast, j \in Conn : \A l, y :
                Down(d, j, l, y)' <=>
                    \/ Down(d, j, l, y)
                    \/ d = c /\ j = peer[c] /\ c \notin over /\ f = Frame(l, y)
      BY <1>1, <3>3, Told
    <3>5. \A d : Mine(d, held' \ held) = {}
      BY <2>3 DEF Mine
    <3>6. \A j \in Conn : \A l, y : Down(c, j, l, y)' => Down(c, j, l, y) \/ at[y] # "idle"
      BY <3>2, <3>3, <3>4
    <3>7. \A d \in Cast, j \in Conn : down'[d][j] = down[d][j] \/ (d = c /\ j = peer[c])
      BY <3>4
    <3>8. \A d \in Cast \ {c}, j \in Conn : \A l, y : Down(d, j, l, y)' <=> Down(d, j, l, y)
      BY <3>4
    <3>9. \A d \in Cast \ {c}, j \in Conn : \A l, y :
            Down(d, j, l, y)' <=>
                \/ Down(d, j, l, y)
                \/ j = peer[d] /\ d \notin over /\ l = "granted" /\ y \in Mine(d, held' \ held)
      BY <3>5, <3>8
    <3> HIDE DEF f
    <3>10. DownTypes'
      BY <3>4
    <3>11. \A d \in Cast, j \in Conn :
            \/ down'[d][j] = down[d][j]
            \/ d = c /\ j = peer[c]
            \/ /\ j = peer[d] /\ d \notin over
               /\ ToldGrants(d, j)
      BY <3>7
    <3> QED BY <3>6, <3>9, <3>10, <3>11
  <2> QED BY <2>1, <2>2, <2>3
<1>5. Types'
  BY <1>1, <1>2, <1>3, <1>4 DEF Types
<1>6. ASSUME NEW d \in Cast \ {c} PROVE Aside(d)
  <2>1. /\ conn'[d] = conn[d] /\ connecting'[d] = connecting[d] /\ opened'[d] = opened[d]
        /\ peer'[d] = peer[d] /\ handling'[d] = handling[d] /\ status'[d] = status[d]
        /\ d \in over' <=> d \in over
    BY <1>3
  <2>2. \A x \in Mine(d, Id) :
            /\ at'[x] = at[x]
            /\ x \in claimed' <=> x \in claimed
            /\ x \in known' <=> x \in known
            /\ x \in claims' <=> x \in claims
            /\ x \in tasks' <=> x \in tasks
            /\ x \in Pooled' <=> x \in Pooled
            /\ x \in held => x \in held'
    BY <1>3 DEF Mine
  <2>3. \A e \in Mine(d, Enqueue) : queued'[e] = queued[e]
    BY DEF Mine, Id
  <2>4. \A j \in Conn : up'[d][j] = up[d][j]
    BY <1>2
  <2>5. \A j \in Conn :
        \/ down'[d][j] = down[d][j]
        \/ /\ j = peer[d] /\ d \notin over
           /\ ToldGrants(d, j)
    BY <1>4
  <2> QED BY <1>4, <2>1, <2>2, <2>3, <2>4, <2>5 DEF Aside
<1>7. Connections(c)'
  <2>1. \A j \in Conn : Unmet(c, j)' => Unmet(c, j)
    BY <1>2 DEF Unmet
  <2>2. \A j \in Conn : j > opened[c] \/ j = connecting[c] => up'[c][j] = <<>>
    BY <1>1, <1>2 DEF Connections
  <2>3. ASSUME NEW j \in Conn, j > opened[c] \/ j = connecting[c] \/ Unmet(c, j)'
        PROVE  down'[c][j] = <<>> /\ peer'[c] # j
    <3>1. down[c][j] = <<>> /\ peer[c] # j
      BY <1>1, <2>1, <2>3 DEF Connections
    <3>2. j # None
      BY ConnsAre
    <3>3. ~(j = k /\ up'[c][k] # up[c][k])
      <4>1. j > opened[c] \/ j = connecting[c] => up[c][j] = <<>>
        BY <1>1 DEF Connections
      <4> QED BY <1>2, <2>3, <4>1
    <3> QED BY <1>4, <3>1, <3>2, <3>3
  <2>4. \A j \in Conn : Up(c, j, "goodbye", c)' => c \in over
    BY <1>1, <1>2 DEF Connections
  <2>5. c \in over => conn[c] = None /\ \A y \in Mine(c, Id)' : at'[y] \notin Wanted'
    BY <1>1, <1>3, SameSaid DEF Connections
  <2> QED BY <1>1, <1>2, <1>3, <2>2, <2>3, <2>4, <2>5 DEF Connections
<1>8. Begun(c)'
  <2>1. ASSUME NEW j \in Conn, NEW y \in Mine(c, Id)
        PROVE  /\ \A kind \in {Opener(y)} \cup Endings(y) : Up(c, j, kind, y)' => at[y] # "idle"
               /\ \A kind \in Endings(y) : Up(c, j, kind, y)' => at[y] \notin Wanted
               /\ \A kind \in Tellings(y) : Down(c, j, kind, y)' => at[y] # "idle"
    BY <1>1, <1>2, <1>4 DEF Begun
  <2>2. \A y \in Mine(c, known \cup Pooled \cup tasks)' : at'[y] # "idle"
    BY <1>3 DEF Mine, Pooled
  <2> QED BY <1>3, <2>1, <2>2, SameSaid DEF Begun
<1>9. \A d \in Cast : Connections(d)' /\ Begun(d)'
  BY <1>5, <1>6, <1>7, <1>8, AsideBase
<1> QED BY <1>5, <1>6, <1>9 DEF Base

(* What a goodbye takes of a cast, and the frames that are read.           *)
LEMMA GoodbyeTakes ==
    ASSUME LinkAssumption, Base, NEW c \in Cast, NEW k \in Conn, NEW as \in {"ended", "disconnected"},
           Goodbye(c, as), Handled(c, k), CloseCast(c, k)
    PROVE  /\ TellGrants
           /\ handling' \in [Cast -> SUBSET Conn] /\ handling'[c] = handling[c] \ {k}
           /\ peer' \in [Cast -> Nat] /\ peer'[c] = IF peer[c] = k THEN None ELSE peer[c]
           /\ status' \in [Cast -> {"none", "running", "disconnected", "ended"}]
           /\ status'[c] # "running"
           /\ \A d \in Cast \ {c} : /\ handling'[d] = handling[d] /\ peer'[d] = peer[d]
                                    /\ status'[d] = status[d]
           /\ peer'[c] \in handling'[c] \cup {None}
           /\ known' = known \ Mine(c, Id) /\ claims' = claims \ Mine(c, Id)
           /\ held \ Mine(c, Slot) \subseteq held' /\ Pooled' = Pooled \ Mine(c, Slot)
           /\ held' \subseteq Slot /\ Pool!Requests(waiting') \subseteq Slot
<1>1. Types /\ Connections(c)
  BY DEF Base
<1>2. /\ handling' = [handling EXCEPT ![c] = @ \ {k}]
      /\ peer' = [peer EXCEPT ![c] = IF @ = k THEN None ELSE @]
      /\ status' = [status EXCEPT ![c] = IF @ = "none" THEN @ ELSE as]
      /\ known' = known \ Mine(c, known) /\ claims' = claims \ Mine(c, claims)
      /\ Pool!Ended(c) /\ TellGrants
  BY DEF Goodbye, Handled, CloseCast
<1>3. /\ held \ Mine(c, Slot) \subseteq held' /\ Pooled' = Pooled \ Mine(c, Slot)
  BY <1>1, <1>2, PoolMoves
<1>4. held' \subseteq Slot /\ Pool!Requests(waiting') \subseteq Slot
  <2>1. Pooled' = held' \cup Pool!Requests(waiting')
    BY DEF Pooled, Pool!Requests
  <2> QED BY <1>1, <1>3, <2>1 DEF Pooled, Types
<1>5. /\ handling' \in [Cast -> SUBSET Conn] /\ handling'[c] = handling[c] \ {k}
      /\ peer' \in [Cast -> Nat] /\ peer'[c] = IF peer[c] = k THEN None ELSE peer[c]
      /\ \A d \in Cast \ {c} : handling'[d] = handling[d] /\ peer'[d] = peer[d]
  BY <1>1, <1>2 DEF Types, None
<1>6. /\ status' \in [Cast -> {"none", "running", "disconnected", "ended"}]
      /\ status'[c] # "running" /\ \A d \in Cast \ {c} : status'[d] = status[d]
  BY <1>1, <1>2 DEF Types
<1>7. peer'[c] \in handling'[c] \cup {None}
  BY <1>1, <1>5 DEF Connections
<1>8. known' = known \ Mine(c, Id) /\ claims' = claims \ Mine(c, Id)
  BY <1>1, <1>2 DEF Types, Mine, Id
<1> QED BY <1>2, <1>3, <1>4, <1>5, <1>6, <1>7, <1>8

LEMMA ReadsWhat ==
    ASSUME LinkAssumption, Base, NEW c \in Cast, NEW k \in Conn, Reads(c, k)
    PROVE  LET f == Head(up[c][k])
               x == f.about
           IN  /\ k \in handling[c] /\ up[c][k] # <<>> /\ Heard(c, k) /\ UNCHANGED <<work, ends>>
               /\ f \in UpFrames(c) /\ f = Frame(f.kind, x) /\ Up(c, k, f.kind, x)
               /\ up'[c][k] = Tail(up[c][k]) /\ up'[c][k] # up[c][k]
               /\ \/ f.kind = "hello" /\ x = c /\ ReadsHello(c, k)
                  \/ f.kind = "goodbye" /\ x = c /\ ReadsGoodbye(c, k)
                  \/ /\ x \in Mine(c, Prompt \cup Await) /\ at[x] # "idle"
                     /\ f.kind = Opener(x) \/ f.kind \in Endings(x)
                     /\ IF f.kind = Opener(x)
                        THEN known' = known \cup {x} /\ UNCHANGED claims
                        ELSE known' = known \ {x} /\ claims' = claims \ {x}
                     /\ UNCHANGED <<down, server, status, pool, faults>>
                  \/ /\ x \in Mine(c, Slot) /\ at[x] # "idle"
                     /\ f.kind = Opener(x) \/ f.kind \in Endings(x)
                     /\ IF f.kind = Opener(x) THEN Pool!Requested(x) ELSE Pool!Released(x)
                     /\ TellGrants /\ UNCHANGED <<server, board, faults>>
                  \/ /\ x \in Mine(c, Enqueue) /\ at[x] # "idle" /\ f.kind = "enqueue"
                     /\ ReadsEnqueue(c, k, x)
<1> DEFINE f == Head(up[c][k])
           x == f.about
<1>1. Types /\ Begun(c) /\ k \in handling[c] /\ up[c][k] # <<>>
  BY DEF Base, Reads
<1>2. \/ f.kind = "hello" /\ ReadsHello(c, k)
      \/ f.kind = "goodbye" /\ ReadsGoodbye(c, k)
      \/ /\ f.kind \in {"asked", "resolved", "withdrawn", "awaits", "awaitWithdrawn"}
         /\ ReadsBoard(c, k, f)
      \/ f.kind \in SlotFrames /\ ReadsSlot(c, k, f)
      \/ f.kind = "enqueue" /\ ReadsEnqueue(c, k, x)
  BY DEF Reads
<1>3. Heard(c, k) /\ UNCHANGED <<work, ends>>
  BY <1>2 DEF ReadsHello, ReadsGoodbye, ReadsBoard, ReadsSlot, ReadsEnqueue
<1>4. up[c][k] \in Seq(UpFrames(c))
  BY <1>1 DEF Types, UpTypes
<1>5. /\ f \in UpFrames(c) /\ f \in Range(up[c][k])
      /\ up'[c][k] = Tail(up[c][k]) /\ up'[c][k] # up[c][k]
  <2>1. Tail(up[c][k]) # up[c][k]
    <3>1. Len(up[c][k]) \in Nat /\ Len(Tail(up[c][k])) = Len(up[c][k]) - 1
      BY <1>1, <1>4, HeadTailProperties, LenProperties
    <3>2. Len(Tail(up[c][k])) # Len(up[c][k])
      BY <3>1
    <3> QED BY <3>2
  <2>2. up'[c][k] = Tail(up[c][k])
    BY <1>1, <1>3, HeardUp
  <2> QED BY <1>1, <1>4, <2>1, <2>2, Tailed
<1>6. /\ f = Frame(f.kind, x)
      /\ \/ f.kind \in {"hello", "goodbye"} /\ x = c
         \/ /\ x \in Id /\ Of[x] = c /\ f.kind \notin {"hello", "goodbye"}
            /\ f.kind = Opener(x) \/ f.kind \in Endings(x)
  BY <1>5, UpFrameIs
<1>7. Up(c, k, f.kind, x)
  BY <1>5, <1>6 DEF Up
<1> HIDE DEF f, x
<1>8. CASE f.kind \in {"hello", "goodbye"}
  BY <1>1, <1>2, <1>3, <1>5, <1>6, <1>7, <1>8 DEF f, x, SlotFrames
<1>9. CASE x \in Id /\ Of[x] = c /\ (f.kind = Opener(x) \/ f.kind \in Endings(x))
  <2>1. at[x] # "idle"
    BY <1>1, <1>7, <1>9 DEF Begun, Mine
  <2>2. CASE x \in Prompt \cup Await
    <3>1. /\ f.kind \in {"asked", "resolved", "withdrawn", "awaits", "awaitWithdrawn"}
          /\ f.kind = Opener(x) <=> f.kind \in {"asked", "awaits"}
      BY <1>9, <2>2, KindsOf
    <3>2. ReadsBoard(c, k, f)
      BY <1>2, <3>1 DEF SlotFrames
    <3>3. /\ IF f.kind = Opener(x)
             THEN known' = known \cup {x} /\ UNCHANGED claims
             ELSE known' = known \ {x} /\ claims' = claims \ {x}
          /\ UNCHANGED <<down, server, status, pool, faults>>
      BY <3>1, <3>2 DEF ReadsBoard, x
    <3> QED BY <1>1, <1>3, <1>5, <1>6, <1>7, <1>9, <2>1, <2>2, <3>3 DEF f, x, Mine
  <2>3. CASE x \in Slot
    <3>1. f.kind \in {"slot", "released"} /\ (f.kind = Opener(x) <=> f.kind = "slot")
      BY <1>9, <2>3, KindsOf
    <3>2. ReadsSlot(c, k, f)
      BY <1>2, <3>1 DEF SlotFrames
    <3>3. /\ IF f.kind = Opener(x) THEN Pool!Requested(x) ELSE Pool!Released(x)
          /\ TellGrants /\ UNCHANGED <<server, board, faults>>
      BY <3>1, <3>2 DEF ReadsSlot, x
    <3> QED BY <1>1, <1>3, <1>5, <1>6, <1>7, <1>9, <2>1, <2>3, <3>3 DEF f, x, Mine
  <2>4. CASE x \in Enqueue
    <3>1. f.kind = "enqueue"
      BY <1>9, <2>4, KindsOf
    <3>2. ReadsEnqueue(c, k, x)
      BY <1>2, <3>1 DEF SlotFrames
    <3> QED BY <1>1, <1>3, <1>5, <1>6, <1>7, <1>9, <2>1, <2>4, <3>1, <3>2 DEF f, x, Mine
  <2> QED BY <1>9, <2>2, <2>3, <2>4, KindsOf
<1> QED BY <1>6, <1>8, <1>9

LEMMA ReadsBase ==
    ASSUME LinkAssumption, Base, NEW c \in Cast, NEW k \in Conn, Reads(c, k)
    PROVE  Base' /\ \A d \in Cast \ {c} : Aside(d)
<1> DEFINE f == Head(up[c][k])
           x == f.about
<1>1. /\ Types /\ Connections(c) /\ Begun(c)
      /\ \A y \in Id : Of[y] # c => y \notin Mine(c, Id)
      /\ \A y \in Mine(c, known \cup Pooled \cup tasks) : at[y] # "idle"
  BY DEF Base, Mine, Begun
<1>2. /\ k \in handling[c] /\ up[c][k] # <<>> /\ Heard(c, k) /\ UNCHANGED <<work, ends>>
      /\ up'[c][k] # up[c][k]
      /\ \/ ReadsHello(c, k)
         \/ ReadsGoodbye(c, k)
         \/ /\ x \in Mine(c, Prompt \cup Await) /\ at[x] # "idle"
            /\ \/ known' = known \cup {x} /\ UNCHANGED claims
               \/ known' = known \ {x} /\ claims' = claims \ {x}
            /\ UNCHANGED <<down, server, status, pool, faults>>
         \/ /\ x \in Mine(c, Slot) /\ at[x] # "idle"
            /\ Pool!Requested(x) \/ Pool!Released(x)
            /\ TellGrants /\ UNCHANGED <<server, board, faults>>
         \/ x \in Mine(c, Enqueue) /\ at[x] # "idle" /\ ReadsEnqueue(c, k, x)
  BY ReadsWhat
<1> HIDE DEF x
<1>3. Quiets(c, k)
  BY <1>2 DEF Quiets
<1>4. CASE ReadsHello(c, k)
  <2>1. /\ peer' = [peer EXCEPT ![c] = k] /\ status' = [status EXCEPT ![c] = "running"]
        /\ known' = known \ Mine(c, known) /\ claims' = claims \ Mine(c, claims)
        /\ UNCHANGED <<down, handling, tasks, queued, held, waiting>>
    BY <1>4 DEF ReadsHello, pool
  <2>2. k \in Nat
    BY ConnsAre
  <2>3. /\ peer' \in [Cast -> Nat] /\ peer'[c] = k
        /\ status' \in [Cast -> {"none", "running", "disconnected", "ended"}]
        /\ \A d \in Cast \ {c} : peer'[d] = peer[d] /\ status'[d] = status[d]
    BY <1>1, <2>1, <2>2 DEF Types
  <2>4. /\ known' \subseteq Prompt \cup Await /\ claims' \subseteq known' \cap Prompt
        /\ \A y \in Id : Of[y] # c => /\ y \in known' <=> y \in known
                                      /\ y \in claims' <=> y \in claims
    BY <1>1, <2>1 DEF Types, Mine
  <2>5. /\ Pooled' = Pooled /\ Pool!Requests(waiting') = Pool!Requests(waiting)
        /\ Pooled' = held' \cup Pool!Requests(waiting')
    BY <2>1 DEF Pooled, Pool!Requests
  <2>6. \A y \in Mine(c, known' \cup Pooled' \cup tasks') : at[y] # "idle"
    BY <1>1, <2>1, <2>5 DEF Mine
  <2>7. /\ held' \subseteq Slot /\ Pool!Requests(waiting') \subseteq Slot
        /\ tasks' \subseteq Enqueue /\ queued' \in [Enqueue -> Nat]
        /\ handling' \in [Cast -> SUBSET Conn] /\ handling'[c] \subseteq handling[c]
        /\ \A d \in Cast \ {c} : handling'[d] = handling[d]
        /\ peer'[c] \in handling'[c] \cup {None}
    BY <1>1, <1>2, <2>1, <2>3, <2>5 DEF Types
  <2>8. \A y \in Id : Of[y] # c =>
                /\ y \in known' <=> y \in known
                /\ y \in claims' <=> y \in claims
                /\ y \in tasks' <=> y \in tasks
                /\ y \in Pooled' <=> y \in Pooled
                /\ y \in held => y \in held'
                /\ y \in Enqueue => queued'[y] = queued[y]
    BY <2>1, <2>4, <2>5
  <2> QED BY <1>2, <1>3, <2>1, <2>3, <2>4, <2>6, <2>7, <2>8, DaemonBase
<1>5. CASE ReadsGoodbye(c, k)
  <2>1. Goodbye(c, "ended") /\ Handled(c, k) /\ CloseCast(c, k) /\ UNCHANGED <<tasks, queued>>
    BY <1>5 DEF ReadsGoodbye
  <2>2. /\ TellGrants
        /\ handling' \in [Cast -> SUBSET Conn] /\ handling'[c] = handling[c] \ {k}
        /\ peer' \in [Cast -> Nat] /\ peer'[c] = IF peer[c] = k THEN None ELSE peer[c]
        /\ status' \in [Cast -> {"none", "running", "disconnected", "ended"}]
        /\ \A d \in Cast \ {c} : /\ handling'[d] = handling[d] /\ peer'[d] = peer[d]
                                 /\ status'[d] = status[d]
        /\ peer'[c] \in handling'[c] \cup {None}
        /\ known' = known \ Mine(c, Id) /\ claims' = claims \ Mine(c, Id)
        /\ held \ Mine(c, Slot) \subseteq held' /\ Pooled' = Pooled \ Mine(c, Slot)
        /\ held' \subseteq Slot /\ Pool!Requests(waiting') \subseteq Slot
    BY <2>1, GoodbyeTakes
  <2>3. /\ known' \subseteq Prompt \cup Await /\ claims' \subseteq known' \cap Prompt
        /\ tasks' \subseteq Enqueue /\ queued' \in [Enqueue -> Nat]
        /\ handling'[c] \subseteq handling[c] /\ peer'[c] \in {None, peer[c]}
    BY <1>1, <2>1, <2>2 DEF Types
  <2>4. \A y \in Id : Of[y] # c =>
                /\ y \in known' <=> y \in known
                /\ y \in claims' <=> y \in claims
                /\ y \in tasks' <=> y \in tasks
                /\ y \in Pooled' <=> y \in Pooled
                /\ y \in held => y \in held'
                /\ y \in Enqueue => queued'[y] = queued[y]
    BY <2>1, <2>2 DEF Mine
  <2>5. \A y \in Mine(c, known' \cup Pooled' \cup tasks') : at[y] # "idle"
    <3>1. Pooled' = held' \cup Pool!Requests(waiting')
      BY DEF Pooled, Pool!Requests
    <3> QED BY <1>1, <2>1, <2>2, <3>1 DEF Mine
  <2> QED BY <1>2, <1>3, <2>2, <2>3, <2>4, <2>5, DaemonBase
<1>6. CASE /\ x \in Mine(c, Prompt \cup Await) /\ at[x] # "idle"
           /\ \/ known' = known \cup {x} /\ UNCHANGED claims
              \/ known' = known \ {x} /\ claims' = claims \ {x}
           /\ UNCHANGED <<down, server, status, pool, faults>>
  <2>1. UNCHANGED <<down, handling, peer, tasks, queued, status, held, waiting>>
    BY <1>6 DEF server, pool
  <2>2. /\ Pooled' = Pooled /\ Pool!Requests(waiting') = Pool!Requests(waiting)
        /\ Pooled' = held' \cup Pool!Requests(waiting')
    BY <2>1 DEF Pooled, Pool!Requests
  <2>3. x \in Prompt \cup Await /\ Of[x] = c
    BY <1>6 DEF Mine
  <2>4. /\ known' \subseteq Prompt \cup Await /\ claims' \subseteq known' \cap Prompt
        /\ \A y \in Id : Of[y] # c => /\ y \in known' <=> y \in known
                                      /\ y \in claims' <=> y \in claims
    BY <1>1, <1>6, <2>3 DEF Types
  <2>5. \A y \in Mine(c, known' \cup Pooled' \cup tasks') : at[y] # "idle"
    BY <1>1, <1>6, <2>1, <2>2 DEF Mine
  <2>6. peer[c] \in handling[c] \cup {None}
    BY <1>1 DEF Connections
  <2> QED BY <1>1, <1>2, <1>3, <2>1, <2>2, <2>4, <2>5, <2>6, DaemonBase DEF Types
<1>7. CASE /\ x \in Mine(c, Slot) /\ at[x] # "idle"
           /\ Pool!Requested(x) \/ Pool!Released(x)
           /\ TellGrants /\ UNCHANGED <<server, board, faults>>
  <2>1. UNCHANGED <<handling, peer, tasks, queued, status, known, claims>>
    BY <1>7 DEF server, board
  <2>2. x \in Slot /\ Of[x] = c
    BY <1>7 DEF Mine
  <2>3. held \ {x} \subseteq held' /\ (Pooled' = Pooled \cup {x} \/ Pooled' = Pooled \ {x})
    BY <1>1, <1>7, <2>2, PoolMoves
  <2>4. Pooled' = held' \cup Pool!Requests(waiting') /\ Pooled \subseteq Slot
    BY <1>1 DEF Pooled, Pool!Requests, Types
  <2>5. held' \subseteq Slot /\ Pool!Requests(waiting') \subseteq Slot
    BY <2>2, <2>3, <2>4
  <2>6. \A y \in Id : Of[y] # c => /\ y \in Pooled' <=> y \in Pooled
                                   /\ y \in held => y \in held'
    BY <2>2, <2>3
  <2>7. \A y \in Mine(c, known' \cup Pooled' \cup tasks') : at[y] # "idle"
    BY <1>1, <1>7, <2>1, <2>3 DEF Mine
  <2>8. peer[c] \in handling[c] \cup {None}
    BY <1>1 DEF Connections
  <2> QED BY <1>1, <1>2, <1>3, <1>7, <2>1, <2>5, <2>6, <2>7, <2>8, DaemonBase DEF Types
<1>8. CASE x \in Mine(c, Enqueue) /\ at[x] # "idle" /\ ReadsEnqueue(c, k, x)
  <2>1. /\ tasks' = tasks \cup {x}
        /\ UNCHANGED <<down, handling, peer, queued, status, known, claims, held, waiting>>
    BY <1>8 DEF ReadsEnqueue, board, pool
  <2>2. /\ Pooled' = Pooled /\ Pool!Requests(waiting') = Pool!Requests(waiting)
        /\ Pooled' = held' \cup Pool!Requests(waiting')
    BY <2>1 DEF Pooled, Pool!Requests
  <2>3. x \in Enqueue /\ Of[x] = c
    BY <1>8 DEF Mine
  <2>4. tasks' \subseteq Enqueue /\ \A y \in Id : Of[y] # c => (y \in tasks' <=> y \in tasks)
    BY <1>1, <2>1, <2>3 DEF Types
  <2>5. \A y \in Mine(c, known' \cup Pooled' \cup tasks') : at[y] # "idle"
    BY <1>1, <1>8, <2>1, <2>2 DEF Mine
  <2>6. peer[c] \in handling[c] \cup {None}
    BY <1>1 DEF Connections
  <2> QED BY <1>1, <1>2, <1>3, <2>1, <2>2, <2>4, <2>5, <2>6, DaemonBase DEF Types
<1> QED BY <1>2, <1>4, <1>5, <1>6, <1>7, <1>8

LEMMA LosesBase ==
    ASSUME LinkAssumption, Base, NEW c \in Cast, NEW k \in Conn, LosesConnection(c, k)
    PROVE  Base' /\ \A d \in Cast \ {c} : Aside(d)
<1>1. Types /\ Connections(c) /\ \A y \in Mine(c, known \cup Pooled \cup tasks) : at[y] # "idle"
  BY DEF Base, Begun
<1>2. /\ Goodbye(c, "disconnected") /\ Handled(c, k) /\ CloseCast(c, k)
      /\ UNCHANGED <<work, ends, tasks, queued>> /\ Quiets(c, k)
  BY DEF LosesConnection, Quiets
<1>3. /\ TellGrants
      /\ handling' \in [Cast -> SUBSET Conn] /\ handling'[c] = handling[c] \ {k}
      /\ peer' \in [Cast -> Nat] /\ peer'[c] = IF peer[c] = k THEN None ELSE peer[c]
      /\ status' \in [Cast -> {"none", "running", "disconnected", "ended"}]
      /\ \A d \in Cast \ {c} : /\ handling'[d] = handling[d] /\ peer'[d] = peer[d]
                               /\ status'[d] = status[d]
      /\ peer'[c] \in handling'[c] \cup {None}
      /\ known' = known \ Mine(c, Id) /\ claims' = claims \ Mine(c, Id)
      /\ held \ Mine(c, Slot) \subseteq held' /\ Pooled' = Pooled \ Mine(c, Slot)
      /\ held' \subseteq Slot /\ Pool!Requests(waiting') \subseteq Slot
  BY <1>2, GoodbyeTakes
<1>4. /\ known' \subseteq Prompt \cup Await /\ claims' \subseteq known' \cap Prompt
      /\ tasks' \subseteq Enqueue /\ queued' \in [Enqueue -> Nat]
      /\ handling'[c] \subseteq handling[c] /\ peer'[c] \in {None, peer[c]}
  BY <1>1, <1>2, <1>3 DEF Types
<1>5. \A y \in Id : Of[y] # c =>
            /\ y \in known' <=> y \in known
            /\ y \in claims' <=> y \in claims
            /\ y \in tasks' <=> y \in tasks
            /\ y \in Pooled' <=> y \in Pooled
            /\ y \in held => y \in held'
            /\ y \in Enqueue => queued'[y] = queued[y]
  BY <1>2, <1>3 DEF Mine
<1>6. \A y \in Mine(c, known' \cup Pooled' \cup tasks') : at[y] # "idle"
  BY <1>1, <1>2, <1>3 DEF Mine
<1> QED BY <1>2, <1>3, <1>4, <1>5, <1>6, DaemonBase

LEMMA SettlesBase ==
    ASSUME LinkAssumption, Base, NEW e \in Enqueue, Settles(e)
    PROVE  Base' /\ \A d \in Cast \ {Of[e]} : Aside(d)
<1>1. /\ Of[e] \in Cast /\ e \in Id /\ e \in Mine(Of[e], Id) /\ Tellings(e) = {"accepted", "refused"}
  BY KindsOf DEF Id, Mine
<1>2. /\ Types /\ Connections(Of[e])
      /\ \A y \in Mine(Of[e], known \cup Pooled \cup tasks) : at[y] # "idle"
  BY <1>1 DEF Base, Begun
<1>3. /\ e \in tasks /\ tasks' = tasks \ {e}
      /\ \/ queued' = [queued EXCEPT ![e] = @ + 1]
         \/ queued' = queued
      /\ \E kind \in Tellings(e) : Tell(Of[e], peer[Of[e]], Frame(kind, e))
      /\ UNCHANGED <<work, ends, up, handling, peer, status, known, claims, held, waiting>>
  BY <1>1 DEF Settles, board, pool
<1>4. at[e] # "idle"
  BY <1>1, <1>2, <1>3 DEF Mine
<1>5. /\ Pooled' = Pooled /\ Pool!Requests(waiting') = Pool!Requests(waiting)
      /\ Pooled' = held' \cup Pool!Requests(waiting')
  BY <1>3 DEF Pooled, Pool!Requests
<1>6. /\ queued' \in [Enqueue -> Nat] /\ \A y \in Enqueue : y # e => queued'[y] = queued[y]
      /\ tasks' \subseteq Enqueue
  BY <1>2, <1>3 DEF Types
<1>7. /\ peer[Of[e]] \in handling[Of[e]] \cup {None}
  BY <1>2 DEF Connections
<1>8. \A y \in Mine(Of[e], known' \cup Pooled' \cup tasks') : at[y] # "idle"
  BY <1>2, <1>3, <1>5 DEF Mine
<1>9. \A y \in Id : Of[y] # Of[e] =>
            /\ y \in known' <=> y \in known
            /\ y \in claims' <=> y \in claims
            /\ y \in tasks' <=> y \in tasks
            /\ y \in Pooled' <=> y \in Pooled
            /\ y \in held => y \in held'
            /\ y \in Enqueue => queued'[y] = queued[y]
  BY <1>3, <1>5, <1>6
<1>10. /\ handling' \in [Cast -> SUBSET Conn] /\ handling'[Of[e]] \subseteq handling[Of[e]]
       /\ peer' \in [Cast -> Nat]
       /\ status' \in [Cast -> {"none", "running", "disconnected", "ended"}]
       /\ \A d \in Cast \ {Of[e]} : /\ handling'[d] = handling[d] /\ peer'[d] = peer[d]
                                    /\ status'[d] = status[d]
       /\ peer'[Of[e]] \in handling'[Of[e]] \cup {None} /\ peer'[Of[e]] \in {None, peer[Of[e]]}
       /\ known' \subseteq Prompt \cup Await /\ claims' \subseteq known' \cap Prompt
       /\ held' \subseteq Slot /\ Pool!Requests(waiting') \subseteq Slot
  BY <1>2, <1>3, <1>5, <1>7 DEF Types
<1>11. held' = held /\ \E x \in Mine(Of[e], Id) : \E kind \in Tellings(x) :
                at[x] # "idle" /\ Tell(Of[e], peer[Of[e]], Frame(kind, x))
  BY <1>1, <1>3, <1>4
<1>12. Quiets(Of[e], None) /\ UNCHANGED <<work, ends>>
  BY <1>3 DEF Quiets
<1> QED BY <1>1, <1>6, <1>8, <1>9, <1>10, <1>11, <1>12, DaemonBase

LEMMA AnswersTells ==
    ASSUME LinkAssumption, Types, NEW x \in Id, Answers(x)
    PROVE  \E kind \in Tellings(x) : Tell(Of[x], peer[Of[x]], Frame(kind, x))
<1>1. x \in known /\ (x \in Prompt \/ x \in Await)
  BY DEF Answers, Types
<1>2. CASE x \in Prompt
  <2>1. Tellings(x) = {"answer", "claimed", "unclaimed"} /\ x \notin Await
    BY <1>2, KindsOf
  <2> QED BY <2>1 DEF Answers
<1>3. CASE x \in Await
  <2>1. Tellings(x) = {"childEnded"} /\ x \notin Prompt
    BY <1>3, KindsOf
  <2>2. x \notin claims
    BY <2>1 DEF Types
  <2> QED BY <2>1, <2>2 DEF Answers
<1> QED BY <1>1, <1>2, <1>3

LEMMA AnswersBase ==
    ASSUME LinkAssumption, Base, NEW x \in Id, Answers(x)
    PROVE  Base' /\ \A d \in Cast \ {Of[x]} : Aside(d)
<1>1. Of[x] \in Cast /\ x \in Mine(Of[x], Id)
  BY KindsOf DEF Mine
<1>2. /\ Types /\ Connections(Of[x])
      /\ \A y \in Mine(Of[x], known \cup Pooled \cup tasks) : at[y] # "idle"
  BY <1>1 DEF Base, Begun
<1>3. /\ x \in known
      /\ UNCHANGED <<work, ends, up, handling, peer, tasks, queued, status, held, waiting>>
  BY DEF Answers, server, pool
<1>4. \/ x \in Prompt /\ claims' = claims \cup {x} /\ known' = known
      \/ claims' = claims \ {x} /\ known' = known
      \/ UNCHANGED <<known, claims>>
      \/ x \in Await /\ known' = known \ {x} /\ claims' = claims
  BY DEF Answers
<1>5. \E kind \in Tellings(x) : Tell(Of[x], peer[Of[x]], Frame(kind, x))
  BY <1>2, AnswersTells
<1>6. /\ Pooled' = Pooled /\ Pool!Requests(waiting') = Pool!Requests(waiting)
      /\ Pooled' = held' \cup Pool!Requests(waiting')
  BY <1>3 DEF Pooled, Pool!Requests
<1>7. /\ handling' \in [Cast -> SUBSET Conn] /\ handling'[Of[x]] \subseteq handling[Of[x]]
      /\ peer' \in [Cast -> Nat]
      /\ status' \in [Cast -> {"none", "running", "disconnected", "ended"}]
      /\ \A d \in Cast \ {Of[x]} : /\ handling'[d] = handling[d] /\ peer'[d] = peer[d]
                                   /\ status'[d] = status[d]
      /\ peer'[Of[x]] \in {None, peer[Of[x]]}
      /\ tasks' \subseteq Enqueue /\ queued' \in [Enqueue -> Nat]
      /\ held' \subseteq Slot /\ Pool!Requests(waiting') \subseteq Slot
  BY <1>2, <1>3, <1>6 DEF Types
<1>8. peer'[Of[x]] \in handling'[Of[x]] \cup {None}
  BY <1>2, <1>3 DEF Connections
<1>9. known' \subseteq Prompt \cup Await /\ claims' \subseteq known' \cap Prompt
  <2>1. x \in Await => x \notin Prompt
    BY KindsOf
  <2> QED BY <1>2, <1>3, <1>4, <2>1 DEF Types
<1>10. \A y \in Mine(Of[x], known' \cup Pooled' \cup tasks') : at[y] # "idle"
  BY <1>2, <1>3, <1>4, <1>6 DEF Mine
<1>11. \A y \in Id : Of[y] # Of[x] =>
            /\ y \in known' <=> y \in known
            /\ y \in claims' <=> y \in claims
            /\ y \in tasks' <=> y \in tasks
            /\ y \in Pooled' <=> y \in Pooled
            /\ y \in held => y \in held'
            /\ y \in Enqueue => queued'[y] = queued[y]
  BY <1>3, <1>4, <1>6
<1>12. at[x] # "idle"
  BY <1>1, <1>2, <1>3 DEF Mine
<1>13. held' = held /\ \E y \in Mine(Of[x], Id) : \E kind \in Tellings(y) :
                at[y] # "idle" /\ Tell(Of[x], peer[Of[x]], Frame(kind, y))
  BY <1>1, <1>3, <1>5, <1>12
<1>14. Quiets(Of[x], None) /\ UNCHANGED <<work, ends>>
  BY <1>3 DEF Quiets
<1> QED BY <1>1, <1>7, <1>8, <1>9, <1>10, <1>11, <1>13, <1>14, DaemonBase

(* The daemon is gone, and with it all it held.                            *)
LEMMA StopsBase ==
    ASSUME LinkAssumption, Base, Stops
    PROVE  Base'
<1>1. Types /\ \A c \in Cast : Connections(c) /\ Begun(c)
  BY DEF Base
<1>2. /\ tasks' = {} /\ known' = {} /\ claims' = {} /\ held' = {} /\ waiting' = {}
      /\ handling' = [c \in Cast |-> {}] /\ peer' = [c \in Cast |-> None]
      /\ up' = [c \in Cast |-> [k \in Conn |-> <<>>]]
      /\ status' = [c \in Cast |-> "none"]
      /\ UNCHANGED <<at, claimed, conn, connecting, over, opened, queued>>
  BY DEF Stops, work, ends
<1>3. PICK whole \in BOOLEAN :
        down' = [c \in Cast |-> [k \in Conn |-> IF whole THEN down[c][k] ELSE <<>>]]
  BY DEF Stops
<1>4. \A c \in Cast, k \in Conn : /\ up'[c][k] = <<>>
                                  /\ down'[c][k] \in {<<>>, down[c][k]}
  BY <1>2, <1>3
<1>5. UpTypes' /\ DownTypes'
  <2>1. \A c \in Cast, k \in Conn :
            up'[c][k] \in Seq(UpFrames(c)) /\ down'[c][k] \in Seq(DownFrames(c))
    <3>1. \A c \in Cast, k \in Conn : /\ down[c][k] \in Seq(DownFrames(c))
                                      /\ <<>> \in Seq(DownFrames(c))
                                      /\ <<>> \in Seq(UpFrames(c))
      BY <1>1, EmptySeq DEF Types, DownTypes
    <3> QED BY <1>4, <3>1
  <2>2. /\ DOMAIN up' = Cast /\ DOMAIN down' = Cast
        /\ \A c \in Cast : /\ up'[c] = [k \in Conn |-> up'[c][k]]
                           /\ down'[c] = [k \in Conn |-> down'[c][k]]
    BY <1>2, <1>3
  <2> QED BY <2>1, <2>2, SameFrames DEF UpTypes, DownTypes
<1>6. Types'
  <2>1. Pool!Requests(waiting') = {}
    BY <1>2 DEF Pool!Requests
  <2>2. handling' \in [Cast -> SUBSET Conn] /\ peer' \in [Cast -> Nat]
    BY <1>2 DEF None
  <2> QED BY <1>1, <1>2, <1>5, <2>1, <2>2 DEF Types, Pool!Requests
<1>7. ASSUME NEW c \in Cast PROVE Connections(c)' /\ Begun(c)'
  <2>1. \A k \in Conn : \A kind, x : ~Up(c, k, kind, x)'
    BY <1>4 DEF Up, Range, Frame
  <2>2. \A k \in Conn : \A kind, x : Down(c, k, kind, x)' => Down(c, k, kind, x)
    <3> TAKE k \in Conn
    <3>1. CASE down'[c][k] = down[c][k]
      BY <3>1, DownSame
    <3>2. CASE down'[c][k] = <<>>
      BY <3>2 DEF Down, Range
    <3> QED BY <1>4, <3>1, <3>2
  <2>3. \A k \in Conn : ~Unmet(c, k)'
    BY <2>1 DEF Unmet
  <2>4. \A k \in Conn : k # None
    BY ConnsAre
  <2>5. Connections(c)'
    <3>1. /\ conn'[c] = conn[c] /\ connecting'[c] = connecting[c] /\ opened'[c] = opened[c]
          /\ peer'[c] = None /\ handling'[c] = {} /\ at' = at /\ over' = over
      BY <1>2
    <3>2. \A k \in Conn :
            /\ up'[c][k] = <<>> /\ (down[c][k] = <<>> => down'[c][k] = <<>>) /\ peer'[c] # k
            /\ \A i \in DOMAIN up'[c][k] : up'[c][k][i].kind = "hello" => i = 1
      BY <1>4, <2>4, <3>1
    <3> QED BY <1>1, <2>1, <2>3, <3>1, <3>2, SameSaid DEF Connections
  <2>6. Mine(c, known \cup Pooled \cup tasks)' = {}
    BY <1>2 DEF Mine, Pooled, Pool!Requests
  <2>7. Begun(c)'
    BY <1>1, <1>2, <2>1, <2>2, <2>6, SameSaid DEF Begun
  <2> QED BY <2>5, <2>7
<1> QED BY <1>6, <1>7 DEF Base

LEMMA InitBase == ASSUME LinkAssumption, Init PROVE Base
<1>1. /\ \A c \in Cast, k \in Conn : up[c][k] = <<>> /\ down[c][k] = <<>>
      /\ \A c \in Cast, k \in Conn : \A kind, x : ~Up(c, k, kind, x) /\ ~Down(c, k, kind, x)
  BY DEF Init, Up, Down, Range, Frame
<1>2. Types
  <2>1. UpTypes /\ DownTypes
    <3>1. \A c \in Cast : <<>> \in Seq(UpFrames(c)) /\ <<>> \in Seq(DownFrames(c))
      BY EmptySeq
    <3> QED BY <3>1 DEF Init, UpTypes, DownTypes
  <2>2. held = {} /\ Pool!Requests(waiting) = {}
    BY DEF Init, Pool!Init, Pool!Requests
  <2> QED BY <2>1, <2>2 DEF Init, Types, None
<1>3. ASSUME NEW c \in Cast PROVE Connections(c) /\ Begun(c)
  <2>1. /\ conn[c] = None /\ connecting[c] = None /\ opened[c] = 0 /\ peer[c] = None
        /\ handling[c] = {} /\ c \notin over
    BY DEF Init
  <2>2. 0 <= Conns[c] /\ None \in {None, opened[c]}
    BY DEF LinkAssumption
  <2>3. \A k \in Conn : k # None
    <3>1. \A k \in Conn : k > 0
      BY DEF Conn, LinkAssumption
    <3> QED BY <3>1 DEF None
  <2>4. Connections(c)
    BY <1>1, <2>1, <2>2, <2>3 DEF Connections, Unmet
  <2>5. Mine(c, known \cup Pooled \cup tasks) = {}
    BY DEF Init, Pool!Init, Pooled, Pool!Requests, Mine
  <2>6. Begun(c)
    BY <1>1, <2>5 DEF Begun
  <2> QED BY <2>4, <2>6
<1> QED BY <1>2, <1>3 DEF Base

LEMMA SameBase ==
    ASSUME LinkAssumption, Base,
           UNCHANGED <<work, ends, up, down, handling, peer, tasks, queued, board, pool>>
    PROVE  Base'
<1>1. Types /\ \A c \in Cast : Connections(c) /\ Begun(c)
  BY DEF Base
<1>2. UNCHANGED <<at, claimed, conn, connecting, over, opened, up, down, handling, peer,
                  status, known, claims, tasks, queued, held, waiting>>
  BY DEF work, ends, board, pool
<1>3. Types'
  BY <1>1, <1>2, SameFrames DEF Types, UpTypes, DownTypes, Pool!Requests
<1>4. ASSUME NEW c \in Cast PROVE Connections(c)' /\ Begun(c)'
  <2>1. Connections(c)'
    BY <1>1, <1>2, SameSaid DEF Connections, Unmet, Up
  <2>2. Begun(c)'
    BY <1>1, <1>2, SameSaid DEF Begun, Up, Down, Mine, Pooled, Pool!Requests
  <2> QED BY <2>1, <2>2
<1> QED BY <1>3, <1>4 DEF Base

LEMMA NextBase == ASSUME LinkAssumption, Base, [Next]_vars PROVE Base'
<1>1. CASE \E c \in Cast : Connects(c) \/ Attaches(c) \/ Hears(c) \/ Gone(c) \/ Ends(c) \/ Dies(c)
  BY <1>1, ConnectsBase, AttachesBase, HearsBase, GoneBase, EndsBase
<1>2. CASE \E x \in Id : Begins(x) \/ Closes(x) \/ Answers(x)
  BY <1>2, BeginsBase, ClosesBase, AnswersBase
<1>3. CASE \E c \in Cast, k \in Conn : Reads(c, k) \/ LosesConnection(c, k)
  BY <1>3, ReadsBase, LosesBase
<1>4. CASE \E e \in Enqueue : Settles(e)
  BY <1>4, SettlesBase
<1>5. CASE Stops
  BY <1>5, StopsBase
<1>6. CASE Serves \/ UNCHANGED vars
  BY <1>6, SameBase DEF Serves, vars, work, ends, board, pool
<1> QED BY <1>1, <1>2, <1>3, <1>4, <1>5, <1>6 DEF Next

LEMMA BaseTypes == ASSUME LinkAssumption, Base PROVE TypeOK
<1>1. Types /\ \A c \in Cast : Connections(c)
  BY DEF Base
<1>2. ASSUME NEW c \in Cast
      PROVE  /\ conn[c] \in 0..opened[c] /\ connecting[c] \in {None, opened[c]}
             /\ opened[c] \in 0..Conns[c] /\ peer[c] \in handling[c] \cup {None}
  <2>1. opened[c] \in Nat /\ Conns[c] \in Nat /\ conn[c] \in {0, opened[c]}
    BY <1>1 DEF Types, LinkAssumption, Connections, None
  <2> QED BY <1>1, <2>1 DEF Connections
<1> QED BY <1>1, <1>2 DEF Types, TypeOK

(* Every variable of both ends has its type: in particular a cast has no   *)
(* connection but one it opened, the daemon tells it things only on one it *)
(* still reads, a claim is of a prompt waited on and, at the daemon, open. *)
THEOREM TypeCorrect == Spec => []TypeOK
<1>1. Init => Base
  BY LinkAssumption, InitBase
<1>2. Base /\ [Next]_vars => Base'
  BY LinkAssumption, NextBase
<1>3. Base => TypeOK
  BY LinkAssumption, BaseTypes
<1> QED BY <1>1, <1>2, <1>3, PTL DEF Spec

-----------------------------------------------------------------------------
(* Enqueues: unread, in hand or told, and queued when told so.             *)

LEMMA OnceKept ==
    ASSUME NEW e \in Enqueue, Once(e), queued'[e] = queued[e],
           Unread(e)' => Unread(e), e \in tasks' => e \in tasks,
           \A kind \in {"accepted", "refused"} : ToldOf(e, kind)' => ToldOf(e, kind),
           \/ at'[e] = at[e]
           \/ at'[e] \notin {"idle", "queued", "refused"}
           \/ at'[e] = "queued" /\ ToldOf(e, "accepted")
           \/ at'[e] = "refused" /\ ToldOf(e, "refused")
    PROVE  Once(e)'
<1>1. /\ ToldOf(e, "accepted")' => ToldOf(e, "accepted")
      /\ ToldOf(e, "refused")' => ToldOf(e, "refused")
  OBVIOUS
<1> QED BY <1>1 DEF Once

LEMMA SoleKept ==
    ASSUME NEW e \in Enqueue, Sole(e), \A k \in Conn : up'[Of[e]][k] \in {up[Of[e]][k], <<>>}
    PROVE  Sole(e)'
<1>1. ASSUME NEW k \in Conn, NEW i \in DOMAIN up'[Of[e]][k]
      PROVE  i \in DOMAIN up[Of[e]][k] /\ up'[Of[e]][k][i] = up[Of[e]][k][i]
  BY <1>1
<1>2. ASSUME NEW k \in Conn, NEW l \in Conn,
             NEW i \in DOMAIN up'[Of[e]][k], NEW j \in DOMAIN up'[Of[e]][l],
             up'[Of[e]][k][i] = Frame("enqueue", e), up'[Of[e]][l][j] = Frame("enqueue", e)
      PROVE  k = l /\ i = j
  BY <1>1, <1>2 DEF Sole
<1> QED BY <1>2 DEF Sole, Frame

LEMMA AsideOnce ==
    ASSUME LinkAssumption, NEW e \in Enqueue, EnqueuedOnce(e), Aside(Of[e])
    PROVE  EnqueuedOnce(e)'
<1>1. e \in Mine(Of[e], Id) /\ e \in Mine(Of[e], Enqueue)
  BY DEF Mine, Id
<1>2. /\ \A k \in Conn : up'[Of[e]][k] = up[Of[e]][k]
      /\ queued'[e] = queued[e] /\ at'[e] = at[e] /\ (e \in tasks' <=> e \in tasks)
  BY <1>1 DEF Aside
<1>3. \A k \in Conn : Up(Of[e], k, "enqueue", e)' <=> Up(Of[e], k, "enqueue", e)
  BY <1>2, UpSame
<1>4. \A k \in Conn, kind \in {"accepted", "refused"} :
        Down(Of[e], k, kind, e)' <=> Down(Of[e], k, kind, e)
  BY DEF Aside
<1>5. Once(e)'
  BY <1>2, <1>3, <1>4, OnceKept DEF EnqueuedOnce, Unread, ToldOf
<1> QED BY <1>2, <1>5, SoleKept DEF EnqueuedOnce

LEMMA SentOnce ==
    ASSUME LinkAssumption, Base, NEW e \in Enqueue, Sole(e), NEW f \in UpFrames(Of[e]),
           f.kind # "hello", up' = up \/ Send(Of[e], f), f = Frame("enqueue", e) => ~Unread(e)
    PROVE  Sole(e)' /\ (Unread(e)' => Unread(e) \/ f = Frame("enqueue", e))
<1> DEFINE c == Of[e]
           E == Frame("enqueue", e)
<1>1. c \in Cast
  BY DEF LinkAssumption, Id
<1>2. /\ \A k \in Conn : \/ up'[c][k] = up[c][k]
                         \/ k = conn[c] /\ up'[c][k] = Append(up[c][k], f)
      /\ \A k \in Conn : \A kind, x : Up(c, k, kind, x)' => Up(c, k, kind, x) \/ f = Frame(kind, x)
  <2>1. /\ \A d \in Cast, k \in Conn :
            \/ up'[d][k] = up[d][k]
            \/ d = c /\ k = conn[c] /\ up'[d][k] = Append(up[d][k], f)
        /\ \A d \in Cast, k \in Conn : \A kind, x :
            Up(d, k, kind, x)' => \/ Up(d, k, kind, x)
                                  \/ d = c /\ k = conn[c] /\ f = Frame(kind, x)
    BY <1>1, Wrote
  <2> QED BY <1>1, <2>1
<1>3. ASSUME NEW k \in Conn, NEW i \in DOMAIN up'[c][k]
      PROVE  \/ i \in DOMAIN up[c][k] /\ up'[c][k][i] = up[c][k][i]
             \/ k = conn[c] /\ i = Len(up[c][k]) + 1 /\ up'[c][k][i] = f
  <2>1. up[c][k] \in Seq(UpFrames(c))
    BY <1>1 DEF Base, Types, UpTypes
  <2>2. CASE up'[c][k] = up[c][k]
    BY <1>3, <2>2
  <2>3. CASE k = conn[c] /\ up'[c][k] = Append(up[c][k], f)
    BY <1>3, <2>1, <2>3, Appended
  <2> QED BY <1>2, <2>2, <2>3
<1>4. ASSUME NEW k \in Conn, NEW i \in DOMAIN up[c][k], up[c][k][i] = E PROVE Unread(e)
  <2>1. E \in Range(up[c][k])
    BY <1>4 DEF Range
  <2> QED BY <2>1 DEF Unread, Up, Frame
<1> HIDE DEF E
<1>5. ASSUME NEW k \in Conn, NEW l \in Conn, NEW i \in DOMAIN up'[c][k], NEW j \in DOMAIN up'[c][l],
             up'[c][k][i] = E, up'[c][l][j] = E
      PROVE  k = l /\ i = j
  <2>1. CASE f = E
    <3>1. \A m \in Conn : \A n \in DOMAIN up[c][m] : up[c][m][n] # E
      BY <1>4, <2>1 DEF E
    <3> QED BY <1>3, <1>5, <3>1
  <2>2. CASE f # E
    <3>1. \A m \in Conn : \A n \in DOMAIN up'[c][m] :
            up'[c][m][n] = E => n \in DOMAIN up[c][m] /\ up[c][m][n] = E
      BY <1>3, <2>2
    <3> QED BY <1>5, <3>1 DEF Sole, E
  <2> QED BY <2>1, <2>2
<1>6. Sole(e)'
  BY <1>5 DEF Sole, E, Frame
<1>7. Unread(e)' => Unread(e) \/ f = E
  BY <1>2 DEF Unread, E
<1> QED BY <1>6, <1>7 DEF E

LEMMA QuietOnce ==
    ASSUME LinkAssumption, Base, NEW e \in Enqueue, Sole(e), NEW k, Quiets(Of[e], k)
    PROVE  /\ Sole(e)' /\ (Unread(e)' => Unread(e))
           /\ up[Of[e]][k] # <<>> /\ Heard(Of[e], k) /\ k \in Conn
                /\ Head(up[Of[e]][k]) = Frame("enqueue", e) => ~Unread(e)'
<1> DEFINE c == Of[e]
           E == Frame("enqueue", e)
<1>1. c \in Cast
  BY DEF LinkAssumption, Id
<1>2. /\ \A j \in Conn : j # k => up'[c][j] = up[c][j]
      /\ \A j \in Conn : \A kind, x : Up(c, j, kind, x)' => Up(c, j, kind, x)
  BY <1>1, Quieted
<1>3. Unread(e)' => Unread(e)
  BY <1>2 DEF Unread
<1>4. CASE k \in Conn /\ up[c][k] # <<>> /\ Heard(c, k)
  <2>1. up[c][k] \in Seq(UpFrames(c))
    BY <1>1, <1>4 DEF Base, Types, UpTypes
  <2>2. up'[c][k] = Tail(up[c][k])
    BY <1>1, <1>4, HeardUp DEF Base
  <2>3. /\ \A i \in DOMAIN up'[c][k] : i + 1 \in DOMAIN up[c][k] /\ up'[c][k][i] = up[c][k][i + 1]
                                       /\ i \in Nat \ {0}
        /\ 1 \in DOMAIN up[c][k] /\ up[c][k][1] = Head(up[c][k])
    BY <1>4, <2>1, <2>2, Tailed
  <2> HIDE DEF E
  <2>4. ASSUME NEW l \in Conn, NEW m \in Conn, NEW i \in DOMAIN up'[c][l], NEW j \in DOMAIN up'[c][m],
               up'[c][l][i] = E, up'[c][m][j] = E
        PROVE  l = m /\ i = j
    <3>1. CASE l # k /\ m # k
      BY <1>2, <2>4, <3>1 DEF Sole, E
    <3>2. CASE l = k /\ m = k
      <4>1. i + 1 \in DOMAIN up[c][k] /\ up[c][k][i + 1] = E /\ i \in Nat
        BY <2>3, <2>4, <3>2
      <4>2. j + 1 \in DOMAIN up[c][k] /\ up[c][k][j + 1] = E /\ j \in Nat
        BY <2>3, <2>4, <3>2
      <4>3. i + 1 = j + 1
        BY <1>4, <4>1, <4>2 DEF Sole, E
      <4> QED BY <3>2, <4>1, <4>2, <4>3
    <3>3. CASE l = k /\ m # k
      <4>1. i + 1 \in DOMAIN up[c][k] /\ up[c][k][i + 1] = E /\ j \in DOMAIN up[c][m] /\ up[c][m][j] = E
        BY <1>2, <2>3, <2>4, <3>3
      <4> QED BY <1>4, <3>3, <4>1 DEF Sole, E
    <3>4. CASE l # k /\ m = k
      <4>1. j + 1 \in DOMAIN up[c][k] /\ up[c][k][j + 1] = E /\ i \in DOMAIN up[c][l] /\ up[c][l][i] = E
        BY <1>2, <2>3, <2>4, <3>4
      <4> QED BY <1>4, <3>4, <4>1 DEF Sole, E
    <3> QED BY <3>1, <3>2, <3>3, <3>4
  <2>5. Sole(e)'
    BY <2>4 DEF Sole, E, Frame
  <2>6. ASSUME Head(up[c][k]) = E, Unread(e)' PROVE FALSE
    <3>1. PICK l \in Conn : Up(c, l, "enqueue", e)'
      BY <2>6 DEF Unread
    <3>2. E \in Range(up'[c][l])
      BY <3>1 DEF Up, E, Frame
    <3>3. PICK i \in DOMAIN up'[c][l] : up'[c][l][i] = E
      BY <3>2 DEF Range
    <3>4. CASE l = k
      <4>1. i + 1 \in DOMAIN up[c][k] /\ up[c][k][i + 1] = E /\ i \in Nat \ {0}
        BY <2>3, <3>3, <3>4
      <4>2. i + 1 = 1
        BY <1>4, <2>3, <2>6, <4>1 DEF Sole, E
      <4> QED BY <4>1, <4>2
    <3>5. CASE l # k
      <4>1. i \in DOMAIN up[c][l] /\ up[c][l][i] = E
        BY <1>2, <3>3, <3>5
      <4> QED BY <1>4, <2>3, <2>6, <3>5, <4>1 DEF Sole, E
    <3> QED BY <3>4, <3>5
  <2> QED BY <1>3, <2>5, <2>6 DEF E
<1>5. CASE up' = up /\ ~(k \in Conn /\ up[c][k] # <<>> /\ Heard(c, k))
  BY <1>3, <1>5, SoleKept
<1>6. CASE k \in Conn /\ up' = [up EXCEPT ![c][k] = <<>>]
  <2>1. \A j \in Conn : up'[c][j] = IF j = k THEN <<>> ELSE up[c][j]
    BY <1>1, <1>6 DEF Base, Types, UpTypes
  <2>2. Sole(e)'
    BY <2>1, SoleKept
  <2>3. ASSUME Head(up[c][k]) = E, k \in Conn, up[c][k] # <<>>, Heard(c, k), Unread(e)' PROVE FALSE
    BY <1>4, <2>3
  <2> QED BY <1>3, <2>2, <2>3
<1> QED BY <1>4, <1>5, <1>6 DEF Quiets

(* The cast's own steps.                                                   *)
LEMMA CastOnce ==
    ASSUME LinkAssumption, Base, NEW e \in Enqueue, EnqueuedOnce(e),
           \/ \E x \in Id : Of[x] = Of[e] /\ (Begins(x) \/ Closes(x))
           \/ Hears(Of[e]) \/ Gone(Of[e]) \/ Ends(Of[e]) \/ Dies(Of[e])
           \/ Connects(Of[e]) \/ Attaches(Of[e])
    PROVE  EnqueuedOnce(e)'
<1> DEFINE c == Of[e]
<1>1. /\ c \in Cast /\ e \in Id /\ e \in Mine(c, Id) /\ Types /\ Begun(c)
      /\ Opener(e) = "enqueue" /\ Endings(e) = {} /\ e \notin Prompt /\ e \notin Slot /\ e \notin Await
  BY KindsOf DEF Id, Mine, Base
<1>2. Sole(e) /\ Once(e)
  BY DEF EnqueuedOnce
<1>3. ASSUME UNCHANGED <<queued, tasks, down>> PROVE
        /\ queued'[e] = queued[e] /\ (e \in tasks' => e \in tasks)
        /\ \A kind \in {"accepted", "refused"} : ToldOf(e, kind)' => ToldOf(e, kind)
  <2>1. \A k \in Conn : \A kind : Down(c, k, kind, e)' <=> Down(c, k, kind, e)
    BY <1>3, DownSame
  <2> QED BY <1>3, <2>1 DEF ToldOf
<1>4. ASSUME NEW x \in Id, Of[x] = c, Begins(x) PROVE EnqueuedOnce(e)'
  <2>1. /\ at[x] = "idle" /\ UNCHANGED <<queued, tasks, down>>
        /\ at' = [at EXCEPT ![x] = IF x \in Slot /\ conn[c] = None THEN "running" ELSE "waiting"]
        /\ up' = up \/ Send(c, Frame(Opener(x), x))
    BY <1>4 DEF Begins, Opener, server
  <2> DEFINE f == Frame(Opener(x), x)
  <2>2. /\ f \in UpFrames(c) /\ f.kind # "hello"
        /\ \A l, y : f = Frame(l, y) => y = x
    BY <1>1, <1>4, UpFramed, OpenerKinds, Framed DEF Mine
  <2>3. x = e => ~Unread(e)
    <3>1. x = e => \A k \in Conn : ~Up(c, k, "enqueue", e)
      BY <1>1, <2>1 DEF Begun
    <3> QED BY <3>1 DEF Unread
  <2> HIDE DEF f
  <2>4. Sole(e)' /\ (Unread(e)' => Unread(e) \/ f = Frame("enqueue", e))
    BY <1>2, <2>1, <2>2, <2>3, SentOnce DEF f
  <2>5. /\ queued'[e] = queued[e] /\ (e \in tasks' => e \in tasks)
        /\ \A kind \in {"accepted", "refused"} : ToldOf(e, kind)' => ToldOf(e, kind)
    BY <1>3, <2>1
  <2>6. CASE x # e
    <3>1. at'[e] = at[e] /\ (Unread(e)' => Unread(e))
      BY <1>1, <2>1, <2>2, <2>4, <2>6 DEF Types
    <3> QED BY <1>2, <2>4, <2>5, <3>1, OnceKept DEF EnqueuedOnce
  <2>7. CASE x = e
    <3>1. at[e] = "idle" /\ at'[e] \in {"waiting", "running"}
      BY <1>1, <2>1, <2>7 DEF Types
    <3>2. /\ queued[e] = 0 /\ e \notin tasks
      BY <1>2, <3>1 DEF Once
    <3>3. \A kind \in {"accepted", "refused"} : ~ToldOf(e, kind)
      <4>1. Tellings(e) = {"accepted", "refused"}
        BY <1>1, KindsOf
      <4>2. \A k \in Conn, kind \in Tellings(e) : ~Down(c, k, kind, e)
        BY <1>1, <3>1 DEF Begun
      <4> QED BY <4>1, <4>2 DEF ToldOf
    <3>4. ~ToldOf(e, "accepted")' /\ ~ToldOf(e, "refused")'
      BY <2>5, <3>3
    <3> QED BY <2>4, <2>5, <3>1, <3>2, <3>4 DEF EnqueuedOnce, Once
  <2> QED BY <2>6, <2>7
<1>5. ASSUME NEW x \in Id, Of[x] = c, Closes(x) PROVE EnqueuedOnce(e)'
  <2>1. /\ at' = [at EXCEPT ![x] = "over"] /\ UNCHANGED <<queued, tasks, down>>
    BY <1>5 DEF Closes, server
  <2>2. PICK kind : up' = up \/ (kind \in Endings(x) /\ Send(c, Frame(kind, x)))
    <3>1. up' = up \/ \E kind \in Endings(x) : Send(c, Frame(kind, x))
      BY <1>5, KindsOf DEF Closes
    <3> QED BY <3>1
  <2>3. CASE up' = up
    <3>1. \A k \in Conn : Up(c, k, "enqueue", e)' <=> Up(c, k, "enqueue", e)
      BY <2>3, UpSame
    <3>2. Sole(e)' /\ (Unread(e)' => Unread(e))
      BY <1>2, <2>3, <3>1, SoleKept DEF Unread
    <3>3. at'[e] = at[e] \/ at'[e] \notin {"idle", "queued", "refused"}
      BY <1>1, <2>1 DEF Types
    <3>4. /\ queued'[e] = queued[e] /\ (e \in tasks' => e \in tasks)
          /\ \A l \in {"accepted", "refused"} : ToldOf(e, l)' => ToldOf(e, l)
      BY <1>3, <2>1
    <3> QED BY <1>2, <3>2, <3>3, <3>4, OnceKept DEF EnqueuedOnce
  <2>4. CASE kind \in Endings(x) /\ Send(c, Frame(kind, x))
    <3> DEFINE f == Frame(kind, x)
    <3>1. /\ f \in UpFrames(c) /\ f.kind # "hello" /\ x # e
          /\ \A l, y : f = Frame(l, y) => y = x
      BY <1>1, <1>5, <2>4, UpFramed, OpenerKinds, Framed DEF Mine
    <3> HIDE DEF f
    <3>2. Sole(e)' /\ (Unread(e)' => Unread(e))
      <4>1. up' = up \/ Send(c, f)
        BY <2>4 DEF f
      <4>2. f # Frame("enqueue", e)
        BY <3>1
      <4> QED BY <1>2, <3>1, <4>1, <4>2, SentOnce
    <3>3. at'[e] = at[e]
      BY <1>1, <2>1, <3>1 DEF Types
    <3>4. /\ queued'[e] = queued[e] /\ (e \in tasks' => e \in tasks)
          /\ \A l \in {"accepted", "refused"} : ToldOf(e, l)' => ToldOf(e, l)
      BY <1>3, <2>1
    <3> QED BY <1>2, <3>2, <3>3, <3>4, OnceKept DEF EnqueuedOnce
  <2> QED BY <2>2, <2>3, <2>4
<1>6. CASE Hears(c)
  <2> DEFINE g == Head(down[c][conn[c]])
  <2>1. PICK x : /\ x = g.about /\ x \in Mine(c, Id) /\ g = Frame(g.kind, x)
                 /\ conn[c] \in Conn /\ down[c][conn[c]] # <<>> /\ Hear(c)
                 /\ UNCHANGED <<server, board, pool>>
                 /\ \/ at[x] # "waiting" /\ UNCHANGED <<work, up>>
                    \/ /\ x \in Prompt /\ at' = [at EXCEPT ![x] = "over"]
                       /\ Send(c, Frame("resolved", x))
                    \/ UNCHANGED <<at, up>>
                    \/ x \in Slot \cup Await /\ up' = up /\ \E r : at' = [at EXCEPT ![x] = r]
                    \/ /\ g.kind = "accepted" /\ at' = [at EXCEPT ![x] = "queued"] /\ up' = up
                    \/ /\ g.kind = "refused" /\ at' = [at EXCEPT ![x] = "refused"] /\ up' = up
    BY <1>1, <1>6, HearsWhat
  <2>2. /\ queued'[e] = queued[e] /\ (e \in tasks' => e \in tasks)
        /\ \A kind \in {"accepted", "refused"} : ToldOf(e, kind)' => ToldOf(e, kind)
    <3>1. UNCHANGED <<queued, tasks>>
      BY <2>1 DEF server
    <3>2. \A k \in Conn : \A kind : Down(c, k, kind, e)' => Down(c, k, kind, e)
      BY <1>1, <2>1, HeardDown
    <3> QED BY <3>1, <3>2 DEF ToldOf
  <2>3. Down(c, conn[c], g.kind, x)
    <3>1. \A k \in Conn : down[c][k] \in Seq(DownFrames(c))
      BY <1>1 DEF Types, DownTypes
    <3>2. down[c][conn[c]] # <<>> /\ conn[c] \in Conn
      BY <2>1
    <3>3. g \in Range(down[c][conn[c]])
      BY <3>1, <3>2, Tailed
    <3> QED BY <2>1, <3>3 DEF Down
  <2> HIDE DEF g
  <2>4. CASE up' = up
    <3>1. \A k \in Conn : Up(c, k, "enqueue", e)' <=> Up(c, k, "enqueue", e)
      BY <2>4, UpSame
    <3>2. Sole(e)' /\ (Unread(e)' => Unread(e))
      BY <1>2, <2>4, <3>1, SoleKept DEF Unread
    <3>3. \/ at'[e] = at[e]
          \/ at'[e] = "queued" /\ x = e /\ g.kind = "accepted"
          \/ at'[e] = "refused" /\ x = e /\ g.kind = "refused"
          \/ at'[e] \notin {"idle", "queued", "refused"}
      BY <1>1, <2>1 DEF Types, work
    <3>4. /\ x = e /\ g.kind = "accepted" => ToldOf(e, "accepted")
          /\ x = e /\ g.kind = "refused" => ToldOf(e, "refused")
      BY <2>1, <2>3 DEF ToldOf
    <3> QED BY <1>2, <2>2, <3>2, <3>3, <3>4, OnceKept DEF EnqueuedOnce
  <2>5. CASE x \in Prompt /\ at' = [at EXCEPT ![x] = "over"] /\ Send(c, Frame("resolved", x))
    <3> DEFINE f == Frame("resolved", x)
    <3>1. /\ f \in UpFrames(c) /\ f.kind # "hello" /\ x # e
          /\ f # Frame("enqueue", e)
      <4>1. "resolved" \in Endings(x) /\ x \in Id
        BY <2>1, <2>5, KindsOf DEF Mine
      <4> QED BY <1>1, <2>1, <2>5, <4>1, UpFramed, OpenerKinds, Framed DEF Mine
    <3> HIDE DEF f
    <3>2. Sole(e)' /\ (Unread(e)' => Unread(e))
      <4>1. up' = up \/ Send(c, f)
        BY <2>5 DEF f
      <4> QED BY <1>2, <3>1, <4>1, SentOnce
    <3>3. at'[e] = at[e]
      BY <1>1, <2>5, <3>1 DEF Types
    <3> QED BY <1>2, <2>2, <3>2, <3>3, OnceKept DEF EnqueuedOnce
  <2> QED BY <2>1, <2>4, <2>5 DEF work
<1>7. CASE Gone(c) \/ Ends(c) \/ Dies(c)
  <2>1. /\ UNCHANGED <<queued, tasks>>
        /\ up' = up \/ Send(c, Frame("goodbye", c))
        /\ \/ down' = [down EXCEPT ![c][conn[c]] = <<>>] /\ conn[c] \in Conn
           \/ down' = [down EXCEPT ![c] = [k \in Conn |-> <<>>]]
        /\ at' \in [Id -> {at[y] : y \in Id} \cup {"over", "gone", "running"}]
        /\ at'[e] = at[e] \/ at'[e] \in {"over", "gone", "running"}
    BY <1>1, <1>7, ConnsAre DEF Gone, Ends, Dies, Detached, server, work, Types
  <2> DEFINE f == Frame("goodbye", c)
  <2>2. /\ f \in UpFrames(c) /\ f.kind # "hello" /\ f # Frame("enqueue", e)
    BY <1>1, GreetingFramed, Framed
  <2> HIDE DEF f
  <2>3. Sole(e)' /\ (Unread(e)' => Unread(e))
    <3>1. up' = up \/ Send(c, f)
      BY <2>1 DEF f
    <3> QED BY <1>2, <2>2, <3>1, SentOnce
  <2>4. \A k \in Conn : down'[c][k] \in {down[c][k], <<>>}
    BY <1>1, <2>1 DEF Types, DownTypes
  <2>5. \A k \in Conn : \A kind : Down(c, k, kind, e)' => Down(c, k, kind, e)
    <3> TAKE k \in Conn
    <3>1. CASE down'[c][k] = down[c][k]
      BY <3>1, DownSame
    <3>2. CASE down'[c][k] = <<>>
      BY <3>2 DEF Down, Range
    <3> QED BY <2>4, <3>1, <3>2
  <2>6. \A kind \in {"accepted", "refused"} : ToldOf(e, kind)' => ToldOf(e, kind)
    BY <2>5 DEF ToldOf
  <2>7. at'[e] = at[e] \/ at'[e] \notin {"idle", "queued", "refused"}
    BY <2>1
  <2>8. queued'[e] = queued[e] /\ (e \in tasks' => e \in tasks)
    BY <2>1
  <2> QED BY <1>2, <2>3, <2>6, <2>7, <2>8, OnceKept DEF EnqueuedOnce
<1>8. CASE Connects(c) \/ Attaches(c)
  <2>1. UNCHANGED <<queued, tasks, down, at>>
    BY <1>8 DEF Connects, Attaches, work
  <2>2. Sole(e)' /\ (Unread(e)' => Unread(e))
    <3>1. CASE up' = up
      <4>1. \A k \in Conn : Up(c, k, "enqueue", e)' <=> Up(c, k, "enqueue", e)
        BY <3>1, UpSame
      <4> QED BY <1>2, <3>1, <4>1, SoleKept DEF Unread
    <3>2. CASE connecting[c] # None /\ up' = [up EXCEPT ![c][connecting[c]] = Backlog(c)]
      <4>1. \A k \in Conn : \/ up'[c][k] = up[c][k]
                            \/ up'[c][k] = Backlog(c)
        BY <1>1, <3>2 DEF Types, UpTypes
      <4>2. /\ Backlog(c) \in Seq(UpFrames(c))
            /\ \A f : f \in Range(Backlog(c)) <=>
                \/ f = Frame("hello", c)
                \/ \E x \in Open(c, Id \ Enqueue) : f = Frame(Opener(x), x)
        BY <1>1, BacklogIs
      <4>3. Frame("enqueue", e) \notin Range(Backlog(c))
        <5>1. Frame("enqueue", e) # Frame("hello", c)
          BY Framed
        <5>2. \A x \in Open(c, Id \ Enqueue) : Frame("enqueue", e) # Frame(Opener(x), x)
          BY Framed DEF Open, Mine
        <5> QED BY <4>2, <5>1, <5>2
      <4>4. \A i \in DOMAIN Backlog(c) : Backlog(c)[i] # Frame("enqueue", e)
        BY <4>3 DEF Range
      <4>5. ASSUME NEW k \in Conn, NEW i \in DOMAIN up'[c][k], up'[c][k][i] = Frame("enqueue", e)
            PROVE  i \in DOMAIN up[c][k] /\ up[c][k][i] = Frame("enqueue", e)
        BY <4>1, <4>4, <4>5
      <4>6. Sole(e)'
        <5>1. \A k, l \in Conn : \A i \in DOMAIN up'[c][k], j \in DOMAIN up'[c][l] :
                up'[c][k][i] = Frame("enqueue", e) /\ up'[c][l][j] = Frame("enqueue", e)
                    => k = l /\ i = j
          BY <1>2, <4>5 DEF Sole
        <5> QED BY <5>1 DEF Sole, Frame
      <4>7. Unread(e)' => Unread(e)
        <5>1. \A k \in Conn : Frame("enqueue", e) \in Range(up'[c][k])
                                => Frame("enqueue", e) \in Range(up[c][k])
          BY <4>5 DEF Range
        <5> QED BY <5>1 DEF Unread, Up, Frame
      <4> QED BY <4>6, <4>7
    <3> QED BY <1>8, <3>1, <3>2 DEF Connects, Attaches
  <2>3. /\ queued'[e] = queued[e] /\ (e \in tasks' => e \in tasks)
        /\ \A kind \in {"accepted", "refused"} : ToldOf(e, kind)' => ToldOf(e, kind)
    BY <1>3, <2>1
  <2> QED BY <1>2, <2>1, <2>2, <2>3, OnceKept DEF EnqueuedOnce
<1> QED BY <1>4, <1>5, <1>6, <1>7, <1>8

(* Grants say nothing of an enqueue.                                       *)
LEMMA GrantsOnce ==
    ASSUME LinkAssumption, Base, NEW e \in Enqueue,
           down' = down \/ (TellGrants /\ held' \subseteq Slot)
    PROVE  \A kind \in {"accepted", "refused"} : ToldOf(e, kind)' => ToldOf(e, kind)
<1>1. Of[e] \in Cast
  BY DEF LinkAssumption, Id
<1>2. \A k \in Conn, kind \in {"accepted", "refused"} :
        Down(Of[e], k, kind, e)' => Down(Of[e], k, kind, e)
  <2>1. CASE down' = down
    BY <2>1, DownSame
  <2>2. CASE TellGrants /\ held' \subseteq Slot
    <3>1. \A d \in Cast, j \in Conn : \A kind, x :
            Down(d, j, kind, x)' <=>
                \/ Down(d, j, kind, x)
                \/ j = peer[d] /\ d \notin over /\ kind = "granted" /\ x \in Mine(d, held' \ held)
      BY <2>2, GrantsTold DEF Base
    <3> QED BY <1>1, <3>1
  <2> QED BY <2>1, <2>2
<1> QED BY <1>2 DEF ToldOf

LEMMA ReadsOnce ==
    ASSUME LinkAssumption, Base, NEW e \in Enqueue, EnqueuedOnce(e), NEW k \in Conn,
           Reads(Of[e], k) \/ LosesConnection(Of[e], k)
    PROVE  EnqueuedOnce(e)'
<1> DEFINE c == Of[e]
           f == Head(up[c][k])
           x == f.about
<1>1. c \in Cast /\ e \in Id /\ Sole(e) /\ Once(e) /\ Base'
  BY ReadsBase, LosesBase DEF LinkAssumption, Id, EnqueuedOnce
<1>2. held' \subseteq Slot
  BY <1>1 DEF Base, Types
<1>3. CASE Reads(c, k)
  <2>1. /\ k \in handling[c] /\ up[c][k] # <<>> /\ Heard(c, k) /\ UNCHANGED <<work, ends>>
        /\ f = Frame(f.kind, x) /\ Up(c, k, f.kind, x)
        /\ \/ ReadsHello(c, k)
           \/ ReadsGoodbye(c, k)
           \/ UNCHANGED <<down, server, status, pool, faults>>
           \/ TellGrants /\ UNCHANGED <<server, board, faults>>
           \/ /\ x \in Mine(c, Enqueue) /\ f.kind = "enqueue"
              /\ ReadsEnqueue(c, k, x)
    BY <1>1, <1>3, ReadsWhat
  <2>2. Quiets(c, k)
    BY <2>1 DEF Quiets
  <2>3. /\ Sole(e)' /\ (Unread(e)' => Unread(e))
        /\ f = Frame("enqueue", e) => ~Unread(e)'
    BY <1>1, <2>1, <2>2, QuietOnce
  <2> HIDE DEF f, x
  <2>4. at' = at
    BY <2>1 DEF work
  <2>5. CASE \/ ReadsHello(c, k)
             \/ ReadsGoodbye(c, k)
             \/ UNCHANGED <<down, server, status, pool, faults>>
             \/ TellGrants /\ UNCHANGED <<server, board, faults>>
    <3>1. UNCHANGED <<tasks, queued>> /\ (down' = down \/ TellGrants)
      BY <2>1, <2>5 DEF ReadsHello, ReadsGoodbye, Goodbye, server
    <3>2. \A kind \in {"accepted", "refused"} : ToldOf(e, kind)' => ToldOf(e, kind)
      BY <1>2, <3>1, GrantsOnce
    <3> QED BY <1>1, <2>3, <2>4, <3>1, <3>2, OnceKept DEF EnqueuedOnce
  <2>6. CASE x \in Mine(c, Enqueue) /\ f.kind = "enqueue" /\ ReadsEnqueue(c, k, x)
    <3>1. tasks' = tasks \cup {x} /\ UNCHANGED <<queued, down>>
      BY <2>6 DEF ReadsEnqueue
    <3>2. \A kind \in {"accepted", "refused"} : ToldOf(e, kind)' => ToldOf(e, kind)
      BY <1>2, <3>1, GrantsOnce
    <3>3. CASE x # e
      BY <1>1, <2>3, <2>4, <3>1, <3>2, <3>3, OnceKept DEF EnqueuedOnce
    <3>4. CASE x = e
      <4>1. Unread(e) /\ ~Unread(e)'
        BY <2>1, <2>3, <2>6, <3>4 DEF Unread
      <4>2. ~ToldOf(e, "accepted")' /\ ~ToldOf(e, "refused")'
        BY <1>1, <3>2, <4>1 DEF Once
      <4>3. Once(e)'
        BY <1>1, <2>4, <3>1, <4>1, <4>2 DEF Once
      <4> QED BY <2>3, <4>3 DEF EnqueuedOnce
    <3> QED BY <3>3, <3>4
  <2> QED BY <2>1, <2>5, <2>6
<1>4. CASE LosesConnection(c, k)
  <2>1. /\ Quiets(c, k) /\ UNCHANGED <<work, tasks, queued>> /\ TellGrants
        /\ up' = [up EXCEPT ![c][k] = <<>>]
    BY <1>4 DEF LosesConnection, Quiets, Goodbye
  <2>2. Sole(e)' /\ (Unread(e)' => Unread(e))
    BY <1>1, <2>1, QuietOnce
  <2>3. \A kind \in {"accepted", "refused"} : ToldOf(e, kind)' => ToldOf(e, kind)
    BY <1>2, <2>1, GrantsOnce
  <2> QED BY <1>1, <2>1, <2>2, <2>3, OnceKept DEF EnqueuedOnce, work
<1> QED BY <1>3, <1>4

LEMMA TellsOnce ==
    ASSUME LinkAssumption, Base, NEW e \in Enqueue, EnqueuedOnce(e),
           \/ \E x \in Id : Of[x] = Of[e] /\ Answers(x)
           \/ \E g \in Enqueue : Of[g] = Of[e] /\ Settles(g)
    PROVE  EnqueuedOnce(e)'
<1> DEFINE c == Of[e]
<1>1. c \in Cast /\ e \in Id /\ Sole(e) /\ Once(e) /\ Types /\ peer[c] \in Conn \cup {None}
  BY ConnsAre DEF LinkAssumption, Id, EnqueuedOnce, Base
<1>2. PICK x \in Id : Of[x] = c /\ (Answers(x) \/ (x \in Enqueue /\ Settles(x)))
  BY DEF Id
<1>3. /\ UNCHANGED <<work, ends, up, handling, peer, status, held, waiting>>
      /\ Answers(x) => UNCHANGED <<tasks, queued>> /\ x \in known /\ x # e
  <2>1. Answers(x) => x \in Prompt \cup Await
    BY <1>1 DEF Answers, Types
  <2>2. Answers(x) => x \notin Enqueue
    BY <2>1, KindsOf
  <2> QED BY <1>2, <2>2 DEF Answers, Settles, server, board, pool
<1>4. Sole(e)' /\ (Unread(e)' => Unread(e))
  <2>1. \A k \in Conn : Up(c, k, "enqueue", e)' <=> Up(c, k, "enqueue", e)
    BY <1>3, UpSame
  <2> QED BY <1>1, <1>3, <2>1, SoleKept DEF Unread
<1>5. ASSUME NEW kind \in Tellings(x), Tell(c, peer[c], Frame(kind, x))
      PROVE  \A l \in {"accepted", "refused"} :
                ToldOf(e, l)' => ToldOf(e, l) \/ (x = e /\ kind = l)
  <2> DEFINE f == Frame(kind, x)
  <2>1. f \in DownFrames(c) /\ \A l, y : f = Frame(l, y) => l = kind /\ y = x
    BY <1>1, <1>2, DownFramed, Framed DEF Mine
  <2>2. Tell(c, peer[c], f)
    BY <1>5
  <2> HIDE DEF f
  <2>3. \A d \in Cast, j \in Conn : \A l, y :
            Down(d, j, l, y)' <=>
                \/ Down(d, j, l, y)
                \/ d = c /\ j = peer[c] /\ c \notin over /\ f = Frame(l, y)
    BY <1>1, <2>1, <2>2, Told
  <2>4. \A j \in Conn : \A l : Down(c, j, l, e)' => Down(c, j, l, e) \/ (x = e /\ kind = l)
    BY <1>1, <2>1, <2>3
  <2> QED BY <2>4 DEF ToldOf
<1>6. CASE Answers(x)
  <2>1. \E kind \in Tellings(x) : Tell(c, peer[c], Frame(kind, x))
    BY <1>1, <1>2, <1>6, AnswersTells
  <2>2. \A l \in {"accepted", "refused"} : ToldOf(e, l)' => ToldOf(e, l)
    BY <1>3, <1>5, <1>6, <2>1
  <2> QED BY <1>1, <1>3, <1>4, <1>6, <2>2, OnceKept DEF EnqueuedOnce, work
<1>7. CASE x \in Enqueue /\ Settles(x)
  <2>1. /\ x \in tasks /\ tasks' = tasks \ {x}
        /\ \/ queued' = [queued EXCEPT ![x] = @ + 1] /\ Tell(c, peer[c], Frame("accepted", x))
           \/ queued' = queued /\ Tell(c, peer[c], Frame("refused", x))
    BY <1>2, <1>7 DEF Settles
  <2>2. {"accepted", "refused"} = Tellings(x)
    BY <1>7, KindsOf
  <2>3. CASE x # e
    <3>1. \A l \in {"accepted", "refused"} : ToldOf(e, l)' => ToldOf(e, l)
      BY <1>5, <2>1, <2>2, <2>3
    <3>2. queued'[e] = queued[e] /\ (e \in tasks' => e \in tasks)
      BY <1>1, <2>1, <2>3 DEF Types
    <3> QED BY <1>1, <1>3, <1>4, <3>1, <3>2, OnceKept DEF EnqueuedOnce, work
  <2>4. CASE x = e
    <3>1. /\ queued[e] = 0 /\ at[e] \notin {"idle", "queued", "refused"} /\ ~Unread(e)
          /\ ~ToldOf(e, "accepted") /\ ~ToldOf(e, "refused")
      BY <1>1, <2>1, <2>4 DEF Once
    <3>2. e \notin tasks' /\ at' = at /\ ~Unread(e)'
      BY <1>3, <1>4, <2>1, <2>4, <3>1 DEF work
    <3>3. \/ queued'[e] = 1 /\ ~ToldOf(e, "refused")'
          \/ queued'[e] = 0 /\ ~ToldOf(e, "accepted")'
      <4>1. CASE queued' = [queued EXCEPT ![x] = @ + 1] /\ Tell(c, peer[c], Frame("accepted", x))
        <5>1. queued'[e] = 1
          BY <1>1, <2>4, <3>1, <4>1 DEF Types
        <5>2. ~ToldOf(e, "refused")'
          BY <1>5, <2>2, <3>1, <4>1
        <5> QED BY <5>1, <5>2
      <4>2. CASE queued' = queued /\ Tell(c, peer[c], Frame("refused", x))
        <5>1. ~ToldOf(e, "accepted")'
          BY <1>5, <2>2, <3>1, <4>2
        <5> QED BY <3>1, <4>2, <5>1
      <4> QED BY <2>1, <4>1, <4>2
    <3>4. Once(e)'
      BY <3>1, <3>2, <3>3 DEF Once
    <3> QED BY <1>4, <3>4 DEF EnqueuedOnce
  <2> QED BY <2>3, <2>4
<1> QED BY <1>2, <1>6, <1>7

LEMMA StopsOnce ==
    ASSUME LinkAssumption, Base, NEW e \in Enqueue, EnqueuedOnce(e), Stops
    PROVE  EnqueuedOnce(e)'
<1>1. Of[e] \in Cast
  BY DEF LinkAssumption, Id
<1>2. /\ tasks' = {} /\ UNCHANGED <<at, queued>>
      /\ \A k \in Conn : up'[Of[e]][k] = <<>> /\ down'[Of[e]][k] \in {<<>>, down[Of[e]][k]}
  BY <1>1 DEF Stops, work
<1>3. ~Unread(e)'
  BY <1>2 DEF Unread, Up, Range
<1>4. \A kind \in {"accepted", "refused"} : ToldOf(e, kind)' => ToldOf(e, kind)
  <2>1. ASSUME NEW k \in Conn, NEW kind, Down(Of[e], k, kind, e)' PROVE Down(Of[e], k, kind, e)
    <3>1. down'[Of[e]][k] # <<>>
      BY <2>1 DEF Down, Range
    <3>2. down'[Of[e]][k] = down[Of[e]][k]
      BY <1>2, <3>1
    <3> QED BY <2>1, <3>2, DownSame
  <2> QED BY <2>1 DEF ToldOf
<1>5. Sole(e)'
  BY <1>2, SoleKept DEF EnqueuedOnce
<1>6. Once(e)'
  BY <1>2, <1>3, <1>4, OnceKept DEF EnqueuedOnce
<1> QED BY <1>5, <1>6 DEF EnqueuedOnce

LEMMA InitOnce == ASSUME LinkAssumption, Init, NEW e \in Enqueue PROVE EnqueuedOnce(e)
<1>1. Of[e] \in Cast /\ e \in Id
  BY DEF LinkAssumption, Id
<1>2. /\ at[e] = "idle" /\ queued[e] = 0 /\ e \notin tasks
      /\ \A k \in Conn : up[Of[e]][k] = <<>> /\ down[Of[e]][k] = <<>>
  BY <1>1 DEF Init
<1>3. ~Unread(e) /\ Sole(e) /\ ~ToldOf(e, "accepted") /\ ~ToldOf(e, "refused")
  BY <1>2 DEF Unread, ToldOf, Up, Down, Range, Sole
<1> QED BY <1>2, <1>3 DEF EnqueuedOnce, Once

LEMMA NextOnce ==
    ASSUME LinkAssumption, Base, NEW e \in Enqueue, EnqueuedOnce(e), [Next]_vars
    PROVE  EnqueuedOnce(e)'
<1>1. Of[e] \in Cast /\ e \in Id
  BY DEF LinkAssumption, Id
<1>2. ASSUME NEW c \in Cast,
             Connects(c) \/ Attaches(c) \/ Hears(c) \/ Gone(c) \/ Ends(c) \/ Dies(c)
      PROVE  EnqueuedOnce(e)'
  <2>1. CASE c # Of[e]
    <3>1. Aside(Of[e])
      BY <1>1, <1>2, <2>1, ConnectsBase, AttachesBase, HearsBase, GoneBase, EndsBase
    <3> QED BY <3>1, AsideOnce
  <2>2. CASE c = Of[e]
    BY <1>2, <2>2, CastOnce
  <2> QED BY <2>1, <2>2
<1>3. ASSUME NEW x \in Id, Begins(x) \/ Closes(x) \/ Answers(x) PROVE EnqueuedOnce(e)'
  <2>1. CASE Of[x] # Of[e]
    <3>1. Aside(Of[e])
      BY <1>1, <1>3, <2>1, BeginsBase, ClosesBase, AnswersBase
    <3> QED BY <3>1, AsideOnce
  <2>2. CASE Of[x] = Of[e]
    BY <1>3, <2>2, CastOnce, TellsOnce
  <2> QED BY <2>1, <2>2
<1>4. ASSUME NEW c \in Cast, NEW k \in Conn, Reads(c, k) \/ LosesConnection(c, k)
      PROVE  EnqueuedOnce(e)'
  <2>1. CASE c # Of[e]
    <3>1. Aside(Of[e])
      BY <1>1, <1>4, <2>1, ReadsBase, LosesBase
    <3> QED BY <3>1, AsideOnce
  <2>2. CASE c = Of[e]
    BY <1>4, <2>2, ReadsOnce
  <2> QED BY <2>1, <2>2
<1>5. ASSUME NEW g \in Enqueue, Settles(g) PROVE EnqueuedOnce(e)'
  <2>1. CASE Of[g] # Of[e]
    <3>1. Aside(Of[e])
      BY <1>1, <1>5, <2>1, SettlesBase
    <3> QED BY <3>1, AsideOnce
  <2>2. CASE Of[g] = Of[e]
    BY <1>5, <2>2, TellsOnce
  <2> QED BY <2>1, <2>2
<1>6. CASE Stops
  BY <1>6, StopsOnce
<1>7. CASE Serves \/ UNCHANGED vars
  <2>1. UNCHANGED <<at, up, down, tasks, queued>>
    BY <1>7 DEF Serves, vars, work
  <2> QED BY <2>1 DEF EnqueuedOnce, Sole, Once, Unread, ToldOf, Up, Down, Frame
<1> QED BY <1>2, <1>3, <1>4, <1>5, <1>6, <1>7 DEF Next

(* What a cast is told of an enqueue is so, and nothing is queued twice,   *)
(* whatever either end lost: an enqueue is in one place only, unread, in   *)
(* hand or told, and is queued just when it leaves the daemon's hand.      *)
THEOREM QueuedAsToldCorrect == Spec => []QueuedAsTold
<1> DEFINE Inv == Base /\ \A e \in Enqueue : EnqueuedOnce(e)
<1>1. Init => Inv
  BY LinkAssumption, InitBase, InitOnce
<1>2. Inv /\ [Next]_vars => Inv'
  <2> SUFFICES ASSUME Inv, [Next]_vars PROVE Inv'
    OBVIOUS
  <2>1. Base'
    BY LinkAssumption, NextBase
  <2>2. \A e \in Enqueue : EnqueuedOnce(e)'
    BY LinkAssumption, NextOnce
  <2> QED BY <2>1, <2>2
<1>3. Inv => QueuedAsTold
  BY DEF QueuedAsTold, EnqueuedOnce, Once
<1> QED BY <1>1, <1>2, <1>3, PTL DEF Spec

-----------------------------------------------------------------------------
(* Waits: what a cast waits on can come to it.                             *)

LEMMA ClaimsKept ==
    ASSUME LinkAssumption, Types, NEW c \in Cast, NEW k \in Conn, NEW x, ClaimsTrue(c, k, x),
           \/ down'[c][k] = down[c][k] /\ (x \in claims => x \in claims')
           \/ ToldGrants(c, k) /\ held' \subseteq Slot /\ (x \in claims => x \in claims')
           \/ down[c][k] # <<>> /\ down'[c][k] = Tail(down[c][k]) /\ (x \in claims => x \in claims')
           \/ \E f \in DownFrames(c) :
                /\ down'[c][k] = Append(down[c][k], f)
                /\ f = Frame("claimed", x) => x \in claims'
                /\ x \in claims => x \in claims' \/ f = Frame("unclaimed", x)
    PROVE  ClaimsTrue(c, k, x)'
<1> DEFINE said == Frame("claimed", x)
           gone == Frame("unclaimed", x)
<1>1. SUFFICES ASSUME x \notin claims', NEW i \in DOMAIN down'[c][k], down'[c][k][i] = said
               PROVE  \E j \in DOMAIN down'[c][k] : j > i /\ down'[c][k][j] = gone
  BY DEF ClaimsTrue, Frame
<1>2. down[c][k] \in Seq(DownFrames(c))
  BY DEF Types, DownTypes
<1>3. said # gone
  BY Framed
<1> HIDE DEF said, gone
<1>4. x \notin claims =>
        \A l \in DOMAIN down[c][k] : down[c][k][l] = said =>
            \E j \in DOMAIN down[c][k] : j > l /\ down[c][k][j] = gone
  BY DEF ClaimsTrue, said, gone
<1>5. CASE down'[c][k] = down[c][k] /\ (x \in claims => x \in claims')
  BY <1>1, <1>4, <1>5
<1>6. CASE ToldGrants(c, k) /\ held' \subseteq Slot /\ (x \in claims => x \in claims')
  <2>1. PICK g \in Seq(Grants(c)) : down'[c][k] = down[c][k] \o g
    BY <1>6 DEF ToldGrants
  <2>2. Grants(c) \subseteq DownFrames(c) /\ said \notin Grants(c)
    <3>1. ASSUME NEW s \in Mine(c, held' \ held)
          PROVE  Frame("granted", s) \in DownFrames(c) /\ Frame("granted", s) # said
      <4>1. s \in Id /\ Of[s] = c /\ s \in Slot
        BY <1>6 DEF Mine, Id
      <4>2. "granted" \in Tellings(s)
        BY <4>1, KindsOf
      <4> QED BY <4>1, <4>2, DownFramed, Framed DEF Mine, said
    <3> QED BY <3>1 DEF Grants
  <2>3. g \in Seq(DownFrames(c)) /\ \A j \in DOMAIN g : g[j] # said
    <3>1. \A j \in DOMAIN g : g[j] \in Grants(c)
      BY InSeq
    <3>2. g \in Seq(DownFrames(c))
      BY <2>2, InSeq, SeqDef
    <3> QED BY <2>2, <3>1, <3>2
  <2> DEFINE s == down[c][k]
             t == down'[c][k]
  <2>4. /\ t \in Seq(DownFrames(c)) /\ DOMAIN s \subseteq DOMAIN t
        /\ \A l \in DOMAIN s : t[l] = s[l]
        /\ \A l \in DOMAIN t : \/ l \in DOMAIN s
                               \/ /\ l - Len(s) \in DOMAIN g /\ t[l] = g[l - Len(s)]
                                  /\ \A j \in DOMAIN s : j < l
        /\ Range(t) = Range(s) \cup Range(g)
    <3> HIDE DEF s, t
    <3>1. s \in Seq(DownFrames(c)) /\ t = s \o g
      BY <1>2, <2>1 DEF s, t
    <3> QED BY <2>3, <3>1, Joined
  <2>5. i \in DOMAIN down[c][k] /\ down[c][k][i] = said
    BY <1>1, <2>3, <2>4
  <2>6. PICK j \in DOMAIN down[c][k] : j > i /\ down[c][k][j] = gone
    BY <1>1, <1>4, <1>6, <2>5
  <2> QED BY <2>4, <2>6
<1>7. CASE down[c][k] # <<>> /\ down'[c][k] = Tail(down[c][k]) /\ (x \in claims => x \in claims')
  <2> DEFINE s == down[c][k]
             t == down'[c][k]
  <2>1. /\ t \in Seq(DownFrames(c)) /\ Head(s) \in DownFrames(c)
        /\ 1 \in DOMAIN s /\ s[1] = Head(s)
        /\ \A l \in DOMAIN t : l + 1 \in DOMAIN s /\ t[l] = s[l + 1] /\ l \in Nat \ {0}
        /\ \A l \in DOMAIN s :
            l = 1 \/ (l - 1 \in DOMAIN t /\ t[l - 1] = s[l] /\ l > 1 /\ l \in Nat)
        /\ Range(s) = {Head(s)} \cup Range(t)
    <3> HIDE DEF s, t
    <3>1. s \in Seq(DownFrames(c)) /\ s # <<>> /\ t = Tail(s)
      BY <1>2, <1>7 DEF s, t
    <3> QED BY <3>1, Tailed
  <2>2. PICK j \in DOMAIN down[c][k] : j > i + 1 /\ down[c][k][j] = gone
    BY <1>1, <1>4, <1>7, <2>1
  <2>3. i \in Nat \ {0} /\ j # 1
    <3>1. i \in Nat \ {0}
      BY <1>1, <2>1
    <3>2. ~(1 > i + 1)
      BY <3>1
    <3> QED BY <2>2, <3>1, <3>2
  <2>4. j - 1 \in DOMAIN down'[c][k] /\ down'[c][k][j - 1] = gone /\ j \in Nat
    BY <2>1, <2>2, <2>3
  <2>5. j - 1 > i
    BY <2>2, <2>3, <2>4
  <2> QED BY <2>4, <2>5
<1>8. CASE \E f \in DownFrames(c) :
                /\ down'[c][k] = Append(down[c][k], f)
                /\ f = Frame("claimed", x) => x \in claims'
                /\ x \in claims => x \in claims' \/ f = Frame("unclaimed", x)
  <2>1. PICK f \in DownFrames(c) :
                /\ down'[c][k] = Append(down[c][k], f)
                /\ f = said => x \in claims'
                /\ x \in claims => x \in claims' \/ f = gone
    BY <1>8 DEF said, gone
  <2> DEFINE n == Len(down[c][k]) + 1
  <2>2. /\ DOMAIN down[c][k] \subseteq DOMAIN down'[c][k]
        /\ n \in DOMAIN down'[c][k] /\ down'[c][k][n] = f
        /\ \A l \in DOMAIN down[c][k] : down'[c][k][l] = down[c][k][l] /\ l < n
        /\ \A l \in DOMAIN down'[c][k] : l \in DOMAIN down[c][k] \/ l = n
    BY <1>2, <2>1, Appended
  <2>3. n \in Nat /\ \A l \in DOMAIN down[c][k] : l \in Nat
    BY <1>2, InSeq
  <2> HIDE DEF n
  <2>4. i \in DOMAIN down[c][k] /\ down[c][k][i] = said
    BY <1>1, <2>1, <2>2
  <2>5. CASE x \in claims
    <3>1. f = gone
      BY <1>1, <2>1, <2>5
    <3>2. n > i
      BY <2>2, <2>3, <2>4
    <3> QED BY <2>2, <3>1, <3>2
  <2>6. CASE x \notin claims
    <3>1. PICK j \in DOMAIN down[c][k] : j > i /\ down[c][k][j] = gone
      BY <1>4, <2>4, <2>6
    <3> QED BY <2>2, <3>1
  <2> QED BY <2>5, <2>6
<1> QED BY <1>5, <1>6, <1>7, <1>8

LEMMA ReachKept ==
    ASSUME LinkAssumption, NEW c, NEW k, NEW x \in Id, Reachable(c, k, x), Types',
           Said(c, k, x) => Said(c, k, x)' \/ x \in known' \cup Pooled' \cup tasks',
           x \in known => x \in known' \/ (x \in Await /\ Down(c, k, "childEnded", x)'),
           x \in Pooled => x \in Pooled',
           x \in tasks => x \in tasks' \/ Down(c, k, "accepted", x)' \/ Down(c, k, "refused", x)',
           \A kind \in {"granted", "accepted", "refused", "childEnded"} :
                Down(c, k, kind, x) => Down(c, k, kind, x)',
           x \in held' => x \in held \/ Down(c, k, "granted", x)',
           x \in Prompt /\ x \in claimed' => x \in claims' \/ Down(c, k, "unclaimed", x)',
           ClaimsTrue(c, k, x) => ClaimsTrue(c, k, x)'
    PROVE  Reachable(c, k, x)'
<1>1. /\ known' \subseteq Prompt \cup Await /\ tasks' \subseteq Enqueue /\ Pooled' \subseteq Slot
      /\ \A kind : kind = Opener(x) => /\ Said(c, k, x) <=> Up(c, k, kind, x)
                                       /\ Said(c, k, x)' <=> Up(c, k, kind, x)'
  <2>1. Pooled' = held' \cup Pool!Requests(waiting')
    BY DEF Pooled, Pool!Requests
  <2>2. \A kind : kind = Opener(x) => /\ Said(c, k, x) <=> Up(c, k, kind, x)
                                      /\ Said(c, k, x)' <=> Up(c, k, kind, x)'
    BY SameSaid DEF Said
  <2> QED BY <2>1, <2>2 DEF Types, Pool!Requests
<1>2. CASE x \in Prompt
  <2>1. x \notin Slot \cup Enqueue \cup Await /\ "asked" = Opener(x)
    BY <1>2, KindsOf
  <2>2. x \in known' \/ Up(c, k, "asked", x)'
    BY <1>1, <1>2, <2>1 DEF Reachable
  <2> QED BY <1>2, <2>1, <2>2 DEF Reachable
<1>3. CASE x \in Slot
  <2>1. x \notin Prompt \cup Enqueue \cup Await /\ "slot" = Opener(x)
    BY <1>3, KindsOf
  <2>2. Up(c, k, "slot", x)' \/ x \in Pooled'
    BY <1>1, <1>3, <2>1 DEF Reachable
  <2> QED BY <1>3, <2>1, <2>2 DEF Reachable
<1>4. CASE x \in Enqueue
  <2>1. x \notin Prompt \cup Slot \cup Await /\ "enqueue" = Opener(x)
    BY <1>4, KindsOf
  <2>2. Up(c, k, "enqueue", x) => Up(c, k, "enqueue", x)' \/ x \in tasks'
    BY <1>1, <1>4, <2>1
  <2> QED BY <1>4, <2>1, <2>2 DEF Reachable
<1>5. CASE x \in Await
  <2>1. x \notin Prompt \cup Slot \cup Enqueue /\ "awaits" = Opener(x)
    BY <1>5, KindsOf
  <2>2. Up(c, k, "awaits", x) => Up(c, k, "awaits", x)' \/ x \in known'
    BY <1>1, <1>5, <2>1
  <2> QED BY <1>5, <2>1, <2>2 DEF Reachable
<1> QED BY <1>2, <1>3, <1>4, <1>5, KindsOf

LEMMA HeedKept ==
    ASSUME NEW c \in Cast, NEW k \in Nat, conn[c] = k, conn'[c] = k, Heeded(c),
           k = None => \A x \in Waits(c)' :
                (x \in Waits(c) => x \in Prompt \cup Await /\ x \notin claimed)
                    => x \in Prompt \cup Await /\ x \notin claimed',
           \A x \in Waits(c)', j \in Conn :
                Up(c, j, "slot", x)' => j = k \/ (x \in Waits(c) /\ Up(c, j, "slot", x)),
           k \in handling'[c] => k \in handling[c] /\ (Unmet(c, k)' <=> Unmet(c, k)),
           k \in handling'[c] /\ Unmet(c, k) => \A x \in Waits(c)' :
                (x \in Waits(c) => Said(c, k, x) /\ x \notin claimed \cup Pooled)
                    => Said(c, k, x)' /\ x \notin claimed' \cup Pooled',
           k \in handling'[c] /\ ~Unmet(c, k) /\ peer[c] = k =>
                /\ peer'[c] = k
                /\ \A j \in handling'[c] :
                    j # k => j \in handling[c] /\ (up[c][j] = <<>> => up'[c][j] = <<>>)
                /\ status'[c] = "running" =>
                    /\ status[c] = "running"
                    /\ \A x \in Waits(c)' :
                        (x \in Waits(c) => Reachable(c, k, x)) => Reachable(c, k, x)'
    PROVE  Heeded(c)'
<1>1. Heeds(c, k)
  BY DEF Heeded
<1>2. Heeds(c, k)'
  <2>1. k = None => \A x \in Waits(c)' : x \in Prompt \cup Await /\ x \notin claimed'
    BY <1>1 DEF Heeds
  <2>2. \A x \in Waits(c)', j \in Conn : Up(c, j, "slot", x)' => j = k
    BY <1>1 DEF Heeds
  <2>3. ASSUME k \in handling'[c], Unmet(c, k)
        PROVE  \A x \in Waits(c)' : Said(c, k, x)' /\ x \notin claimed' \cup Pooled'
    BY <1>1, <2>3 DEF Heeds
  <2>4. ASSUME k \in handling'[c], ~Unmet(c, k)
        PROVE  /\ peer'[c] = k
               /\ \A j \in handling'[c] : j # k => up'[c][j] = <<>>
               /\ status'[c] = "running" => \A x \in Waits(c)' : Reachable(c, k, x)'
    BY <1>1, <2>4 DEF Heeds
  <2>5. Conn' = Conn
    BY DEF Conn
  <2> QED BY <2>1, <2>2, <2>3, <2>4, <2>5 DEF Heeds
<1> QED BY <1>2 DEF Heeded

LEMMA AsideHeeded ==
    ASSUME LinkAssumption, Base, Base', NEW d \in Cast, Aside(d), Heeded(d)
    PROVE  Heeded(d)'
<1>1. /\ Types /\ Types' /\ Connections(d) /\ conn[d] \in Nat /\ None \notin Conn
      /\ handling[d] \subseteq Conn
  BY ConnsAre DEF Base, Types
<1>12. PICK k \in Nat : conn[d] = k
  BY <1>1
<1>2. /\ conn'[d] = conn[d] /\ peer'[d] = peer[d] /\ handling'[d] = handling[d] /\ status'[d] = status[d]
      /\ \A x \in Mine(d, Id) :
            /\ at'[x] = at[x]
            /\ x \in claimed' <=> x \in claimed
            /\ x \in known' <=> x \in known
            /\ x \in claims' <=> x \in claims
            /\ x \in tasks' <=> x \in tasks
            /\ x \in Pooled' <=> x \in Pooled
      /\ \A j \in Conn : up'[d][j] = up[d][j]
      /\ \A j \in Conn : down'[d][j] = down[d][j] \/ ToldGrants(d, j)
      /\ \A j \in Conn : \A kind, x :
            Down(d, j, kind, x)' <=>
                \/ Down(d, j, kind, x)
                \/ j = peer[d] /\ d \notin over /\ kind = "granted" /\ x \in Mine(d, held' \ held)
  BY DEF Aside
<1>3. \A j \in Conn : \A kind, x : Up(d, j, kind, x)' <=> Up(d, j, kind, x)
  BY <1>2, UpSame
<1>4. \A x : x \in Waits(d)' <=> x \in Waits(d)
  BY <1>2 DEF Waits, Mine, Id
<1>5. Waits(d) \subseteq Mine(d, Id) /\ \A x \in Mine(d, Id) : x \in Id /\ Of[x] = d
  BY DEF Waits, Mine
<1>6. ASSUME k \in Conn, peer[d] = k, NEW x \in Waits(d), Reachable(d, k, x)
      PROVE  Reachable(d, k, x)'
  <2>1. x \in Mine(d, Id) /\ x \in Id
    BY <1>5
  <2>2. d \notin over
    BY <1>1, <1>6, <1>12 DEF Connections
  <2>3. ClaimsTrue(d, k, x) => ClaimsTrue(d, k, x)'
    <3>1. x \in claims => x \in claims'
      BY <1>2, <2>1
    <3>2. held' \subseteq Slot
      BY <1>1 DEF Types
    <3>3. down'[d][k] = down[d][k] \/ ToldGrants(d, k)
      BY <1>2, <1>6
    <3> QED BY <1>1, <1>6, <3>1, <3>2, <3>3, ClaimsKept
  <2>4. x \in held' => x \in held \/ Down(d, k, "granted", x)'
    BY <1>2, <1>6, <2>1, <2>2 DEF Mine
  <2>5. \A kind : Down(d, k, kind, x) => Down(d, k, kind, x)'
    BY <1>2, <1>6
  <2>6. Said(d, k, x) => Said(d, k, x)'
    BY <1>3, <1>6, SameSaid DEF Said
  <2>7. x \in Prompt /\ x \in claimed' => x \in claims' \/ Down(d, k, "unclaimed", x)'
    <3>1. x \in Prompt /\ x \in claimed => x \in claims \/ Down(d, k, "unclaimed", x)
      BY <1>6 DEF Reachable
    <3> QED BY <1>2, <2>1, <2>5, <3>1
  <2> QED BY <1>1, <1>2, <1>6, <2>1, <2>3, <2>4, <2>5, <2>6, <2>7, ReachKept
<1>7. \A x \in Waits(d), j \in Conn : Up(d, j, "slot", x)' => Up(d, j, "slot", x)
  BY <1>3
<1>8. k \in Conn => /\ Unmet(d, k)' <=> Unmet(d, k)
                   /\ \A x : Said(d, k, x)' <=> Said(d, k, x)
  BY <1>3, SameSaid DEF Unmet, Said
<1>9. \A x \in Waits(d) : /\ x \in claimed' <=> x \in claimed
                          /\ x \in Pooled' <=> x \in Pooled
  BY <1>2, <1>5
<1>10. \A j \in handling'[d] : j \in handling[d] /\ j \in Conn /\ up'[d][j] = up[d][j]
  BY <1>1, <1>2
<1>11. k \in handling'[d] => k \in Conn
  BY <1>10
<1> QED BY <1>1, <1>2, <1>4, <1>6, <1>7, <1>8, <1>9, <1>10, <1>11, <1>12, HeedKept

(* A closed cast waits on nothing.                                         *)
LEMMA OverHeeded ==
    ASSUME LinkAssumption, Base', NEW c \in Cast, c \in over'
    PROVE  Heeded(c)'
<1>1. conn'[c] = None /\ handling'[c] \subseteq Conn /\ \A x \in Mine(c, Id) : at'[x] \notin Wanted
  BY SameSaid DEF Base, Connections, Types, Conn
<1>2. Waits(c)' = {}
  BY <1>1 DEF Waits, Wanted, Mine, Id
<1>3. None \notin Conn
  BY DEF LinkAssumption, Conn, None
<1>4. ASSUME NEW k \in Nat, k = conn'[c] PROVE Heeds(c, k)'
  BY <1>1, <1>2, <1>3, <1>4 DEF Heeds
<1> QED BY <1>4 DEF Heeded

LEMMA SaidOf ==
    ASSUME LinkAssumption, Types, NEW c \in Cast, NEW k \in Conn, NEW x,
           NEW kind \in UpKinds \ {"hello", "goodbye"}, Up(c, k, kind, x)
    PROVE  x \in Mine(c, Id) /\ (kind = Opener(x) \/ kind \in Endings(x))
<1> DEFINE f == Frame(kind, x)
<1>1. up[c][k] \in Seq(UpFrames(c)) /\ f \in Range(up[c][k])
  BY DEF Types, UpTypes, Up
<1>2. f.kind = kind /\ f.about = x
  BY Framed
<1> HIDE DEF f
<1>3. f \in UpFrames(c)
  BY <1>1, InSeq
<1> QED BY <1>2, <1>3, UpFrameIs DEF Mine

(* A cast begins, ends, or hears of, one thing it waits on: what else it   *)
(* waits on comes to it as before.                                         *)
LEMMA WorksHeeded ==
    ASSUME LinkAssumption, Base, Base', NEW c \in Cast, NEW x \in Mine(c, Id),
           NEW k \in Nat, conn[c] = k, Heeded(c),
           UNCHANGED <<ends, server, board, pool>>,
           up' = up \/ \E kind \in {Opener(x)} \cup Endings(x) : Send(c, Frame(kind, x)),
           \/ down' = down
           \/ k \in Conn /\ down[c][k] # <<>> /\ Hear(c) /\ Head(down[c][k]).about = x,
           \A y \in Id : y # x => at'[y] = at[y],
           \A y : y # x => (y \in claimed' <=> y \in claimed),
           x \in Waits(c)' =>
                /\ k = None => x \in Prompt \cup Await /\ x \notin claimed'
                /\ \A j \in Conn : Up(c, j, "slot", x)' => j = k
                /\ k \in handling[c] =>
                    IF Unmet(c, k) THEN Said(c, k, x)' /\ x \notin claimed' \cup Pooled
                    ELSE status[c] = "running" => Reachable(c, k, x)'
    PROVE  Heeded(c)'
<1>1. Types /\ Types' /\ Connections(c) /\ x \in Id /\ Of[x] = c /\ None \notin Conn
      /\ handling[c] \subseteq Conn
  BY ConnsAre DEF Base, Mine, Types
<1>2. UNCHANGED <<conn, connecting, over, opened, handling, peer, tasks,
                  status, known, claims, held, waiting>>
  BY DEF ends, server, board, pool
<1>3. Pooled' = Pooled
  BY <1>2 DEF Pooled, Pool!Requests
<1>4. /\ \A j \in Conn : up'[c][j] = up[c][j] \/ j = k
      /\ \A j \in Conn : \A kind, y : Up(c, j, kind, y) => Up(c, j, kind, y)'
      /\ \A j \in Conn : \A kind, y : Up(c, j, kind, y)' => Up(c, j, kind, y) \/ y = x
      /\ \A j \in Conn : Unmet(c, j)' <=> Unmet(c, j)
  <2>1. PICK kind \in {Opener(x)} \cup Endings(x) : up' = up \/ Send(c, Frame(kind, x))
    OBVIOUS
  <2> DEFINE f == Frame(kind, x)
  <2>2. /\ f \in UpFrames(c) /\ f.kind # "hello" /\ \A l, y : f = Frame(l, y) => y = x
    BY <1>1, UpFramed, OpenerKinds, Framed
  <2>3. up' = up \/ Send(c, f)
    BY <2>1
  <2> HIDE DEF f
  <2>4. /\ UpTypes'
        /\ \A d \in Cast, j \in Conn :
            \/ up'[d][j] = up[d][j]
            \/ d = c /\ j = conn[c] /\ up'[d][j] = Append(up[d][j], f)
        /\ \A d \in Cast, j \in Conn : \A l, y :
            Up(d, j, l, y)' => \/ Up(d, j, l, y)
                               \/ d = c /\ j = conn[c] /\ f = Frame(l, y)
        /\ \A d \in Cast, j \in Conn : \A l, y : Up(d, j, l, y) => Up(d, j, l, y)'
        /\ \A j \in Conn :
            /\ Unmet(c, j)' <=> Unmet(c, j)
            /\ j > opened[c] \/ j = connecting[c] => up'[c][j] = <<>>
            /\ \A i \in DOMAIN up'[c][j] : up'[c][j][i].kind = "hello" => i = 1
    BY <2>2, <2>3, Wrote
  <2>5. \A j \in Conn : up'[c][j] = up[c][j] \/ j = k
    BY <2>4
  <2>6. \A j \in Conn : \A l, y : Up(c, j, l, y)' => Up(c, j, l, y) \/ y = x
    BY <2>2, <2>4
  <2>7. \A j \in Conn : \A l, y : Up(c, j, l, y) => Up(c, j, l, y)'
    BY <2>4
  <2> QED BY <2>4, <2>5, <2>6, <2>7
<1>5. \A y \in Id : y # x => (y \in Waits(c)' <=> y \in Waits(c))
  BY DEF Waits, Mine, Id
<1>6. \A y \in Waits(c)' : y \in Id
  BY DEF Waits, Mine, Id
<1>7. k \in Conn => \A y : Said(c, k, y) => Said(c, k, y)'
  BY <1>4, SameSaid DEF Said
<1>8. ASSUME k \in Conn, NEW y \in Waits(c)', y # x, Reachable(c, k, y)
      PROVE  Reachable(c, k, y)'
  <2>1. \A kind : Down(c, k, kind, y) => Down(c, k, kind, y)'
    <3>1. CASE down' = down
      BY <3>1, DownSame
    <3>2. CASE down[c][k] # <<>> /\ Hear(c) /\ Head(down[c][k]).about = x
      <4> DEFINE f == Head(down[c][k])
      <4>1. \A kind : f # Frame(kind, y)
        BY <1>8, <3>2, Framed
      <4>2. /\ DownTypes' /\ Head(down[c][conn[c]]) \in DownFrames(c)
            /\ \A d \in Cast, j \in Conn :
                down'[d][j] = IF d = c /\ j = conn[c] THEN Tail(down[d][j]) ELSE down[d][j]
            /\ \A d \in Cast, j \in Conn : \A kind, z :
                Down(d, j, kind, z) <=>
                    \/ Down(d, j, kind, z)'
                    \/ d = c /\ j = conn[c] /\ Head(down[c][conn[c]]) = Frame(kind, z)
        BY <1>1, <1>8, <3>2, HeardDown
      <4> HIDE DEF f
      <4>3. \A kind : Down(c, k, kind, y) <=> Down(c, k, kind, y)' \/ f = Frame(kind, y)
        BY <1>8, <4>2 DEF f
      <4> QED BY <4>1, <4>3
    <3> QED BY <1>8, <3>1, <3>2
  <2>2. ClaimsTrue(c, k, y) => ClaimsTrue(c, k, y)'
    <3>1. y \in claims => y \in claims'
      BY <1>2
    <3>2. \/ down'[c][k] = down[c][k]
          \/ down[c][k] # <<>> /\ down'[c][k] = Tail(down[c][k])
      <4>1. CASE down' = down
        BY <4>1
      <4>2. CASE down[c][k] # <<>> /\ Hear(c)
        BY <1>1, <1>8, <4>2, HeardDown
      <4> QED BY <1>8, <4>1, <4>2
    <3> QED BY <1>1, <1>8, <3>1, <3>2, ClaimsKept
  <2>3. y \in Id
    BY <1>6, <1>8
  <2>4. y \in Prompt /\ y \in claimed' => y \in claims' \/ Down(c, k, "unclaimed", y)'
    <3>1. y \in Prompt /\ y \in claimed => y \in claims \/ Down(c, k, "unclaimed", y)
      BY <1>8 DEF Reachable
    <3> QED BY <1>2, <1>8, <2>1, <3>1
  <2> QED BY <1>1, <1>2, <1>3, <1>7, <1>8, <2>1, <2>2, <2>3, <2>4, ReachKept
<1>9. \A y \in Waits(c)', j \in Conn :
            Up(c, j, "slot", y)' => j = k \/ (y \in Waits(c) /\ Up(c, j, "slot", y))
  BY <1>4, <1>5, <1>6
<1>10. k = None => \A y \in Waits(c)' :
                (y \in Waits(c) => y \in Prompt \cup Await /\ y \notin claimed)
                    => y \in Prompt \cup Await /\ y \notin claimed'
  BY <1>5, <1>6
<1>11. k \in handling[c] /\ Unmet(c, k) => \A y \in Waits(c)' :
                (y \in Waits(c) => Said(c, k, y) /\ y \notin claimed \cup Pooled)
                    => Said(c, k, y)' /\ y \notin claimed' \cup Pooled'
  BY <1>1, <1>3, <1>5, <1>6, <1>7
<1>12. k \in handling[c] /\ ~Unmet(c, k) /\ status[c] = "running" =>
            \A y \in Waits(c)' : (y \in Waits(c) => Reachable(c, k, y)) => Reachable(c, k, y)'
  BY <1>1, <1>5, <1>6, <1>8
<1>13. \A j \in handling[c] : j # k => up'[c][j] = up[c][j]
  BY <1>1, <1>4
<1>14. k \in handling[c] => (Unmet(c, k)' <=> Unmet(c, k))
  BY <1>1, <1>4
<1> QED BY <1>2, <1>9, <1>10, <1>11, <1>12, <1>13, <1>14, HeedKept

LEMMA BeginsHeeded ==
    ASSUME LinkAssumption, Base, Base', NEW x \in Id, Begins(x), Heeded(Of[x])
    PROVE  Heeded(Of[x])'
<1> DEFINE c == Of[x]
<1>1. /\ c \in Cast /\ Types /\ Types' /\ Begun(c) /\ x \in Mine(c, Id) /\ None \notin Conn
      /\ handling[c] \subseteq Conn
  BY KindsOf, ConnsAre DEF Base, Mine, Types
<1>2. PICK k \in Nat : conn[c] = k
  BY <1>1 DEF Types
<1>3. /\ at[x] = "idle"
      /\ conn[c] = None => x \in Prompt \cup Slot
      /\ UNCHANGED <<claimed, ends, down, server, board, pool>>
      /\ at' = [at EXCEPT ![x] = IF x \in Slot /\ conn[c] = None THEN "running" ELSE "waiting"]
      /\ IF at'[x] = "running" THEN UNCHANGED up ELSE Send(c, Frame(Opener(x), x))
  BY DEF Begins, Opener
<1> HIDE DEF c
<1>4. /\ \A y \in Id : y # x => at'[y] = at[y]
      /\ at'[x] = IF x \in Slot /\ k = None THEN "running" ELSE "waiting"
  BY <1>1, <1>2, <1>3 DEF Types
<1>5. /\ x \notin claimed /\ x \notin known \cup Pooled \cup tasks
      /\ \A j \in Conn : /\ \A kind \in {Opener(x)} \cup Endings(x) : ~Up(c, j, kind, x)
                         /\ \A kind \in Tellings(x) : ~Down(c, j, kind, x)
  <2>1. x \notin claimed
    BY <1>1, <1>3 DEF Types
  <2> QED BY <1>1, <1>3, <2>1 DEF Begun, Mine
<1>6. ASSUME x \in Waits(c)'
      PROVE  /\ k = None => x \in Prompt \cup Await /\ x \notin claimed'
             /\ \A j \in Conn : Up(c, j, "slot", x)' => j = k
             /\ k \in handling[c] =>
                    IF Unmet(c, k) THEN Said(c, k, x)' /\ x \notin claimed' \cup Pooled
                    ELSE status[c] = "running" => Reachable(c, k, x)'
  <2>1. at'[x] = "waiting" /\ Send(c, Frame(Opener(x), x))
    BY <1>3, <1>6 DEF Waits
  <2>2. k = None => x \in Prompt \cup Await /\ x \notin claimed'
    BY <1>2, <1>3, <1>4, <1>5, <2>1
  <2>3. Frame(Opener(x), x) \in UpFrames(c) /\ conn[c] \in Conn \cup {None}
    BY <1>1, UpFramed, ConnsAre
  <2>4. \A j \in Conn : \A kind, y : Up(c, j, kind, y)' <=>
            Up(c, j, kind, y) \/ (j = k /\ kind = Opener(x) /\ y = x)
    <3> DEFINE f == Frame(Opener(x), x)
    <3>1. f \in UpFrames(c) /\ Send(c, f) /\ \A l, y : f = Frame(l, y) <=> l = Opener(x) /\ y = x
      BY <2>1, <2>3, Framed
    <3> HIDE DEF f
    <3>2. /\ UpTypes'
          /\ \A d \in Cast, j \in Conn :
                up'[d][j] = IF d = c /\ j = conn[c] THEN Append(up[d][j], f) ELSE up[d][j]
          /\ \A d \in Cast, j \in Conn : \A l, y :
                Up(d, j, l, y)' <=> \/ Up(d, j, l, y)
                                    \/ d = c /\ j = conn[c] /\ f = Frame(l, y)
      BY <1>1, <2>3, <3>1, Sent
    <3> QED BY <1>1, <1>2, <3>1, <3>2
  <2>5. \A j \in Conn : Up(c, j, "slot", x)' => j = k
    <3>1. ASSUME NEW j \in Conn, Up(c, j, "slot", x) PROVE FALSE
      <4>1. "slot" \in UpKinds \ {"hello", "goodbye"}
        BY DEF UpKinds
      <4>2. "slot" = Opener(x) \/ "slot" \in Endings(x)
        BY <1>1, <3>1, <4>1, SaidOf
      <4> QED BY <1>5, <3>1, <4>2
    <3> QED BY <2>4, <3>1
  <2>6. k \in Conn => Said(c, k, x)'
    BY <2>4, SameSaid DEF Said
  <2>7. claimed' = claimed /\ held' = held
    BY <1>3 DEF pool
  <2>8. k \in Conn => Reachable(c, k, x)'
    <3>1. k \in Conn => \A kind : kind = Opener(x) => Up(c, k, kind, x)'
      BY <2>4
    <3>2. x \in Prompt /\ k \in Conn => ClaimsTrue(c, k, x)'
      <4>1. x \in Prompt => "claimed" \in Tellings(x)
        BY KindsOf
      <4>2. x \in Prompt /\ k \in Conn => ~Down(c, k, "claimed", x)
        BY <1>5, <4>1
      <4>3. down'[c][k] = down[c][k]
        BY <1>3
      <4>4. \A i \in DOMAIN down[c][k] : down[c][k][i] \in Range(down[c][k])
        BY DEF Range
      <4>5. x \in Prompt /\ k \in Conn => \A i \in DOMAIN down'[c][k] : down'[c][k][i] # Frame("claimed", x)
        BY <4>2, <4>3, <4>4 DEF Down
      <4> QED BY <4>5 DEF ClaimsTrue, Frame
    <3>3. x \notin held'
      BY <1>5, <2>7 DEF Pooled
    <3>4. CASE x \in Prompt
      <4>1. "asked" = Opener(x)
        BY <3>4, KindsOf
      <4> QED BY <1>5, <2>7, <3>1, <3>2, <3>4, <4>1 DEF Reachable
    <3>5. CASE x \in Slot
      <4>1. "slot" = Opener(x) /\ x \notin Prompt
        BY <3>5, KindsOf
      <4> QED BY <3>1, <3>3, <3>5, <4>1 DEF Reachable
    <3>6. CASE x \in Enqueue
      <4>1. "enqueue" = Opener(x) /\ x \notin Prompt \cup Slot
        BY <3>6, KindsOf
      <4> QED BY <3>1, <3>6, <4>1 DEF Reachable
    <3>7. CASE x \in Await
      <4>1. "awaits" = Opener(x) /\ x \notin Prompt \cup Slot \cup Enqueue
        BY <3>7, KindsOf
      <4> QED BY <3>1, <3>7, <4>1 DEF Reachable
    <3> QED BY <3>4, <3>5, <3>6, <3>7, KindsOf
  <2> QED BY <1>1, <1>5, <2>2, <2>5, <2>6, <2>7, <2>8
<1>7. up' = up \/ \E kind \in {Opener(x)} \cup Endings(x) : Send(c, Frame(kind, x))
  BY <1>3
<1>8. UNCHANGED <<ends, server, board, pool>> /\ down' = down /\ claimed' = claimed
  BY <1>3
<1>9. Heeded(c)
  BY DEF c
<1>10. Heeded(c)'
  BY <1>1, <1>2, <1>4, <1>6, <1>7, <1>8, <1>9, WorksHeeded
<1> QED BY <1>10 DEF c

LEMMA ClosesHeeded ==
    ASSUME LinkAssumption, Base, Base', NEW x \in Id, Closes(x), Heeded(Of[x])
    PROVE  Heeded(Of[x])'
<1> DEFINE c == Of[x]
<1>1. /\ c \in Cast /\ Types /\ x \in Mine(c, Id)
  BY KindsOf DEF Base, Mine
<1>2. PICK k \in Nat : conn[c] = k
  BY <1>1 DEF Types
<1>3. /\ UNCHANGED <<ends, down, server, board, pool>>
      /\ at' = [at EXCEPT ![x] = "over"] /\ claimed' = claimed \ {x}
      /\ up' = up \/ \E kind \in Endings(x) : Send(c, Frame(kind, x))
  BY KindsOf DEF Closes
<1> HIDE DEF c
<1>4. /\ \A y \in Id : y # x => at'[y] = at[y]
      /\ \A y : y # x => (y \in claimed' <=> y \in claimed)
      /\ x \notin Waits(c)'
  BY <1>1, <1>3 DEF Types, Waits
<1>5. up' = up \/ \E kind \in {Opener(x)} \cup Endings(x) : Send(c, Frame(kind, x))
  BY <1>3
<1>6. UNCHANGED <<ends, server, board, pool>> /\ down' = down
  BY <1>3
<1>7. Heeded(c)
  BY DEF c
<1>8. Heeded(c)'
  BY <1>1, <1>2, <1>4, <1>5, <1>6, <1>7, WorksHeeded
<1> QED BY <1>8 DEF c

LEMMA HearsHeeded ==
    ASSUME LinkAssumption, Base, Base', NEW c \in Cast, Hears(c), Heeded(c)
    PROVE  Heeded(c)'
<1>1. Types /\ Types' /\ Connections(c) /\ conn[c] \in Nat
  BY DEF Base, Types
<1>2. PICK k \in Nat : conn[c] = k
  BY <1>1
<1>3. PICK f : f = Head(down[c][k])
  OBVIOUS
<1>4. PICK x : x = f.about
  OBVIOUS
<1>5. /\ k \in Conn /\ down[c][k] # <<>> /\ Hear(c)
      /\ x \in Mine(c, Id) /\ f = Frame(f.kind, x)
      /\ UNCHANGED <<ends, server, board, pool>>
      /\ \/ at[x] # "waiting" /\ UNCHANGED <<work, up>>
         \/ /\ at[x] = "waiting" /\ f.kind = "answer" /\ x \in Prompt
            /\ at' = [at EXCEPT ![x] = "over"] /\ claimed' = claimed \ {x}
            /\ Send(c, Frame("resolved", x))
         \/ /\ at[x] = "waiting" /\ f.kind = "claimed" /\ x \in Prompt
            /\ claimed' = claimed \cup {x} /\ UNCHANGED <<at, up>>
         \/ /\ at[x] = "waiting" /\ f.kind = "unclaimed" /\ x \in Prompt
            /\ claimed' = claimed \ {x} /\ UNCHANGED <<at, up>>
         \/ /\ at[x] = "waiting" /\ f.kind = "granted" /\ x \in Slot
            /\ at' = [at EXCEPT ![x] = "running"] /\ UNCHANGED <<claimed, up>>
         \/ /\ at[x] = "waiting" /\ f.kind = "accepted" /\ x \in Enqueue
            /\ at' = [at EXCEPT ![x] = "queued"] /\ UNCHANGED <<claimed, up>>
         \/ /\ at[x] = "waiting" /\ f.kind = "refused" /\ x \in Enqueue
            /\ at' = [at EXCEPT ![x] = "refused"] /\ UNCHANGED <<claimed, up>>
         \/ /\ at[x] = "waiting" /\ f.kind = "childEnded" /\ x \in Await
            /\ at' = [at EXCEPT ![x] = "over"] /\ UNCHANGED <<claimed, up>>
  BY <1>2, <1>3, <1>4, HearsWhat
<1>6. x \in Id /\ down[c][conn[c]] = down[c][k] /\ Head(down[c][k]).about = x
  BY <1>2, <1>3, <1>4, <1>5 DEF Mine
<1>7. /\ \A y \in Id : y # x => at'[y] = at[y]
      /\ \A y : y # x => (y \in claimed' <=> y \in claimed)
      /\ up' = up \/ \E kind \in {Opener(x)} \cup Endings(x) : Send(c, Frame(kind, x))
  <2>1. x \in Prompt => "resolved" \in Endings(x)
    BY <1>6, KindsOf
  <2>2. \A y \in Id : y # x => at'[y] = at[y]
    BY <1>1, <1>5, <1>6 DEF Types, work
  <2>3. \A y : y # x => (y \in claimed' <=> y \in claimed)
    BY <1>5 DEF work
  <2>4. up' = up \/ (x \in Prompt /\ Send(c, Frame("resolved", x)))
    BY <1>5
  <2> QED BY <2>1, <2>2, <2>3, <2>4
<1>8. ASSUME x \in Waits(c)'
      PROVE  /\ k = None => x \in Prompt \cup Await /\ x \notin claimed'
             /\ \A j \in Conn : Up(c, j, "slot", x)' => j = k
             /\ k \in handling[c] =>
                    IF Unmet(c, k) THEN Said(c, k, x)' /\ x \notin claimed' \cup Pooled
                    ELSE status[c] = "running" => Reachable(c, k, x)'
  <2>1. at'[x] = "waiting"
    BY <1>8 DEF Waits
  <2>2. /\ at[x] = "waiting" /\ x \in Prompt /\ UNCHANGED <<at, up>>
        /\ \/ f.kind = "claimed" /\ claimed' = claimed \cup {x}
           \/ f.kind = "unclaimed" /\ claimed' = claimed \ {x}
    BY <1>1, <1>5, <1>6, <2>1 DEF Types, work
  <2>3. x \in Waits(c) /\ Heeds(c, k) /\ k # None /\ ~Unmet(c, k)
    <3>1. k # None
      BY <1>5, ConnsAre
    <3>2. ~Unmet(c, k)
      BY <1>1, <1>5 DEF Connections
    <3> QED BY <1>2, <1>5, <2>2, <3>1, <3>2 DEF Waits, Heeded
  <2>4. \A j \in Conn : \A kind, y : Up(c, j, kind, y)' <=> Up(c, j, kind, y)
    BY <2>2 DEF Up, Frame
  <2>5. \A j \in Conn : Up(c, j, "slot", x)' => j = k
    BY <2>3, <2>4 DEF Heeds
  <2>6. ASSUME k \in handling[c], status[c] = "running"
        PROVE  Reachable(c, k, x)'
    <3>1. Reachable(c, k, x)
      BY <2>3, <2>6 DEF Heeds
    <3>2. UNCHANGED <<known, claims, tasks, held, waiting>>
      BY <1>5 DEF board, server, pool
    <3>3. Pooled' = Pooled
      BY <3>2 DEF Pooled, Pool!Requests
    <3>4. /\ DownTypes' /\ Head(down[c][conn[c]]) \in DownFrames(c)
          /\ \A d \in Cast, j \in Conn :
              down'[d][j] = IF d = c /\ j = conn[c] THEN Tail(down[d][j]) ELSE down[d][j]
          /\ \A d \in Cast, j \in Conn : \A kind, z :
              Down(d, j, kind, z) <=>
                  \/ Down(d, j, kind, z)'
                  \/ d = c /\ j = conn[c] /\ Head(down[c][conn[c]]) = Frame(kind, z)
      <4>1. conn[c] \in Conn /\ down[c][conn[c]] # <<>>
        BY <1>2, <1>5
      <4> QED BY <1>1, <1>5, <4>1, HeardDown
    <3>5. \A kind : Down(c, k, kind, x) <=> Down(c, k, kind, x)' \/ f = Frame(kind, x)
      BY <1>2, <1>3, <1>5, <3>4
    <3>6. \A kind \in {"granted", "accepted", "refused", "childEnded"} :
                Down(c, k, kind, x) => Down(c, k, kind, x)'
      <4>1. \A kind \in {"granted", "accepted", "refused", "childEnded"} : f # Frame(kind, x)
        <5>1. f.kind \in {"claimed", "unclaimed"}
          BY <2>2
        <5> QED BY <5>1, Framed
      <4> QED BY <3>5, <4>1
    <3>7. ClaimsTrue(c, k, x) => ClaimsTrue(c, k, x)'
      <4>1. down[c][k] # <<>> /\ down'[c][k] = Tail(down[c][k]) /\ (x \in claims => x \in claims')
        BY <1>2, <1>5, <3>2, <3>4
      <4> QED BY <1>1, <1>5, <4>1, ClaimsKept
    <3>8. x \in claimed' => x \in claims' \/ Down(c, k, "unclaimed", x)'
      <4>1. CASE f.kind = "unclaimed"
        BY <2>2, <4>1
      <4>2. CASE f.kind = "claimed" /\ x \notin claims
        <5>1. ClaimsTrue(c, k, x)
          BY <2>2, <3>1 DEF Reachable
        <5>2. down[c][k] \in Seq(DownFrames(c))
          BY <1>1, <1>5 DEF Types, DownTypes
        <5>3. 1 \in DOMAIN down[c][k] /\ down[c][k][1] = f
          BY <1>3, <1>5, <5>2, Tailed
        <5>4. f = Frame("claimed", x)
          BY <1>5, <4>2
        <5>5. PICK j \in DOMAIN down[c][k] : j > 1 /\ down[c][k][j] = Frame("unclaimed", x)
          BY <4>2, <5>1, <5>3, <5>4 DEF ClaimsTrue
        <5>6. down[c][k][j] \in Range(down[c][k])
          BY DEF Range
        <5>7. Down(c, k, "unclaimed", x)
          BY <5>5, <5>6 DEF Down
        <5>8. f # Frame("unclaimed", x)
          BY <4>2, Framed
        <5> QED BY <3>5, <5>7, <5>8
      <4>3. CASE x \in claims
        BY <3>2, <4>3
      <4> QED BY <2>2, <4>1, <4>2, <4>3
    <3>9. Said(c, k, x) => Said(c, k, x)'
      BY <1>5, <2>4, SameSaid DEF Said
    <3> QED BY <1>1, <1>6, <3>1, <3>2, <3>3, <3>6, <3>7, <3>8, <3>9, ReachKept
  <2> QED BY <2>3, <2>5, <2>6
<1>9. \/ down' = down
      \/ k \in Conn /\ down[c][k] # <<>> /\ Hear(c) /\ Head(down[c][k]).about = x
  BY <1>5, <1>6
<1>10. x \in Mine(c, Id) /\ UNCHANGED <<ends, server, board, pool>>
  BY <1>5
<1> QED BY <1>2, <1>7, <1>8, <1>9, <1>10, WorksHeeded

LEMMA ConnectsHeeded ==
    ASSUME LinkAssumption, Base, Base', NEW c \in Cast, Connects(c), Heeded(c)
    PROVE  Heeded(c)'
<1>1. /\ Types /\ Types' /\ conn[c] = None /\ None \notin Conn
      /\ UNCHANGED <<at, claimed, conn, up>>
  BY ConnsAre DEF Base, Connects, work
<1>2. Heeds(c, None) /\ handling'[c] \subseteq Conn
  BY <1>1 DEF Heeded, Types, None, Conn
<1>3. Waits(c)' = Waits(c) /\ Conn' = Conn
  BY <1>1 DEF Waits, Mine, Id, Conn
<1>4. \A j \in Conn : \A x : Up(c, j, "slot", x)' <=> Up(c, j, "slot", x)
  BY <1>1 DEF Up, Frame
<1>5. Heeds(c, None)'
  BY <1>1, <1>2, <1>3, <1>4 DEF Heeds, None
<1>6. \A k \in Nat : k = conn'[c] => k = None
  BY <1>1
<1> QED BY <1>5, <1>6 DEF Heeded, None

(* Attached, all that is open is said behind the hello.                    *)
LEMMA AttachesHeeded ==
    ASSUME LinkAssumption, Base, Base', NEW c \in Cast, Attaches(c), c \notin over, Heeded(c)
    PROVE  Heeded(c)'
<1>1. /\ Types /\ Types' /\ Connections(c) /\ None \notin Conn
      /\ connecting[c] \in Conn /\ connecting[c] \in Nat /\ conn[c] = None
      /\ UNCHANGED <<at, claimed, held, waiting, known, tasks>>
      /\ conn' = [conn EXCEPT ![c] = connecting[c]]
      /\ up' = [up EXCEPT ![c][connecting[c]] = Backlog(c)]
  BY ConnsAre DEF Base, Attaches, work, board, pool, Connections
<1>2. PICK k \in Conn : k = connecting[c]
  BY <1>1
<1>3. /\ k \in Nat /\ conn'[c] = k /\ k # None
      /\ \A j \in Conn : up'[c][j] = IF j = k THEN Backlog(c) ELSE up[c][j]
  BY <1>1, <1>2 DEF Types, UpTypes
<1>4. /\ Backlog(c) \in Seq(UpFrames(c))
      /\ \A f : f \in Range(Backlog(c)) <=>
            \/ f = Frame("hello", c)
            \/ \E x \in Open(c, Id \ Enqueue) : f = Frame(Opener(x), x)
  BY BacklogIs
<1>5. Waits(c)' = Waits(c) /\ Conn' = Conn /\ Pooled' = Pooled
  BY <1>1 DEF Waits, Mine, Id, Conn, Pooled, Pool!Requests
<1>6. \A x \in Waits(c) : x \in Mine(c, Id) /\ x \in Prompt \cup Await /\ x \notin claimed
  BY <1>1 DEF Heeded, Heeds, Waits, None
<1>7. Unmet(c, k)'
  <2>1. Frame("hello", c) \in Range(up'[c][k])
    BY <1>3, <1>4
  <2> QED BY <2>1 DEF Unmet, Up, Frame
<1>8. ASSUME NEW x \in Waits(c) PROVE Said(c, k, x)' /\ x \notin claimed' \cup Pooled'
  <2>1. x \in Open(c, Id \ Enqueue) /\ x \notin Slot
    <3>1. x \in Id /\ Of[x] = c /\ at[x] = "waiting"
      BY <1>6 DEF Waits, Mine
    <3>2. x \notin Slot \cup Enqueue
      BY <1>6, <3>1, KindsOf
    <3> QED BY <3>1, <3>2 DEF Open, Mine
  <2>2. Frame(Opener(x), x) \in Range(up'[c][k])
    BY <1>3, <1>4, <2>1
  <2>3. \A kind : Up(c, k, kind, x)' <=> Frame(kind, x) \in Range(up'[c][k])
    BY DEF Up, Frame
  <2>4. Said(c, k, x)'
    BY <2>2, <2>3, SameSaid DEF Said
  <2>5. Pooled \subseteq Slot
    BY <1>1 DEF Types, Pooled
  <2> QED BY <1>1, <1>5, <1>6, <2>1, <2>4, <2>5
<1>9. \A x \in Waits(c), j \in Conn : Up(c, j, "slot", x)' => j = k
  <2> SUFFICES ASSUME NEW x \in Waits(c), NEW j \in Conn, Up(c, j, "slot", x)', j # k
               PROVE  FALSE
    OBVIOUS
  <2>1. up'[c][j] = up[c][j]
    BY <1>3
  <2>2. Up(c, j, "slot", x)
    BY <2>1, UpSame
  <2>3. x \in Mine(c, Id) /\ ("slot" = Opener(x) \/ "slot" \in Endings(x))
    <3>1. "slot" \in UpKinds \ {"hello", "goodbye"}
      BY DEF UpKinds
    <3> QED BY <1>1, <2>2, <3>1, SaidOf
  <2> QED BY <1>6, <2>3, KindsOf DEF Mine
<1>10. Heeds(c, k)'
  BY <1>3, <1>5, <1>7, <1>8, <1>9 DEF Heeds
<1>11. \A j \in Nat : j = conn'[c] => j = k
  BY <1>3
<1> QED BY <1>10, <1>11 DEF Heeded

(* Detached, nothing waits but what the terminal asks and what children    *)
(* end.                                                                    *)
LEMMA GoneHeeded ==
    ASSUME LinkAssumption, Base, Base', NEW c \in Cast, Gone(c)
    PROVE  Heeded(c)'
<1>1. /\ Types /\ Types' /\ conn' = [conn EXCEPT ![c] = None] /\ up' = up
      /\ at' = [x \in Id |-> IF Of[x] # c \/ at[x] # "waiting" THEN at[x]
                             ELSE IF x \in Slot THEN "running"
                             ELSE IF x \in Enqueue THEN "gone" ELSE at[x]]
      /\ claimed' = claimed \ Mine(c, Prompt)
  BY DEF Base, Gone, Detached
<1>2. /\ None \notin Conn /\ conn'[c] = None /\ handling'[c] \subseteq Conn /\ Conn' = Conn
  BY <1>1, ConnsAre DEF Types, Conn
<1>3. ASSUME NEW x \in Waits(c)'
      PROVE  x \in Mine(c, Id) /\ x \in Prompt \cup Await /\ x \notin claimed'
  <2>1. x \in Id /\ Of[x] = c /\ at'[x] = "waiting"
    BY DEF Waits, Mine, Id
  <2>2. x \notin Slot \cup Enqueue
    BY <1>1, <2>1
  <2> QED BY <1>1, <2>1, <2>2 DEF Mine, Id, Types
<1>4. ASSUME NEW x \in Waits(c)', NEW j \in Conn, Up(c, j, "slot", x)'
      PROVE  FALSE
  <2>1. Up(c, j, "slot", x)
    BY <1>1, <1>4, UpSame
  <2>2. x \in Mine(c, Id) /\ ("slot" = Opener(x) \/ "slot" \in Endings(x))
    <3>1. "slot" \in UpKinds \ {"hello", "goodbye"}
      BY DEF UpKinds
    <3> QED BY <1>1, <2>1, <3>1, SaidOf
  <2> QED BY <1>3, <2>2, KindsOf DEF Mine
<1>5. Heeds(c, None)'
  BY <1>2, <1>3, <1>4 DEF Heeds, None
<1>6. \A k \in Nat : k = conn'[c] => k = None
  BY <1>2
<1> QED BY <1>5, <1>6 DEF Heeded, None

LEMMA StopsHeeded ==
    ASSUME LinkAssumption, Base, Stops, NEW c \in Cast, Heeded(c)
    PROVE  Heeded(c)'
<1>1. PICK k \in Nat : conn[c] = k
  BY DEF Base, Types
<1>2. /\ UNCHANGED <<at, claimed, conn>> /\ handling'[c] = {}
      /\ \A j \in Conn : up'[c][j] = <<>>
  BY DEF Stops, work, ends
<1>3. \A j \in Conn : \A x : ~Up(c, j, "slot", x)'
  BY <1>2 DEF Up, Range, Frame
<1>4. Waits(c)' = Waits(c)
  BY <1>2 DEF Waits, Mine, Id
<1>5. conn'[c] = k /\ k \notin handling'[c]
  BY <1>1, <1>2
<1>6. k = None => \A x \in Waits(c)' :
                (x \in Waits(c) => x \in Prompt \cup Await /\ x \notin claimed)
                    => x \in Prompt \cup Await /\ x \notin claimed'
  BY <1>2, <1>4
<1>7. \A x \in Waits(c)', j \in Conn :
                Up(c, j, "slot", x)' => j = k \/ (x \in Waits(c) /\ Up(c, j, "slot", x))
  BY <1>3
<1> QED BY <1>1, <1>5, <1>6, <1>7, HeedKept

LEMMA SameHeeded ==
    ASSUME LinkAssumption, Base, NEW c \in Cast, Heeded(c),
           UNCHANGED <<work, ends, up, down, handling, peer, tasks, board, pool>>
    PROVE  Heeded(c)'
<1>1. UNCHANGED <<at, claimed, conn, connecting, over, opened, up, down, handling, peer,
                  status, known, claims, tasks, held, waiting>>
  BY DEF work, ends, board, pool
<1>2. PICK k \in Nat : conn[c] = k
  BY DEF Base, Types
<1>3. /\ Waits(c)' = Waits(c) /\ Pooled' = Pooled
      /\ \A j, kind, x : Up(c, j, kind, x)' <=> Up(c, j, kind, x)
      /\ \A j, kind, x : Down(c, j, kind, x)' <=> Down(c, j, kind, x)
  BY <1>1, UpSame, DownSame DEF Waits, Mine, Id, Pooled, Pool!Requests
<1>4. \A x : Said(c, k, x)' <=> Said(c, k, x)
  BY <1>3, SameSaid DEF Said
<1>5. \A x : Reachable(c, k, x) => Reachable(c, k, x)'
  <2>1. \A x : ClaimsTrue(c, k, x)' <=> ClaimsTrue(c, k, x)
    BY <1>1 DEF ClaimsTrue, Frame
  <2> QED BY <1>1, <1>3, <2>1 DEF Reachable
<1>6. Unmet(c, k)' <=> Unmet(c, k)
  BY <1>3 DEF Unmet
<1> QED BY <1>1, <1>2, <1>3, <1>4, <1>5, <1>6, HeedKept

(* A hello unread is the first frame of its connection.                    *)
LEMMA HelloFirst ==
    ASSUME LinkAssumption, Base, NEW c \in Cast, NEW k \in Conn, Unmet(c, k)
    PROVE  up[c][k] # <<>> /\ Head(up[c][k]) = Frame("hello", c)
<1>1. up[c][k] \in Seq(UpFrames(c)) /\ Connections(c)
  BY DEF Base, Types, UpTypes
<1>2. PICK i \in DOMAIN up[c][k] : up[c][k][i] = Frame("hello", c)
  BY DEF Unmet, Up, Range
<1>3. i = 1
  <2>1. Frame("hello", c).kind = "hello"
    BY Framed
  <2> QED BY <1>1, <1>2, <2>1 DEF Connections
<1>4. up[c][k] # <<>>
  BY <1>1, <1>2, InSeq
<1> QED BY <1>1, <1>2, <1>3, <1>4, Tailed

(* Whose turn it is: once the connection a cast has is met, no other of    *)
(* its connections has anything to be read.                                *)
LEMMA ReadsInTurn ==
    ASSUME LinkAssumption, Base, NEW c \in Cast, NEW k \in Nat, conn[c] = k, Heeded(c),
           NEW j \in Conn, Reads(c, j), k \in handling[c]
    PROVE  /\ Unmet(c, k) \/ j = k
           /\ j = k /\ Unmet(c, k) => Head(up[c][j]) = Frame("hello", c)
<1>1. Heeds(c, k) /\ k \in Conn
  BY DEF Heeded, Base, Types
<1>2. j \in handling[c] /\ up[c][j] # <<>>
  BY DEF Reads
<1> QED BY <1>1, <1>2, HelloFirst DEF Heeds

(* What else is read of a cast: one thing is held, or let go of.           *)
LEMMA FrameHeeded ==
    ASSUME LinkAssumption, Base, Base', NEW c \in Cast, NEW j \in Conn, Reads(c, j), Heeded(c),
           NEW f, f = Head(up[c][j]), NEW x \in Mine(c, Id), x = f.about,
           f.kind = Opener(x) \/ f.kind \in Endings(x),
           UNCHANGED <<handling, peer, status>>,
           \A y \in Id : y # x \/ f.kind = Opener(x) =>
                /\ y \in known => y \in known'
                /\ y \in claims => y \in claims'
                /\ y \in Pooled => y \in Pooled'
                /\ y \in tasks => y \in tasks',
           f.kind = Opener(x) => x \in known' \cup Pooled' \cup tasks',
           \A y : y \in Pooled' => y \in Pooled \/ (y = x /\ f.kind = "slot"),
           (down' = down /\ held' = held) \/ TellGrants
    PROVE  Heeded(c)'
<1>1. /\ Types /\ Types' /\ Connections(c) /\ Begun(c) /\ x \in Id /\ Of[x] = c /\ None \notin Conn
      /\ handling[c] \subseteq Conn
  BY ConnsAre DEF Base, Mine, Types
<1>2. PICK k \in Nat : conn[c] = k
  BY <1>1 DEF Types
<1>3. /\ up[c][j] # <<>> /\ Heard(c, j) /\ UNCHANGED <<work, ends>>
      /\ f = Frame(f.kind, x) /\ Up(c, j, f.kind, x)
  BY ReadsWhat
<1>4. UNCHANGED <<at, claimed, conn, connecting, over, opened>>
  BY <1>3 DEF work, ends
<1>5. /\ \A i \in Conn : i # j => up'[c][i] = up[c][i]
      /\ \A i \in Conn : \A kind, y : Up(c, i, kind, y)' => Up(c, i, kind, y)
      /\ \A i \in Conn : \A kind, y :
            Up(c, i, kind, y) => Up(c, i, kind, y)' \/ (i = j /\ f = Frame(kind, y))
  <2>1. /\ UpTypes' /\ Head(up[c][j]) \in UpFrames(c)
        /\ \A d \in Cast, i \in Conn :
             up'[d][i] = IF d = c /\ i = j THEN Tail(up[d][i]) ELSE up[d][i]
        /\ \A d \in Cast, i \in Conn : \A kind, y :
             Up(d, i, kind, y) <=> \/ Up(d, i, kind, y)'
                                   \/ d = c /\ i = j /\ Head(up[c][j]) = Frame(kind, y)
    BY <1>1, <1>3, HeardUp
  <2> QED BY <2>1
<1>6. Heeds(c, k) /\ Waits(c)' = Waits(c)
  BY <1>2, <1>4 DEF Heeded, Waits, Mine, Id
<1>7. \A y \in Waits(c) : y \in Mine(c, Id) /\ y \in Id /\ at[y] = "waiting"
  BY DEF Waits, Mine
<1>8. \A y \in Waits(c) : y # x \/ f.kind = Opener(x)
  <2>1. f.kind \in Endings(x) => at[x] \notin Wanted
    BY <1>1, <1>3 DEF Begun
  <2> QED BY <1>7, <2>1 DEF Wanted
<1>9. ASSUME k \in handling[c]
      PROVE  /\ Unmet(c, k) => j # k
             /\ ~Unmet(c, k) => j = k
             /\ Unmet(c, k)' <=> Unmet(c, k)
  <2>1. Unmet(c, k) \/ j = k
    BY <1>2, <1>9, ReadsInTurn
  <2>2. f # Frame("hello", c)
    <3>1. f.kind # "hello"
      BY <1>1, OpenerKinds
    <3> QED BY <3>1, Framed
  <2>3. Unmet(c, k) => j # k
    BY <1>2, <1>9, <2>2, ReadsInTurn
  <2>4. k \in Conn
    BY <1>1, <1>9
  <2> QED BY <1>5, <2>1, <2>3, <2>4, UpSame DEF Unmet
<1>10. k \in Conn => \A y : Said(c, k, y) =>
            Said(c, k, y)' \/ (j = k /\ y = x /\ f.kind = Opener(x))
  <2> SUFFICES ASSUME k \in Conn, NEW y, Said(c, k, y)
               PROVE  Said(c, k, y)' \/ (j = k /\ y = x /\ f.kind = Opener(x))
    OBVIOUS
  <2>1. PICK kind : kind = Opener(y) /\ Up(c, k, kind, y)
    BY DEF Said
  <2>2. Up(c, k, kind, y)' \/ (k = j /\ f = Frame(kind, y))
    BY <1>5, <2>1
  <2>3. f = Frame(kind, y) => f.kind = kind /\ y = x
    BY Framed
  <2> QED BY <2>1, <2>2, <2>3, SameSaid DEF Said
<1>11. ASSUME k \in handling[c], Unmet(c, k), NEW y \in Waits(c)
       PROVE  Said(c, k, y)' /\ y \notin claimed' \cup Pooled'
  <2>1. Said(c, k, y) /\ y \notin claimed \cup Pooled /\ k \in Conn /\ j # k
    BY <1>1, <1>6, <1>9, <1>11 DEF Heeds
  <2>2. Said(c, k, y)'
    BY <1>10, <2>1
  <2>3. ~(y = x /\ f.kind = "slot")
    <3>1. y = x /\ f.kind = "slot" => Up(c, j, "slot", y)
      BY <1>3
    <3> QED BY <1>6, <2>1, <3>1 DEF Heeds
  <2> QED BY <1>4, <2>1, <2>2, <2>3
<1>12. ASSUME k \in handling[c], peer[c] = k, NEW y \in Waits(c), Reachable(c, k, y)
       PROVE  Reachable(c, k, y)'
  <2>1. y \in Id /\ y \in Mine(c, Id) /\ k \in Conn /\ c \notin over /\ (y # x \/ f.kind = Opener(x))
    BY <1>1, <1>2, <1>7, <1>8, <1>12 DEF Connections
  <2>2. /\ down'[c][k] = down[c][k] \/ ToldGrants(c, k)
        /\ \A kind : Down(c, k, kind, y) => Down(c, k, kind, y)'
        /\ y \in held' => y \in held \/ Down(c, k, "granted", y)'
    <3>1. CASE down' = down /\ held' = held
      BY <3>1, DownSame
    <3>2. CASE TellGrants
      <4>1. held' \subseteq Slot
        BY <1>1 DEF Types
      <4>2. /\ DownTypes'
            /\ \A d \in Cast, i \in Conn :
                 \/ down'[d][i] = down[d][i]
                 \/ /\ i = peer[d] /\ d \notin over
                    /\ ToldGrants(d, i)
            /\ \A d \in Cast, i \in Conn : \A kind, z :
                 Down(d, i, kind, z)' <=>
                     \/ Down(d, i, kind, z)
                     \/ i = peer[d] /\ d \notin over /\ kind = "granted" /\ z \in Mine(d, held' \ held)
        BY <1>1, <3>2, <4>1, GrantsTold
      <4>3. y \in held' => y \in held \/ y \in Mine(c, held' \ held)
        BY <2>1 DEF Mine
      <4> QED BY <1>12, <2>1, <4>2, <4>3
    <3> QED BY <3>1, <3>2
  <2>3. ClaimsTrue(c, k, y) => ClaimsTrue(c, k, y)'
    <3>1. held' \subseteq Slot /\ (y \in claims => y \in claims')
      BY <1>1, <2>1 DEF Types
    <3> QED BY <1>1, <2>1, <2>2, <3>1, ClaimsKept
  <2>4. Said(c, k, y) => Said(c, k, y)' \/ y \in known' \cup Pooled' \cup tasks'
    BY <1>10, <2>1
  <2>5. y \in Prompt /\ y \in claimed' => y \in claims' \/ Down(c, k, "unclaimed", y)'
    <3>1. y \in Prompt /\ y \in claimed => y \in claims \/ Down(c, k, "unclaimed", y)
      BY <1>12 DEF Reachable
    <3> QED BY <1>4, <2>1, <2>2, <3>1
  <2> QED BY <1>1, <1>12, <2>1, <2>2, <2>3, <2>4, <2>5, ReachKept
<1>13. ASSUME k \in handling[c], ~Unmet(c, k)
       PROVE  \A i \in handling[c] : i # k => up'[c][i] = up[c][i]
  BY <1>1, <1>5, <1>9, <1>13
<1>14. \A y \in Waits(c), i \in Conn : Up(c, i, "slot", y)' => i = k
  BY <1>5, <1>6 DEF Heeds
<1> QED BY <1>2, <1>4, <1>6, <1>9, <1>11, <1>12, <1>13, <1>14, HeedKept

(* A hello read: the connection is the peer, and what the cast waits on is *)
(* said behind it.                                                         *)
LEMMA HelloHeeded ==
    ASSUME LinkAssumption, Base, Base', NEW c \in Cast, NEW j \in Conn, Reads(c, j),
           ReadsHello(c, j), Head(up[c][j]).kind = "hello", Heeded(c)
    PROVE  Heeded(c)'
<1>1. /\ Types /\ Types' /\ Connections(c) /\ None \notin Conn /\ Conn \subseteq Nat
      /\ handling[c] \subseteq Conn
  BY ConnsAre DEF Base, Types
<1>2. PICK k \in Nat : conn[c] = k
  BY <1>1 DEF Types
<1>3. /\ up[c][j] # <<>> /\ Heard(c, j) /\ j \in handling[c]
      /\ \A i \in handling[c] : i < j => up[c][i] = <<>>
      /\ UNCHANGED <<at, claimed, conn, over, opened, down, handling, held, waiting>>
      /\ peer' = [peer EXCEPT ![c] = j]
  BY DEF Reads, ReadsHello, work, ends, pool
<1>4. /\ Waits(c)' = Waits(c) /\ Pooled' = Pooled /\ Heeds(c, k) /\ peer'[c] = j
      /\ conn'[c] = k /\ handling'[c] = handling[c]
  BY <1>1, <1>2, <1>3 DEF Waits, Mine, Id, Pooled, Pool!Requests, Heeded, Types
<1>5. /\ \A i \in Conn : i # j => up'[c][i] = up[c][i]
      /\ \A i \in Conn : \A kind, y : Up(c, i, kind, y)' => Up(c, i, kind, y)
      /\ \A i \in Conn : \A kind, y : kind # "hello" /\ Up(c, i, kind, y) => Up(c, i, kind, y)'
      /\ ~Unmet(c, j)' /\ Unmet(c, j)
  <2>1. /\ UpTypes' /\ Head(up[c][j]) \in UpFrames(c)
        /\ \A d \in Cast, i \in Conn :
             up'[d][i] = IF d = c /\ i = j THEN Tail(up[d][i]) ELSE up[d][i]
        /\ \A d \in Cast, i \in Conn : \A kind, y :
             Up(d, i, kind, y) <=> \/ Up(d, i, kind, y)'
                                   \/ d = c /\ i = j /\ Head(up[c][j]) = Frame(kind, y)
    BY <1>1, <1>3, HeardUp
  <2>2. \A kind, y : Head(up[c][j]) = Frame(kind, y) => kind = "hello"
    BY Framed
  <2>3. ~Unmet(c, j)'
    <3>1. Quiets(c, j)
      BY <1>3 DEF Quiets
    <3>2. up'[c][j] = up[c][j] \/ ~Unmet(c, j)'
      BY <3>1, Quieted
    <3>3. up'[c][j] # up[c][j]
      BY ReadsWhat
    <3> QED BY <3>2, <3>3
  <2>4. Unmet(c, j)
    <3>1. Head(up[c][j]) = Frame("hello", c)
      BY <2>1, UpFrameIs, OpenerKinds
    <3> QED BY <2>1, <3>1 DEF Unmet
  <2> QED BY <2>1, <2>2, <2>3, <2>4
<1>6. \A y \in Waits(c), i \in Conn : Up(c, i, "slot", y)' => i = k
  BY <1>4, <1>5 DEF Heeds
<1>7. k = None => \A y \in Waits(c) : y \in Prompt \cup Await /\ y \notin claimed
  BY <1>4 DEF Heeds
<1>8. \A y \in Waits(c) : y \in Id /\ y \in Mine(c, Id)
  BY DEF Waits, Mine
<1>9. k \in Conn => \A y \in Waits(c) : Said(c, k, y) => Said(c, k, y)'
  <2>1. \A y \in Waits(c) : Opener(y) # "hello"
    BY <1>8, OpenerKinds
  <2> QED BY <1>5, <2>1, SameSaid DEF Said
<1>10. ASSUME k \in handling[c], j # k
       PROVE  Unmet(c, k)' /\ \A y \in Waits(c) : Said(c, k, y)' /\ y \notin claimed \cup Pooled
  <2>1. k \in Conn /\ up'[c][k] = up[c][k]
    BY <1>1, <1>5, <1>10
  <2>2. Unmet(c, k)
    BY <1>2, <1>10, ReadsInTurn
  <2>3. Unmet(c, k)'
    BY <2>1, <2>2, UpSame DEF Unmet
  <2> QED BY <1>4, <1>9, <1>10, <2>1, <2>2, <2>3 DEF Heeds
<1>11. ASSUME k \in handling[c], j = k
       PROVE  /\ ~Unmet(c, k)' /\ peer'[c] = k
              /\ \A i \in handling[c] : i # k => up'[c][i] = <<>>
              /\ \A y \in Waits(c) : Reachable(c, k, y)'
  <2>1. \A y \in Waits(c) : Said(c, k, y) /\ y \notin claimed \cup Pooled
    BY <1>4, <1>5, <1>11 DEF Heeds
  <2>2. \A i \in handling[c] : i # k => up'[c][i] = <<>>
    <3> SUFFICES ASSUME NEW i \in handling[c], i # k PROVE up'[c][i] = <<>>
      OBVIOUS
    <3>1. opened[c] \in Nat /\ i <= opened[c] /\ k = opened[c] /\ i \in Nat
      BY <1>1, <1>2, <1>11 DEF Connections, Types
    <3>2. i < k
      BY <3>1
    <3> QED BY <1>1, <1>3, <1>5, <1>11, <3>2
  <2>3. down'[c][k] = <<>>
    BY <1>1, <1>3, <1>5, <1>11 DEF Connections
  <2>4. ASSUME NEW y \in Waits(c) PROVE Reachable(c, k, y)'
    <3>1. y \notin claimed' /\ y \notin held' /\ y \in Id /\ Said(c, k, y)'
      BY <1>1, <1>3, <1>8, <1>9, <1>11, <2>1 DEF Pooled
    <3>2. \A kind : kind = Opener(y) => Up(c, k, kind, y)'
      BY <3>1, SameSaid DEF Said
    <3>3. ClaimsTrue(c, k, y)'
      BY <2>3 DEF ClaimsTrue
    <3>4. CASE y \in Prompt
      <4>1. "asked" = Opener(y)
        BY <3>1, <3>4, KindsOf
      <4> QED BY <3>1, <3>2, <3>3, <3>4, <4>1 DEF Reachable
    <3>5. CASE y \in Slot
      <4>1. "slot" = Opener(y) /\ y \notin Prompt
        BY <3>1, <3>5, KindsOf
      <4> QED BY <3>1, <3>2, <3>5, <4>1 DEF Reachable
    <3>6. CASE y \in Enqueue
      <4>1. "enqueue" = Opener(y) /\ y \notin Prompt \cup Slot
        BY <3>1, <3>6, KindsOf
      <4> QED BY <3>2, <3>6, <4>1 DEF Reachable
    <3>7. CASE y \in Await
      <4>1. "awaits" = Opener(y) /\ y \notin Prompt \cup Slot \cup Enqueue
        BY <3>1, <3>7, KindsOf
      <4> QED BY <3>2, <3>7, <4>1 DEF Reachable
    <3> QED BY <3>1, <3>4, <3>5, <3>6, <3>7, KindsOf
  <2> QED BY <1>4, <1>5, <1>11, <2>2, <2>4
<1>12. Heeds(c, k)'
  <2>1. Conn' = Conn
    BY DEF Conn
  <2>2. k \in handling[c] =>
            IF Unmet(c, k)'
            THEN \A y \in Waits(c) : Said(c, k, y)' /\ y \notin claimed' \cup Pooled'
            ELSE /\ peer'[c] = k
                 /\ \A i \in handling[c] : i # k => up'[c][i] = <<>>
                 /\ status'[c] = "running" => \A y \in Waits(c) : Reachable(c, k, y)'
    BY <1>3, <1>4, <1>10, <1>11
  <2> QED BY <1>3, <1>4, <1>6, <1>7, <2>1, <2>2 DEF Heeds
<1>13. \A i \in Nat : i = conn'[c] => i = k
  BY <1>4
<1> QED BY <1>12, <1>13 DEF Heeded

LEMMA ReadsHeeded ==
    ASSUME LinkAssumption, Base, Base', NEW c \in Cast, NEW j \in Conn, Reads(c, j), Heeded(c)
    PROVE  Heeded(c)'
<1>1. Types /\ Connections(c)
  BY DEF Base
<1>2. PICK f : f = Head(up[c][j])
  OBVIOUS
<1>3. PICK x : x = f.about
  OBVIOUS
<1>4. /\ UNCHANGED <<work, ends>> /\ Up(c, j, f.kind, x)
      /\ \/ f.kind = "hello" /\ x = c /\ ReadsHello(c, j)
         \/ f.kind = "goodbye" /\ x = c /\ ReadsGoodbye(c, j)
         \/ /\ x \in Mine(c, Prompt \cup Await)
            /\ f.kind = Opener(x) \/ f.kind \in Endings(x)
            /\ IF f.kind = Opener(x)
               THEN known' = known \cup {x} /\ UNCHANGED claims
               ELSE known' = known \ {x} /\ claims' = claims \ {x}
            /\ UNCHANGED <<down, server, status, pool, faults>>
         \/ /\ x \in Mine(c, Slot)
            /\ f.kind = Opener(x) \/ f.kind \in Endings(x)
            /\ IF f.kind = Opener(x) THEN Pool!Requested(x) ELSE Pool!Released(x)
            /\ TellGrants /\ UNCHANGED <<server, board, faults>>
         \/ /\ x \in Mine(c, Enqueue) /\ f.kind = "enqueue"
            /\ ReadsEnqueue(c, j, x)
  BY <1>2, <1>3, ReadsWhat
<1>5. CASE f.kind = "hello" /\ ReadsHello(c, j)
  BY <1>2, <1>5, HelloHeeded
<1>6. CASE f.kind = "goodbye" /\ x = c
  <2>1. c \in over
    BY <1>1, <1>4, <1>6 DEF Connections
  <2>2. c \in over'
    BY <1>4, <2>1 DEF ends
  <2> QED BY <2>2, OverHeeded
<1>7. CASE /\ x \in Mine(c, Prompt \cup Await)
           /\ f.kind = Opener(x) \/ f.kind \in Endings(x)
           /\ IF f.kind = Opener(x)
              THEN known' = known \cup {x} /\ UNCHANGED claims
              ELSE known' = known \ {x} /\ claims' = claims \ {x}
           /\ UNCHANGED <<down, server, status, pool, faults>>
  <2>1. /\ x \in Mine(c, Id) /\ UNCHANGED <<handling, peer, status, tasks, down, held, waiting>>
        /\ Pooled' = Pooled
    BY <1>7 DEF Mine, Id, server, pool, Pooled, Pool!Requests
  <2>2. \A y \in Id : y # x \/ f.kind = Opener(x) =>
                /\ y \in known => y \in known'
                /\ y \in claims => y \in claims'
                /\ y \in Pooled => y \in Pooled'
                /\ y \in tasks => y \in tasks'
    BY <1>7, <2>1
  <2>3. f.kind = Opener(x) => x \in known' \cup Pooled' \cup tasks'
    BY <1>7
  <2>4. \A y : y \in Pooled' => y \in Pooled \/ (y = x /\ f.kind = "slot")
    BY <2>1
  <2> QED BY <1>2, <1>3, <1>7, <2>1, <2>2, <2>3, <2>4, FrameHeeded
<1>8. CASE /\ x \in Mine(c, Slot)
           /\ f.kind = Opener(x) \/ f.kind \in Endings(x)
           /\ IF f.kind = Opener(x) THEN Pool!Requested(x) ELSE Pool!Released(x)
           /\ TellGrants /\ UNCHANGED <<server, board, faults>>
  <2>1. /\ x \in Mine(c, Id) /\ x \in Slot /\ x \in Id /\ Opener(x) = "slot"
        /\ UNCHANGED <<handling, peer, status, tasks, known, claims>>
    BY <1>8, KindsOf DEF Mine, Id, server, board
  <2>2. \/ f.kind = Opener(x) /\ Pooled' = Pooled \cup {x}
        \/ f.kind # Opener(x) /\ Pooled' = Pooled \ {x}
    BY <1>1, <1>8, <2>1, PoolMoves
  <2>3. \A y \in Id : y # x \/ f.kind = Opener(x) =>
                /\ y \in known => y \in known'
                /\ y \in claims => y \in claims'
                /\ y \in Pooled => y \in Pooled'
                /\ y \in tasks => y \in tasks'
    BY <2>1, <2>2
  <2>4. f.kind = Opener(x) => x \in known' \cup Pooled' \cup tasks'
    BY <2>2
  <2>5. \A y : y \in Pooled' => y \in Pooled \/ (y = x /\ f.kind = "slot")
    BY <2>1, <2>2
  <2> QED BY <1>2, <1>3, <1>8, <2>1, <2>3, <2>4, <2>5, FrameHeeded
<1>9. CASE x \in Mine(c, Enqueue) /\ f.kind = "enqueue" /\ ReadsEnqueue(c, j, x)
  <2>1. /\ x \in Mine(c, Id) /\ x \in Enqueue /\ x \in Id /\ Opener(x) = "enqueue"
        /\ UNCHANGED <<handling, peer, status, known, claims, down, held, waiting>>
        /\ tasks' = tasks \cup {x} /\ Pooled' = Pooled
    BY <1>9, KindsOf DEF Mine, Id, ReadsEnqueue, board, pool, Pooled, Pool!Requests
  <2>2. \A y \in Id : y # x \/ f.kind = Opener(x) =>
                /\ y \in known => y \in known'
                /\ y \in claims => y \in claims'
                /\ y \in Pooled => y \in Pooled'
                /\ y \in tasks => y \in tasks'
    BY <2>1
  <2>3. f.kind = Opener(x) /\ x \in known' \cup Pooled' \cup tasks'
    BY <1>9, <2>1
  <2>4. \A y : y \in Pooled' => y \in Pooled \/ (y = x /\ f.kind = "slot")
    BY <2>1
  <2> QED BY <1>2, <1>3, <2>1, <2>2, <2>3, <2>4, FrameHeeded
<1> QED BY <1>4, <1>5, <1>6, <1>7, <1>8, <1>9

(* A connection lost: if not the one the cast has, it is a goodbye all the *)
(* same, and the cast is not taken to be there until it says hello again.  *)
LEMMA LosesHeeded ==
    ASSUME LinkAssumption, Base, Base', NEW c \in Cast, NEW j \in Conn, LosesConnection(c, j),
           Heeded(c)
    PROVE  Heeded(c)'
<1>1. /\ Types /\ Types' /\ Connections(c) /\ None \notin Conn /\ handling[c] \subseteq Conn
  BY ConnsAre DEF Base, Types
<1>2. PICK k \in Nat : conn[c] = k
  BY <1>1 DEF Types
<1>3. /\ Goodbye(c, "disconnected") /\ Handled(c, j) /\ CloseCast(c, j)
      /\ UNCHANGED <<at, claimed, conn>> /\ Quiets(c, j)
  BY DEF LosesConnection, Quiets, work, ends
<1>4. /\ TellGrants
      /\ handling' \in [Cast -> SUBSET Conn] /\ handling'[c] = handling[c] \ {j}
      /\ peer' \in [Cast -> Nat] /\ peer'[c] = IF peer[c] = j THEN None ELSE peer[c]
      /\ status' \in [Cast -> {"none", "running", "disconnected", "ended"}]
      /\ status'[c] # "running"
      /\ \A d \in Cast \ {c} : /\ handling'[d] = handling[d] /\ peer'[d] = peer[d]
                               /\ status'[d] = status[d]
      /\ peer'[c] \in handling'[c] \cup {None}
      /\ known' = known \ Mine(c, Id) /\ claims' = claims \ Mine(c, Id)
      /\ held \ Mine(c, Slot) \subseteq held' /\ Pooled' = Pooled \ Mine(c, Slot)
      /\ held' \subseteq Slot /\ Pool!Requests(waiting') \subseteq Slot
  BY <1>3, GoodbyeTakes
<1>5. /\ UpTypes'
      /\ \A d \in Cast, i \in Conn : d # c \/ i # j => up'[d][i] = up[d][i]
      /\ \A i \in Conn : \A kind, x : Up(c, i, kind, x)' => Up(c, i, kind, x)
      /\ \A i \in Conn : up[c][i] = <<>> => up'[c][i] = <<>>
      /\ \A i \in Conn : \A n \in DOMAIN up'[c][i] : up'[c][i][n].kind = "hello" => n = 1
      /\ up'[c][j] = up[c][j] \/ ~Unmet(c, j)'
  BY <1>3, Quieted
<1>6. Waits(c)' = Waits(c) /\ conn'[c] = k
  BY <1>2, <1>3 DEF Waits, Mine, Id
<1>7. ASSUME k \in handling'[c]
      PROVE  /\ k \in handling[c] /\ k # j /\ (Unmet(c, k)' <=> Unmet(c, k))
             /\ \A y : Said(c, k, y) => Said(c, k, y)'
             /\ \A y : y \in Pooled' => y \in Pooled
  <2>1. k \in handling[c] /\ k # j /\ up'[c][k] = up[c][k]
    BY <1>1, <1>4, <1>5, <1>7
  <2>2. \A kind, y : Up(c, k, kind, y)' <=> Up(c, k, kind, y)
    BY <2>1, UpSame
  <2> QED BY <1>4, <2>1, <2>2, SameSaid DEF Said, Unmet
<1>8. k \in handling'[c] /\ peer[c] = k => peer'[c] = k
  BY <1>4, <1>7
<1>9. \A i \in handling'[c] : i \in handling[c] /\ (up[c][i] = <<>> => up'[c][i] = <<>>)
  BY <1>1, <1>4, <1>5
<1>10. \A y \in Waits(c), i \in Conn : Up(c, i, "slot", y)' => Up(c, i, "slot", y)
  BY <1>5
<1>11. claimed' = claimed
  BY <1>3
<1> QED BY <1>2, <1>4, <1>6, <1>7, <1>8, <1>9, <1>10, <1>11, HeedKept

(* A cast told of one thing on the connection it has.                      *)
LEMMA TellsHeeded ==
    ASSUME LinkAssumption, Base, Base', NEW c \in Cast, NEW x \in Mine(c, Id), Heeded(c),
           UNCHANGED <<work, ends, up, handling, peer, status, held, waiting>>,
           NEW kind \in Tellings(x), Tell(c, peer[c], Frame(kind, x)),
           \A y \in Id :
                /\ y \in known => y \in known' \/ (y = x /\ y \in Await /\ kind = "childEnded")
                /\ y \in tasks => y \in tasks' \/ (y = x /\ kind \in {"accepted", "refused"})
                /\ y \in claims => y \in claims' \/ (y = x /\ kind = "unclaimed"),
           kind = "claimed" => x \in claims'
    PROVE  Heeded(c)'
<1>1. /\ Types /\ Types' /\ Connections(c) /\ None \notin Conn /\ handling[c] \subseteq Conn
      /\ peer[c] \in Conn \cup {None}
  BY ConnsAre DEF Base, Types
<1>2. PICK k \in Nat : conn[c] = k
  BY <1>1 DEF Types
<1>3. UNCHANGED <<at, claimed, conn, over, up, handling, peer, status, held, waiting>>
  BY DEF work, ends
<1>4. /\ Waits(c)' = Waits(c) /\ Pooled' = Pooled
      /\ \A j, l, y : Up(c, j, l, y)' <=> Up(c, j, l, y)
  BY <1>3, UpSame DEF Waits, Mine, Id, Pooled, Pool!Requests
<1>5. \A y : Said(c, k, y)' <=> Said(c, k, y)
  BY <1>4, SameSaid DEF Said
<1>6. Unmet(c, k)' <=> Unmet(c, k)
  BY <1>4 DEF Unmet
<1>7. \A y \in Waits(c) : y \in Id /\ y \in Mine(c, Id)
  BY DEF Waits, Mine
<1>8. ASSUME k \in Conn, peer[c] = k, NEW y \in Waits(c), Reachable(c, k, y)
      PROVE  Reachable(c, k, y)'
  <2>1. y \in Id /\ c \notin over
    BY <1>1, <1>2, <1>7, <1>8 DEF Connections
  <2>2. PICK f \in DownFrames(c) : f = Frame(kind, x)
    BY DownFramed
  <2>3. /\ DownTypes'
        /\ \A d \in Cast, j \in Conn :
             down'[d][j] = IF d = c /\ j = peer[c] /\ c \notin over
                           THEN Append(down[d][j], f) ELSE down[d][j]
        /\ \A d \in Cast, j \in Conn : \A l, z :
             Down(d, j, l, z)' <=>
                 \/ Down(d, j, l, z)
                 \/ d = c /\ j = peer[c] /\ c \notin over /\ f = Frame(l, z)
    BY <1>1, <2>2, Told
  <2>4. /\ down'[c][k] = Append(down[c][k], f)
        /\ \A l, z : Down(c, k, l, z)' <=> Down(c, k, l, z) \/ f = Frame(l, z)
    BY <1>8, <2>1, <2>3
  <2>5. \A l, z : f = Frame(l, z) <=> kind = l /\ x = z
    BY <2>2, Framed
  <2>6. ClaimsTrue(c, k, y) => ClaimsTrue(c, k, y)'
    <3>1. /\ f = Frame("claimed", y) => y \in claims'
          /\ y \in claims => y \in claims' \/ f = Frame("unclaimed", y)
      BY <2>1, <2>5
    <3> QED BY <1>1, <1>8, <2>4, <3>1, ClaimsKept
  <2>7. y \in known => y \in known' \/ (y \in Await /\ Down(c, k, "childEnded", y)')
    BY <2>1, <2>4, <2>5
  <2>8. y \in tasks => y \in tasks' \/ Down(c, k, "accepted", y)' \/ Down(c, k, "refused", y)'
    BY <2>1, <2>4, <2>5
  <2>9. y \in Prompt /\ y \in claimed' => y \in claims' \/ Down(c, k, "unclaimed", y)'
    <3>1. y \in Prompt /\ y \in claimed => y \in claims \/ Down(c, k, "unclaimed", y)
      BY <1>8 DEF Reachable
    <3> QED BY <1>3, <2>1, <2>4, <2>5, <3>1
  <2> QED BY <1>1, <1>3, <1>4, <1>5, <1>8, <2>1, <2>4, <2>6, <2>7, <2>8, <2>9, ReachKept
<1>9. k \in handling[c] => k \in Conn
  BY <1>1
<1> QED BY <1>2, <1>3, <1>4, <1>5, <1>6, <1>8, <1>9, HeedKept

LEMMA SettlesHeeded ==
    ASSUME LinkAssumption, Base, Base', NEW e \in Enqueue, Settles(e), Heeded(Of[e])
    PROVE  Heeded(Of[e])'
<1>1. /\ Of[e] \in Cast /\ e \in Mine(Of[e], Id) /\ Tellings(e) = {"accepted", "refused"}
  BY KindsOf DEF Id, Mine
<1>2. PICK c \in Cast : c = Of[e]
  BY <1>1
<1>3. /\ tasks' = tasks \ {e} /\ UNCHANGED <<known, claims>>
      /\ UNCHANGED <<work, ends, up, handling, peer, status, held, waiting>>
  BY DEF Settles, board, pool
<1>4. PICK kind \in {"accepted", "refused"} : Tell(c, peer[c], Frame(kind, e))
  BY <1>2 DEF Settles
<1>5. Heeded(c)
  BY <1>2
<1>6. Heeded(c)'
  BY <1>1, <1>2, <1>3, <1>4, <1>5, TellsHeeded
<1> QED BY <1>2, <1>6

LEMMA AnswersHeeded ==
    ASSUME LinkAssumption, Base, Base', NEW x \in Id, Answers(x), Heeded(Of[x])
    PROVE  Heeded(Of[x])'
<1>1. /\ Of[x] \in Cast /\ x \in Mine(Of[x], Id) /\ Types
  BY KindsOf DEF Base, Mine
<1>2. PICK c \in Cast : c = Of[x]
  BY <1>1
<1>3. UNCHANGED <<work, ends, up, handling, peer, tasks, status, held, waiting>>
  BY DEF Answers, server, pool
<1>4. \/ /\ x \in Prompt /\ claims' = claims \cup {x} /\ known' = known
         /\ Tell(c, peer[c], Frame("claimed", x))
      \/ /\ x \in claims /\ claims' = claims \ {x} /\ known' = known
         /\ Tell(c, peer[c], Frame("unclaimed", x))
      \/ x \in Prompt /\ UNCHANGED <<known, claims>> /\ Tell(c, peer[c], Frame("answer", x))
      \/ /\ x \in Await /\ known' = known \ {x} /\ claims' = claims
         /\ Tell(c, peer[c], Frame("childEnded", x))
  BY <1>2 DEF Answers
<1>5. /\ x \in Prompt => Tellings(x) = {"answer", "claimed", "unclaimed"}
      /\ x \in Await => Tellings(x) = {"childEnded"}
      /\ claims \subseteq Prompt
  BY <1>1, KindsOf DEF Types
<1>6. PICK kind \in Tellings(x) :
        /\ Tell(c, peer[c], Frame(kind, x))
        /\ \A y \in Id :
            /\ y \in known => y \in known' \/ (y = x /\ y \in Await /\ kind = "childEnded")
            /\ y \in claims => y \in claims' \/ (y = x /\ kind = "unclaimed")
        /\ kind = "claimed" => x \in claims'
  <2>1. CASE /\ x \in Prompt /\ claims' = claims \cup {x} /\ known' = known
             /\ Tell(c, peer[c], Frame("claimed", x))
    BY <1>5, <2>1
  <2>2. CASE /\ x \in claims /\ claims' = claims \ {x} /\ known' = known
             /\ Tell(c, peer[c], Frame("unclaimed", x))
    <3>1. "unclaimed" \in Tellings(x)
      BY <1>5, <2>2
    <3> QED BY <2>2, <3>1
  <2>3. CASE x \in Prompt /\ UNCHANGED <<known, claims>> /\ Tell(c, peer[c], Frame("answer", x))
    BY <1>5, <2>3
  <2>4. CASE /\ x \in Await /\ known' = known \ {x} /\ claims' = claims
             /\ Tell(c, peer[c], Frame("childEnded", x))
    BY <1>5, <2>4
  <2> QED BY <1>4, <2>1, <2>2, <2>3, <2>4
<1>7. Heeded(c) /\ x \in Mine(c, Id)
  BY <1>1, <1>2
<1>8. \A y \in Id :
        /\ y \in known => y \in known' \/ (y = x /\ y \in Await /\ kind = "childEnded")
        /\ y \in tasks => y \in tasks' \/ (y = x /\ kind \in {"accepted", "refused"})
        /\ y \in claims => y \in claims' \/ (y = x /\ kind = "unclaimed")
  BY <1>3, <1>6
<1>9. Heeded(c)'
  BY <1>3, <1>6, <1>7, <1>8, TellsHeeded
<1> QED BY <1>2, <1>9

LEMMA InitHeeded == ASSUME LinkAssumption, Init, NEW c \in Cast PROVE Heeded(c)
<1>1. /\ Waits(c) = {} /\ handling[c] = {} /\ \A j \in Conn : up[c][j] = <<>>
  BY DEF Init, Waits, Mine
<1> QED BY <1>1 DEF Heeded, Heeds

LEMMA NextHeeded ==
    ASSUME LinkAssumption, Base, Base', \A c \in Cast : Heeded(c), [Next]_vars
    PROVE  \A c \in Cast : Heeded(c)'
<1>1. ASSUME NEW c \in Cast, Connects(c) \/ Attaches(c) \/ Hears(c) \/ Gone(c) \/ Ends(c) \/ Dies(c)
      PROVE  \A d \in Cast : Heeded(d)'
  <2>1. \A d \in Cast \ {c} : Aside(d)
    BY <1>1, ConnectsBase, AttachesBase, HearsBase, GoneBase, EndsBase
  <2>2. CASE Attaches(c) /\ c \in over
    <3>1. c \in over'
      BY <2>2 DEF Attaches
    <3> QED BY <2>1, <3>1, AsideHeeded, OverHeeded
  <2>3. CASE Ends(c) \/ Dies(c)
    <3>1. c \in over'
      BY <2>3 DEF Ends, Dies
    <3> QED BY <2>1, <3>1, AsideHeeded, OverHeeded
  <2>4. CASE Connects(c) \/ (Attaches(c) /\ c \notin over) \/ Hears(c) \/ Gone(c)
    <3>1. Heeded(c)'
      BY <2>4, ConnectsHeeded, AttachesHeeded, HearsHeeded, GoneHeeded
    <3> QED BY <2>1, <3>1, AsideHeeded
  <2> QED BY <1>1, <2>2, <2>3, <2>4
<1>2. ASSUME NEW x \in Id, Begins(x) \/ Closes(x) \/ Answers(x)
      PROVE  \A d \in Cast : Heeded(d)'
  <2>1. Of[x] \in Cast /\ \A d \in Cast \ {Of[x]} : Aside(d)
    BY <1>2, BeginsBase, ClosesBase, AnswersBase, KindsOf
  <2>2. Heeded(Of[x])
    BY <2>1
  <2>3. Heeded(Of[x])'
    BY <1>2, <2>2, BeginsHeeded, ClosesHeeded, AnswersHeeded
  <2>4. \A d \in Cast \ {Of[x]} : Heeded(d)'
    BY <2>1, AsideHeeded
  <2>5. PICK c \in Cast : c = Of[x]
    BY <2>1
  <2>6. Heeded(c)'
    BY <2>3, <2>5
  <2> QED BY <2>4, <2>5, <2>6
<1>3. ASSUME NEW c \in Cast, NEW k \in Conn, Reads(c, k) \/ LosesConnection(c, k)
      PROVE  \A d \in Cast : Heeded(d)'
  <2>1. \A d \in Cast \ {c} : Aside(d)
    BY <1>3, ReadsBase, LosesBase
  <2>2. Heeded(c)'
    BY <1>3, ReadsHeeded, LosesHeeded
  <2> QED BY <2>1, <2>2, AsideHeeded
<1>4. ASSUME NEW e \in Enqueue, Settles(e)
      PROVE  \A d \in Cast : Heeded(d)'
  <2>1. Of[e] \in Cast /\ \A d \in Cast \ {Of[e]} : Aside(d)
    BY <1>4, SettlesBase, KindsOf DEF Id
  <2>2. PICK c \in Cast : c = Of[e]
    BY <2>1
  <2>3. Heeded(Of[e])
    BY <2>1
  <2>4. Heeded(Of[e])'
    BY <1>4, <2>3, SettlesHeeded
  <2>5. Heeded(c)'
    BY <2>2, <2>4
  <2> QED BY <2>1, <2>2, <2>5, AsideHeeded
<1>5. CASE Stops
  BY <1>5, StopsHeeded
<1>6. CASE Serves \/ UNCHANGED vars
  BY <1>6, SameHeeded DEF Serves, vars, work, ends, board, pool
<1> QED BY <1>1, <1>2, <1>3, <1>4, <1>5, <1>6 DEF Next

LEMMA HeededEnds ==
    ASSUME LinkAssumption, Base, \A c \in Cast : Heeded(c)
    PROVE  EveryWaitCanEnd
<1> SUFFICES ASSUME NEW x \in Id, at[x] = "waiting"
             PROVE  LET c == Of[x]
                    IN  CASE conn[c] = None -> x \in Prompt \cup Await /\ x \notin claimed
                          [] conn[c] # None /\ ~Attached(c) -> TRUE
                          [] Attached(c) /\ x \in Prompt ->
                                /\ x \in known \/ UpTo(c, "asked", x)
                                /\ x \in claimed => x \in claims \/ DownTo(c, "unclaimed", x)
                          [] Attached(c) /\ x \in Slot ->
                                \/ UpTo(c, "slot", x) \/ x \in Pool!Requests(waiting)
                                \/ DownTo(c, "granted", x)
                          [] Attached(c) /\ x \in Enqueue ->
                                \/ UpTo(c, "enqueue", x) \/ x \in tasks
                                \/ DownTo(c, "accepted", x) \/ DownTo(c, "refused", x)
                          [] Attached(c) /\ x \in Await ->
                                x \in known \/ UpTo(c, "awaits", x) \/ DownTo(c, "childEnded", x)
  BY DEF EveryWaitCanEnd
<1> DEFINE c == Of[x]
           k == conn[c]
<1>1. c \in Cast /\ x \in Waits(c) /\ Types /\ k \in Nat
  BY KindsOf DEF Waits, Mine, Base, Types
<1>2. Heeds(c, k)
  BY <1>1 DEF Heeded
<1>3. /\ \A kind, y : UpTo(c, kind, y) <=> Up(c, k, kind, y)
      /\ \A kind, y : DownTo(c, kind, y) <=> Down(c, k, kind, y)
  BY DEF UpTo, DownTo, Up, Down
<1>4. Attached(c) <=> k # None /\ k \in handling[c] /\ (status[c] = "running" \/ Unmet(c, k))
  BY <1>3 DEF Attached, Unmet
<1> HIDE DEF c, k
<1>5. Attached(c) =>
        \/ Said(c, k, x) /\ x \notin claimed
        \/ Reachable(c, k, x)
  BY <1>1, <1>2, <1>4 DEF Heeds
<1>6. \A kind : kind = Opener(x) => (Said(c, k, x) => UpTo(c, kind, x))
  BY <1>3 DEF Said
<1>7. CASE k = None
  BY <1>1, <1>2, <1>4, <1>7 DEF Heeds, c, k
<1>8. CASE k # None /\ ~Attached(c)
  BY <1>8 DEF c, k
<1>9. CASE Attached(c) /\ x \in Prompt
  <2>1. x \notin Slot \cup Enqueue \cup Await /\ "asked" = Opener(x)
    BY <1>9, KindsOf
  <2>2. /\ x \in known \/ UpTo(c, "asked", x)
        /\ x \in claimed => x \in claims \/ DownTo(c, "unclaimed", x)
    BY <1>3, <1>5, <1>6, <1>9, <2>1 DEF Reachable
  <2> QED BY <1>4, <1>9, <2>1, <2>2 DEF c, k
<1>10. CASE Attached(c) /\ x \in Slot
  <2>1. x \notin Prompt \cup Enqueue \cup Await /\ "slot" = Opener(x)
    BY <1>10, KindsOf
  <2>2. \/ UpTo(c, "slot", x) \/ x \in Pool!Requests(waiting) \/ DownTo(c, "granted", x)
    BY <1>3, <1>5, <1>6, <1>10, <2>1 DEF Reachable, Pooled
  <2> QED BY <1>4, <1>10, <2>1, <2>2 DEF c, k
<1>11. CASE Attached(c) /\ x \in Enqueue
  <2>1. x \notin Prompt \cup Slot \cup Await /\ "enqueue" = Opener(x)
    BY <1>11, KindsOf
  <2>2. \/ UpTo(c, "enqueue", x) \/ x \in tasks
        \/ DownTo(c, "accepted", x) \/ DownTo(c, "refused", x)
    BY <1>3, <1>5, <1>6, <1>11, <2>1 DEF Reachable
  <2> QED BY <1>4, <1>11, <2>1, <2>2 DEF c, k
<1>12. CASE Attached(c) /\ x \in Await
  <2>1. x \notin Prompt \cup Slot \cup Enqueue /\ "awaits" = Opener(x)
    BY <1>12, KindsOf
  <2>2. x \in known \/ UpTo(c, "awaits", x) \/ DownTo(c, "childEnded", x)
    BY <1>3, <1>5, <1>6, <1>12, <2>1 DEF Reachable
  <2> QED BY <1>4, <1>12, <2>1, <2>2 DEF c, k
<1> QED BY <1>7, <1>8, <1>9, <1>10, <1>11, <1>12, KindsOf

(* Whatever a cast waits on can still come to it: whichever end lost the   *)
(* other first, whatever was unread then, and however often the cast has   *)
(* attached again, a wait is held by the daemon or about to be heard of,   *)
(* and what nobody could end does not wait.                                *)
THEOREM EveryWaitCanEndCorrect == Spec => []EveryWaitCanEnd
<1> DEFINE I == Base /\ \A c \in Cast : Heeded(c)
<1>1. Init => I
  BY LinkAssumption, InitBase, InitHeeded
<1>2. I /\ [Next]_vars => I'
  <2> SUFFICES ASSUME I, [Next]_vars PROVE I'
    OBVIOUS
  <2>1. Base'
    BY LinkAssumption, NextBase
  <2>2. \A c \in Cast : Heeded(c)'
    BY LinkAssumption, <2>1, NextHeeded
  <2> QED BY <2>1, <2>2
<1>3. I => EveryWaitCanEnd
  BY LinkAssumption, HeededEnds
<1> QED BY <1>1, <1>2, <1>3, PTL DEF Spec

-----------------------------------------------------------------------------
(* Holdings: what the daemon holds of a cast is the cast's still, or is to *)
(* be let go of.                                                           *)

LEMMA ClosingKept ==
    ASSUME LinkAssumption, Types, NEW c \in Cast, NEW k \in Conn, NEW x \in Mine(c, Id),
           Closing(c, k, x),
           \/ up'[c][k] = up[c][k] /\ (at[x] \in Wanted => at'[x] \in Wanted)
           \/ up'[c][k] = up[c][k] /\ Frame(Opener(x), x) \notin Range(up[c][k])
           \/ \E f \in UpFrames(c) :
                /\ up'[c][k] = Append(up[c][k], f)
                /\ f = Frame(Opener(x), x) => at'[x] \in Wanted
                /\ at[x] \in Wanted => \/ at'[x] \in Wanted
                                       \/ f.about = x /\ f.kind \in Endings(x)
           \/ up[c][k] # <<>> /\ up'[c][k] = Tail(up[c][k]) /\ (at[x] \in Wanted => at'[x] \in Wanted)
    PROVE  Closing(c, k, x)'
<1> DEFINE s == up[c][k]
           t == up'[c][k]
           open == Frame(Opener(x), x)
<1>1. s \in Seq(UpFrames(c)) /\ open' = open /\ Wanted' = Wanted /\ Endings(x)' = Endings(x)
  BY SameSaid DEF Types, UpTypes, Frame
<1>2. \A i \in DOMAIN s : s[i] = open =>
        \/ at[x] \in Wanted
        \/ \E j \in DOMAIN s : j > i /\ s[j].about = x /\ s[j].kind \in Endings(x)
  BY DEF Closing
<1>3. SUFFICES ASSUME NEW i \in DOMAIN t, t[i] = open, at'[x] \notin Wanted
               PROVE  \E j \in DOMAIN t : j > i /\ t[j].about = x /\ t[j].kind \in Endings(x)
  BY <1>1 DEF Closing
<1>4. \/ t = s /\ (at[x] \in Wanted => at'[x] \in Wanted)
      \/ t = s /\ open \notin Range(s)
      \/ \E f \in UpFrames(c) :
            /\ t = Append(s, f)
            /\ f = open => at'[x] \in Wanted
            /\ at[x] \in Wanted => \/ at'[x] \in Wanted
                                   \/ f.about = x /\ f.kind \in Endings(x)
      \/ s # <<>> /\ t = Tail(s) /\ (at[x] \in Wanted => at'[x] \in Wanted)
  OBVIOUS
<1> HIDE DEF s, t, open
<1>5. CASE t = s /\ (at[x] \in Wanted => at'[x] \in Wanted)
  BY <1>2, <1>3, <1>5
<1>6. CASE t = s /\ open \notin Range(s)
  <2>1. t[i] \in Range(s)
    BY <1>6 DEF Range
  <2> QED BY <1>3, <1>6, <2>1
<1>7. CASE \E f \in UpFrames(c) :
            /\ t = Append(s, f)
            /\ f = open => at'[x] \in Wanted
            /\ at[x] \in Wanted => \/ at'[x] \in Wanted
                                   \/ f.about = x /\ f.kind \in Endings(x)
  <2>1. PICK f \in UpFrames(c) :
            /\ t = Append(s, f)
            /\ f = open => at'[x] \in Wanted
            /\ at[x] \in Wanted => \/ at'[x] \in Wanted
                                   \/ f.about = x /\ f.kind \in Endings(x)
    BY <1>7
  <2>2. /\ t \in Seq(UpFrames(c)) /\ DOMAIN s \subseteq DOMAIN t
        /\ Len(s) + 1 \in DOMAIN t /\ t[Len(s) + 1] = f
        /\ \A l \in DOMAIN s : t[l] = s[l] /\ l < Len(s) + 1
        /\ \A l \in DOMAIN t : l \in DOMAIN s \/ l = Len(s) + 1
        /\ Range(t) = Range(s) \cup {f}
    BY <1>1, <2>1, Appended
  <2>3. i \in DOMAIN s /\ s[i] = open
    BY <1>3, <2>1, <2>2
  <2>4. CASE at[x] \in Wanted
    <3>1. Len(s) \in Nat /\ i \in Nat /\ i < Len(s) + 1
      BY <1>1, <2>2, <2>3, InSeq
    <3>2. Len(s) + 1 > i
      BY <3>1
    <3> QED BY <1>3, <2>1, <2>2, <2>4, <3>2
  <2>5. CASE at[x] \notin Wanted
    BY <1>2, <2>2, <2>3, <2>5
  <2> QED BY <2>4, <2>5
<1>8. CASE s # <<>> /\ t = Tail(s) /\ (at[x] \in Wanted => at'[x] \in Wanted)
  <2>1. /\ t \in Seq(UpFrames(c)) /\ Head(s) \in UpFrames(c)
        /\ 1 \in DOMAIN s /\ s[1] = Head(s)
        /\ \A l \in DOMAIN t : l + 1 \in DOMAIN s /\ t[l] = s[l + 1] /\ l \in Nat \ {0}
        /\ \A l \in DOMAIN s :
            l = 1 \/ (l - 1 \in DOMAIN t /\ t[l - 1] = s[l] /\ l > 1 /\ l \in Nat)
        /\ Range(s) = {Head(s)} \cup Range(t)
    BY <1>1, <1>8, Tailed
  <2>2. PICK j \in DOMAIN s : j > i + 1 /\ s[j].about = x /\ s[j].kind \in Endings(x)
    BY <1>2, <1>3, <1>8, <2>1
  <2>3. i \in Nat \ {0}
    BY <1>3, <2>1
  <2>4. ~(1 > i + 1)
    BY <2>3
  <2>5. j - 1 \in DOMAIN t /\ t[j - 1] = s[j] /\ j \in Nat
    BY <2>1, <2>2, <2>4
  <2>6. j - 1 > i
    BY <2>2, <2>3, <2>5
  <2> QED BY <2>2, <2>5, <2>6
<1> QED BY <1>4, <1>5, <1>6, <1>7, <1>8

LEMMA AwaitsKept ==
    ASSUME LinkAssumption, Types, NEW c \in Cast, NEW k \in Conn, NEW x, AwaitsOnce(c, k, x),
           \/ up'[c][k] = up[c][k]
           \/ \E f \in UpFrames(c) :
                /\ up'[c][k] = Append(up[c][k], f)
                /\ f = Frame("awaits", x) => ~Up(c, k, "awaits", x)
           \/ up[c][k] # <<>> /\ up'[c][k] = Tail(up[c][k])
    PROVE  /\ AwaitsOnce(c, k, x)'
           /\ up[c][k] # <<>> /\ up'[c][k] = Tail(up[c][k]) /\ Head(up[c][k]) = Frame("awaits", x)
                => ~Up(c, k, "awaits", x)'
<1> DEFINE s == up[c][k]
           t == up'[c][k]
           said == Frame("awaits", x)
<1>1. s \in Seq(UpFrames(c)) /\ said' = said
  BY DEF Types, UpTypes, Frame
<1>2. \A i, j \in DOMAIN s : s[i] = said /\ s[j] = said => i = j
  BY DEF AwaitsOnce
<1>3. (\A i, j \in DOMAIN t : t[i] = said /\ t[j] = said => i = j) => AwaitsOnce(c, k, x)'
  BY DEF AwaitsOnce, Frame
<1>4. /\ Up(c, k, "awaits", x) <=> said \in Range(s)
      /\ Up(c, k, "awaits", x)' <=> said \in Range(t)
  BY DEF Up, Frame
<1>5. \/ t = s
      \/ \E f \in UpFrames(c) : t = Append(s, f) /\ (f = said => said \notin Range(s))
      \/ s # <<>> /\ t = Tail(s)
  BY <1>4
<1>6. SUFFICES /\ \A i, j \in DOMAIN t : t[i] = said /\ t[j] = said => i = j
               /\ s # <<>> /\ t = Tail(s) /\ Head(s) = said => said \notin Range(t)
  BY <1>3, <1>4
<1> HIDE DEF s, t, said
<1>7. s # <<>> /\ t = Tail(s) =>
        /\ t \in Seq(UpFrames(c)) /\ Head(s) \in UpFrames(c)
        /\ 1 \in DOMAIN s /\ s[1] = Head(s)
        /\ \A l \in DOMAIN t : l + 1 \in DOMAIN s /\ t[l] = s[l + 1] /\ l \in Nat \ {0}
        /\ \A l \in DOMAIN s :
            l = 1 \/ (l - 1 \in DOMAIN t /\ t[l - 1] = s[l] /\ l > 1 /\ l \in Nat)
        /\ Range(s) = {Head(s)} \cup Range(t)
  BY <1>1, Tailed
<1>8. s # <<>> /\ t = Tail(s) /\ Head(s) = said => said \notin Range(t)
  <2> SUFFICES ASSUME s # <<>>, t = Tail(s), Head(s) = said, said \in Range(t) PROVE FALSE
    OBVIOUS
  <2>1. PICK l \in DOMAIN t : t[l] = said
    BY DEF Range
  <2>2. l \in Nat \ {0} /\ l + 1 \in DOMAIN s /\ s[l + 1] = said /\ 1 \in DOMAIN s /\ s[1] = said
    BY <1>7, <2>1
  <2>3. l + 1 # 1
    BY <2>2
  <2> QED BY <1>2, <2>2, <2>3
<1>9. CASE t = s
  BY <1>2, <1>8, <1>9
<1>10. CASE \E f \in UpFrames(c) : t = Append(s, f) /\ (f = said => said \notin Range(s))
  <2>1. PICK f \in UpFrames(c) : t = Append(s, f) /\ (f = said => said \notin Range(s))
    BY <1>10
  <2>2. /\ t \in Seq(UpFrames(c)) /\ DOMAIN s \subseteq DOMAIN t
        /\ Len(s) + 1 \in DOMAIN t /\ t[Len(s) + 1] = f
        /\ \A l \in DOMAIN s : t[l] = s[l] /\ l < Len(s) + 1
        /\ \A l \in DOMAIN t : l \in DOMAIN s \/ l = Len(s) + 1
        /\ Range(t) = Range(s) \cup {f}
    BY <1>1, <2>1, Appended
  <2>3. \A l \in DOMAIN s : s[l] \in Range(s)
    BY DEF Range
  <2> QED BY <1>2, <1>8, <2>1, <2>2, <2>3
<1>11. CASE s # <<>> /\ t = Tail(s)
  <2>1. ASSUME NEW i \in DOMAIN t, NEW j \in DOMAIN t, t[i] = said, t[j] = said
        PROVE  i = j
    <3>1. i \in Nat /\ j \in Nat /\ i + 1 = j + 1
      BY <1>2, <1>7, <1>11, <2>1
    <3> QED BY <3>1
  <2> QED BY <1>8, <2>1
<1> QED BY <1>5, <1>9, <1>10, <1>11

(* A cast attached by no connection owes nothing but by ones it has left.  *)
LEMMA LeftAccounted ==
    ASSUME LinkAssumption, Base, Base', NEW c \in Cast, Accounted(c), conn'[c] = None,
           UNCHANGED <<known, held, waiting>>,
           \A j \in handling[c] : Met(c, j) => j \in handling'[c] /\ Met(c, j)'
    PROVE  Accounted(c)'
<1>1. handling'[c] \subseteq Conn /\ None \notin Conn
  BY ConnsAre DEF Base, Types, Conn
<1>2. PICK k \in Nat : conn[c] = k
  BY DEF Base, Types
<1>3. Pooled' = Pooled /\ \A x : x \in Mine(c, known \cup Pooled)' <=> x \in Mine(c, known \cup Pooled)
  BY DEF Pooled, Pool!Requests, Mine
<1>4. ASSUME NEW x \in Mine(c, known \cup Pooled)' PROVE Owed(c, None, x)'
  <2>1. Owed(c, k, x)
    BY <1>2, <1>3 DEF Accounted, Accounts
  <2>2. PICK j \in handling[c] : Met(c, j)
    BY <2>1 DEF Owed
  <2>3. j \in handling'[c] /\ Met(c, j)' /\ j # None
    BY <1>1, <2>2
  <2> QED BY <2>3 DEF Owed
<1>5. Accounts(c, None)'
  BY <1>1, <1>4 DEF Accounts
<1>6. \A l \in Nat : l = conn'[c] => l = None
  OBVIOUS
<1> QED BY <1>5, <1>6 DEF Accounted, None

LEMMA AccountKept ==
    ASSUME NEW c \in Cast, NEW k \in Nat, conn[c] = k, conn'[c] = k, Accounted(c),
           \A x \in Mine(c, known' \cup Pooled') :
                (x \in known \cup Pooled => Owed(c, k, x)) => Owed(c, k, x)',
           k \in handling'[c] =>
                /\ k \in handling[c]
                /\ \A x \in Mine(c, Id \ Enqueue) : Closing(c, k, x) => Closing(c, k, x)'
                /\ \A x \in Mine(c, Await) : AwaitsOnce(c, k, x) => AwaitsOnce(c, k, x)'
                /\ \A x \in Mine(c, Await) :
                    AwaitsOnce(c, k, x) /\ EndedOnce(c, k, x) => EndedOnce(c, k, x)'
    PROVE  Accounted(c)'
<1>1. Accounts(c, k)
  BY DEF Accounted
<1>2. /\ \A x : x \in Mine(c, known \cup Pooled)' => x \in Mine(c, known' \cup Pooled')
      /\ \A x : x \in Mine(c, Id \ Enqueue)' <=> x \in Mine(c, Id \ Enqueue)
      /\ \A x : x \in Mine(c, Await)' <=> x \in Mine(c, Await)
      /\ \A x \in Mine(c, known' \cup Pooled') : x \in known \cup Pooled => x \in Mine(c, known \cup Pooled)
  BY DEF Mine, Id
<1>3. \A x \in Mine(c, known \cup Pooled)' : Owed(c, k, x)'
  BY <1>1, <1>2 DEF Accounts
<1>4. ASSUME k \in handling'[c]
      PROVE  /\ \A x \in Mine(c, Id \ Enqueue)' : Closing(c, k, x)'
             /\ \A x \in Mine(c, Await)' : AwaitsOnce(c, k, x)' /\ EndedOnce(c, k, x)'
  BY <1>1, <1>2, <1>4 DEF Accounts
<1>5. Accounts(c, k)'
  BY <1>3, <1>4 DEF Accounts
<1> QED BY <1>5 DEF Accounted

LEMMA AsideAccounted ==
    ASSUME LinkAssumption, Base, Base', NEW d \in Cast, Aside(d), Accounted(d)
    PROVE  Accounted(d)'
<1>1. Types /\ Types' /\ handling[d] \subseteq Conn
  BY DEF Base, Types
<1>2. PICK k \in Nat : conn[d] = k
  BY <1>1 DEF Types
<1>3. /\ conn'[d] = k /\ connecting'[d] = connecting[d] /\ handling'[d] = handling[d]
      /\ \A x \in Mine(d, Id) : /\ at'[x] = at[x]
                                /\ x \in known' <=> x \in known
                                /\ x \in Pooled' <=> x \in Pooled
      /\ \A j \in Conn : up'[d][j] = up[d][j]
      /\ \A j \in Conn : \A x : Down(d, j, "childEnded", x)' <=> Down(d, j, "childEnded", x)
  BY <1>2 DEF Aside
<1>4. /\ \A j \in Conn : \A kind, x : Up(d, j, kind, x)' <=> Up(d, j, kind, x)
      /\ \A j \in Conn : Met(d, j)' <=> Met(d, j)
      /\ \A j \in Conn : \A x : EndSaid(d, j, x)' <=> EndSaid(d, j, x)
  <2>1. \A j \in Conn : \A kind, x : Up(d, j, kind, x)' <=> Up(d, j, kind, x)
    BY <1>3, UpSame
  <2> QED BY <1>3, <2>1, SameSaid DEF Met, Unmet, EndSaid
<1>5. \A x : /\ x \in Mine(d, known' \cup Pooled') => x \in Mine(d, Id)
             /\ x \in Mine(d, Id \ Enqueue) => x \in Mine(d, Id)
             /\ x \in Mine(d, Await) => x \in Mine(d, Id)
  BY <1>1 DEF Mine, Types, Pooled, Id
<1>6. \A x \in Mine(d, known' \cup Pooled') :
            (x \in known \cup Pooled => Owed(d, k, x)) => Owed(d, k, x)'
  <2> SUFFICES ASSUME NEW x \in Mine(d, known' \cup Pooled'),
                      x \in known \cup Pooled => Owed(d, k, x)
               PROVE  Owed(d, k, x)'
    OBVIOUS
  <2>1. x \in Mine(d, Id) /\ x \in known' \cup Pooled'
    BY <1>5 DEF Mine
  <2>2. at'[x] = at[x] /\ Owed(d, k, x)
    BY <1>3, <2>1
  <2>3. PICK j \in handling[d] : Met(d, j) /\ (at[x] \in Wanted \/ j # k \/ EndSaid(d, j, x))
    BY <2>2 DEF Owed
  <2>4. /\ j \in handling'[d] /\ Met(d, j)'
        /\ at'[x] \in Wanted' \/ j # k \/ EndSaid(d, j, x)'
    BY <1>1, <1>3, <1>4, <2>2, <2>3, SameSaid
  <2> QED BY <2>4 DEF Owed
<1>7. ASSUME k \in handling[d], NEW x \in Mine(d, Id), Closing(d, k, x)
      PROVE  Closing(d, k, x)'
  BY <1>1, <1>3, <1>7, ClosingKept
<1>8. ASSUME k \in handling[d], NEW x, AwaitsOnce(d, k, x)
      PROVE  AwaitsOnce(d, k, x)'
  BY <1>1, <1>3, <1>8, AwaitsKept
<1>9. ASSUME k \in handling[d], NEW x \in Mine(d, Await), EndedOnce(d, k, x)
      PROVE  EndedOnce(d, k, x)'
  <2>1. x \in known' <=> x \in known
    BY <1>3, <1>5
  <2> QED BY <1>1, <1>3, <1>4, <1>9, <2>1 DEF EndedOnce, Unmet
<1> QED BY <1>2, <1>3, <1>5, <1>6, <1>7, <1>8, <1>9, AccountKept

(* A cast begins, ends, or hears of, one thing: its end is said, or is one *)
(* the daemon told it of, having let go of it by then.                     *)
LEMMA WorksAccounted ==
    ASSUME LinkAssumption, Base, NEW c \in Cast, NEW x \in Mine(c, Id),
           NEW k \in Nat, conn[c] = k, Accounted(c),
           UNCHANGED <<ends, server, board, pool>>,
           \A y \in Id : y # x => at'[y] = at[y],
           \A j \in Conn : \A y : Down(c, j, "childEnded", y)' => Down(c, j, "childEnded", y),
           \/ /\ up' = up
              /\ \/ at[x] \in Wanted => at'[x] \in Wanted
                 \/ x \in Enqueue
                 \/ x \in Await /\ k \in Conn /\ Down(c, k, "childEnded", x)
           \/ \E kind \in Endings(x) : Send(c, Frame(kind, x))
           \/ at[x] = "idle" /\ at'[x] \in Wanted /\ Send(c, Frame(Opener(x), x))
    PROVE  Accounted(c)'
<1>1. /\ Types /\ Connections(c) /\ Begun(c) /\ x \in Id /\ Of[x] = c /\ None \notin Conn
      /\ handling[c] \subseteq Conn
  BY ConnsAre DEF Base, Mine, Types
<1>2. UNCHANGED <<conn, connecting, handling, known, held, waiting>>
  BY DEF ends, server, board, pool
<1>3. Pooled' = Pooled /\ Wanted' = Wanted
  BY <1>2 DEF Pooled, Pool!Requests, Wanted
<1>4. PICK f \in UpFrames(c) :
        /\ f.kind # "hello" /\ f.about = x
        /\ \/ up' = up
           \/ Send(c, f)
        /\ \/ /\ up' = up
              /\ \/ at[x] \in Wanted => at'[x] \in Wanted
                 \/ x \in Enqueue
                 \/ x \in Await /\ k \in Conn /\ Down(c, k, "childEnded", x)
           \/ Send(c, f) /\ f.kind \in Endings(x)
           \/ Send(c, f) /\ f.kind = Opener(x) /\ at[x] = "idle" /\ at'[x] \in Wanted
  <2>1. \A kind \in {Opener(x)} \cup Endings(x) :
            /\ Frame(kind, x) \in UpFrames(c)
            /\ Frame(kind, x).kind = kind /\ Frame(kind, x).about = x /\ kind # "hello"
    BY <1>1, UpFramed, OpenerKinds, Framed
  <2> QED BY <2>1
<1>5. /\ UpTypes'
      /\ \A d \in Cast, j \in Conn :
            \/ up'[d][j] = up[d][j]
            \/ d = c /\ j = conn[c] /\ up'[d][j] = Append(up[d][j], f)
      /\ \A d \in Cast, j \in Conn : \A kind, y :
            Up(d, j, kind, y)' => \/ Up(d, j, kind, y)
                                  \/ d = c /\ j = conn[c] /\ f = Frame(kind, y)
      /\ \A d \in Cast, j \in Conn : \A kind, y : Up(d, j, kind, y) => Up(d, j, kind, y)'
      /\ \A j \in Conn :
            /\ Unmet(c, j)' <=> Unmet(c, j)
            /\ j > opened[c] \/ j = connecting[c] => up'[c][j] = <<>>
            /\ \A i \in DOMAIN up'[c][j] : up'[c][j][i].kind = "hello" => i = 1
  BY <1>4, Wrote
<1>6. /\ \A j \in Conn : Met(c, j) => Met(c, j)'
      /\ \A j \in Conn : \A y : EndSaid(c, j, y) => EndSaid(c, j, y)'
  BY <1>2, <1>5, SameSaid DEF Met, EndSaid
<1>7. f = Frame(f.kind, x) /\ \A kind, y : f = Frame(kind, y) <=> kind = f.kind /\ y = x
  BY <1>1, <1>4, UpFrameIs, Framed
<1>8. k \in Conn /\ Send(c, f) => Up(c, k, f.kind, x)' /\ up'[c][k] = Append(up[c][k], f)
  <2> SUFFICES ASSUME k \in Conn, Send(c, f)
               PROVE  Up(c, k, f.kind, x)' /\ up'[c][k] = Append(up[c][k], f)
    OBVIOUS
  <2>1. /\ UpTypes'
        /\ \A d \in Cast, j \in Conn :
             up'[d][j] = IF d = c /\ j = conn[c] THEN Append(up[d][j], f) ELSE up[d][j]
        /\ \A d \in Cast, j \in Conn : \A kind, y :
             Up(d, j, kind, y)' <=> \/ Up(d, j, kind, y)
                                    \/ d = c /\ j = conn[c] /\ f = Frame(kind, y)
    BY <1>1, <1>4, Sent
  <2> QED BY <1>7, <2>1
<1>9. ASSUME NEW y \in Mine(c, known \cup Pooled), Owed(c, k, y)
      PROVE  Owed(c, k, y)'
  <2>1. y \in Id /\ y \notin Enqueue /\ (y \in Await => y \in known)
    <3>1. y \in Prompt \cup Await \cup Slot
      BY <1>1 DEF Mine, Types, Pooled
    <3> QED BY <1>1, <3>1, KindsOf DEF Mine, Types, Pooled, Id
  <2>2. PICK j \in handling[c] : Met(c, j) /\ (at[y] \in Wanted \/ j # k \/ EndSaid(c, j, y))
    BY <1>9 DEF Owed
  <2>3. j \in Conn /\ j \in handling'[c] /\ Met(c, j)'
    BY <1>1, <1>2, <1>6, <2>2
  <2>4. CASE j # k \/ EndSaid(c, j, y) \/ at'[y] \in Wanted
    <3>1. at'[y] \in Wanted' \/ j # k \/ EndSaid(c, j, y)'
      BY <1>3, <1>6, <2>3, <2>4
    <3> QED BY <2>3, <3>1 DEF Owed
  <2>5. CASE j = k /\ at[y] \in Wanted /\ at'[y] \notin Wanted
    <3>1. y = x /\ k \in Conn /\ k \in handling[c]
      BY <2>1, <2>2, <2>3, <2>5
    <3>2. ~(x \in Await /\ Down(c, k, "childEnded", x))
      <4>1. x \in Await => EndedOnce(c, k, x)
        BY <1>1, <3>1 DEF Accounted, Accounts, Mine
      <4> QED BY <2>1, <3>1, <4>1 DEF EndedOnce
    <3>3. Send(c, f) /\ f.kind \in Endings(x)
      BY <1>4, <2>1, <2>5, <3>1, <3>2
    <3>4. EndSaid(c, k, y)'
      BY <1>8, <3>1, <3>3, SameSaid DEF EndSaid
    <3> QED BY <2>3, <2>5, <3>4 DEF Owed
  <2> QED BY <2>2, <2>4, <2>5
<1>10. ASSUME k \in handling[c], NEW y \in Mine(c, Id \ Enqueue), Closing(c, k, y)
       PROVE  Closing(c, k, y)'
  <2>1. y \in Mine(c, Id) /\ y \in Id /\ y \notin Enqueue /\ k \in Conn
    BY <1>1, <1>10 DEF Mine
  <2>2. CASE Send(c, f) /\ f.kind \in Endings(x)
    <3>1. f # Frame(Opener(y), y)
      BY <1>1, <1>7, <2>2, OpenerKinds
    <3>2. at[y] \in Wanted => at'[y] \in Wanted \/ (f.about = y /\ f.kind \in Endings(y))
      BY <1>4, <2>1, <2>2
    <3> QED BY <1>1, <1>8, <1>10, <2>1, <2>2, <3>1, <3>2, ClosingKept
  <2>3. CASE Send(c, f) /\ f.kind = Opener(x) /\ at[x] = "idle" /\ at'[x] \in Wanted
    <3>1. f = Frame(Opener(y), y) => at'[y] \in Wanted
      BY <1>7, <2>3
    <3>2. at[y] \in Wanted => at'[y] \in Wanted
      BY <2>1, <2>3
    <3> QED BY <1>1, <1>8, <1>10, <2>1, <2>3, <3>1, <3>2, ClosingKept
  <2>4. CASE up' = up /\ (at[y] \in Wanted => at'[y] \in Wanted)
    BY <1>1, <1>10, <2>1, <2>4, ClosingKept
  <2>5. CASE up' = up /\ ~(at[y] \in Wanted => at'[y] \in Wanted)
    <3>1. y = x
      BY <2>1, <2>5
    <3>2. (x \in Await /\ Down(c, k, "childEnded", x)) \/ (Send(c, f) /\ f.kind \in Endings(x))
      BY <1>4, <2>1, <2>5, <3>1
    <3>3. CASE x \in Await /\ Down(c, k, "childEnded", x)
      <4>1. EndedOnce(c, k, x)
        BY <1>1, <1>10, <3>3 DEF Accounted, Accounts, Mine
      <4>2. ~Up(c, k, "awaits", x) /\ Opener(x) = "awaits"
        BY <1>1, <3>3, <4>1, KindsOf DEF EndedOnce
      <4>3. Frame(Opener(y), y) \notin Range(up[c][k])
        BY <3>1, <4>2 DEF Up
      <4> QED BY <1>1, <1>10, <2>1, <2>5, <4>3, ClosingKept
    <3> QED BY <2>2, <3>2, <3>3
  <2> QED BY <1>4, <2>2, <2>3, <2>4, <2>5
<1>11. \A y \in Mine(c, Await) : f = Frame("awaits", y) =>
            up' = up \/ (f.kind = Opener(x) /\ y = x /\ at[x] = "idle")
  <2>1. "awaits" \notin Endings(x)
    BY <1>1, OpenerKinds
  <2> QED BY <1>4, <1>7, <2>1
<1>12. ASSUME k \in handling[c], NEW y \in Mine(c, Await), AwaitsOnce(c, k, y)
       PROVE  AwaitsOnce(c, k, y)'
  <2>1. k \in Conn
    BY <1>1, <1>12
  <2>2. CASE up'[c][k] = up[c][k]
    BY <1>1, <1>12, <2>1, <2>2, AwaitsKept
  <2>3. CASE up' # up /\ up'[c][k] = Append(up[c][k], f)
    <3>1. f = Frame("awaits", y) => ~Up(c, k, "awaits", y)
      <4>1. at[x] = "idle" => \A kind : kind = Opener(x) => ~Up(c, k, kind, x)
        BY <1>1, <2>1 DEF Begun
      <4> QED BY <1>7, <1>11, <2>3, <4>1
    <3> QED BY <1>1, <1>12, <2>1, <2>3, <3>1, AwaitsKept
  <2> QED BY <1>5, <2>1, <2>2, <2>3
<1>13. ASSUME k \in handling[c], NEW y \in Mine(c, Await), EndedOnce(c, k, y)
       PROVE  EndedOnce(c, k, y)'
  <2>1. k \in Conn /\ (Unmet(c, k)' <=> Unmet(c, k))
    BY <1>1, <1>5, <1>13
  <2>2. Up(c, k, "awaits", y)' => Up(c, k, "awaits", y) \/ (y = x /\ at[x] = "idle" /\ f.kind = Opener(x))
    <3>1. up' = up => (Up(c, k, "awaits", y)' <=> Up(c, k, "awaits", y))
      BY <2>1, UpSame
    <3> QED BY <1>5, <1>11, <2>1, <3>1
  <2>3. y = x /\ at[x] = "idle" => x \notin known /\ ~Down(c, k, "childEnded", x)
    <3>1. y = x => "childEnded" \in Tellings(x)
      BY <1>1, KindsOf DEF Mine
    <3> QED BY <1>1, <2>1, <3>1 DEF Begun, Mine
  <2>4. Down(c, k, "childEnded", y)' => Down(c, k, "childEnded", y)
    BY <2>1
  <2>5. known' = known
    BY <1>2
  <2> QED BY <1>13, <2>1, <2>2, <2>3, <2>4, <2>5 DEF EndedOnce
<1>14. \A y \in Mine(c, known' \cup Pooled') :
            (y \in known \cup Pooled => Owed(c, k, y)) => Owed(c, k, y)'
  BY <1>2, <1>3, <1>9 DEF Mine
<1>15. conn'[c] = k /\ handling'[c] = handling[c]
  BY <1>2
<1> QED BY <1>10, <1>12, <1>13, <1>14, <1>15, AccountKept

LEMMA BeginsAccounted ==
    ASSUME LinkAssumption, Base, NEW x \in Id, Begins(x), Accounted(Of[x])
    PROVE  Accounted(Of[x])'
<1> DEFINE c == Of[x]
<1>1. c \in Cast /\ Types /\ x \in Mine(c, Id)
  BY KindsOf DEF Base, Mine
<1>2. PICK k \in Nat : conn[c] = k
  BY <1>1 DEF Types
<1>3. /\ at[x] = "idle" /\ UNCHANGED <<claimed, ends, down, server, board, pool>>
      /\ at' = [at EXCEPT ![x] = IF x \in Slot /\ conn[c] = None THEN "running" ELSE "waiting"]
      /\ IF at'[x] = "running" THEN UNCHANGED up ELSE Send(c, Frame(Opener(x), x))
  BY DEF Begins, Opener
<1>4. /\ \A y \in Id : y # x => at'[y] = at[y]
      /\ at'[x] \in Wanted
  BY <1>1, <1>3 DEF Types, Wanted
<1>5. \A j \in Conn : \A y : Down(c, j, "childEnded", y)' => Down(c, j, "childEnded", y)
  BY <1>3, DownSame
<1>6. \/ up' = up /\ (at[x] \in Wanted => at'[x] \in Wanted)
      \/ at[x] = "idle" /\ at'[x] \in Wanted /\ Send(c, Frame(Opener(x), x))
  BY <1>3, <1>4
<1>7. UNCHANGED <<ends, server, board, pool>> /\ Accounted(c)
  BY <1>3
<1> HIDE DEF c
<1>8. Accounted(c)'
  BY <1>1, <1>2, <1>4, <1>5, <1>6, <1>7, WorksAccounted
<1> QED BY <1>8 DEF c

LEMMA ClosesAccounted ==
    ASSUME LinkAssumption, Base, NEW x \in Id, Closes(x), Accounted(Of[x])
    PROVE  Accounted(Of[x])'
<1> DEFINE c == Of[x]
<1>1. c \in Cast /\ Types /\ x \in Mine(c, Id)
  BY KindsOf DEF Base, Mine
<1>2. PICK k \in Nat : conn[c] = k
  BY <1>1 DEF Types
<1>3. /\ UNCHANGED <<ends, down, server, board, pool>>
      /\ at' = [at EXCEPT ![x] = "over"]
      /\ \/ x \in Enqueue /\ up' = up
         \/ \E kind \in Endings(x) : Send(c, Frame(kind, x))
  BY KindsOf DEF Closes
<1>4. \A y \in Id : y # x => at'[y] = at[y]
  BY <1>1, <1>3 DEF Types
<1>5. \A j \in Conn : \A y : Down(c, j, "childEnded", y)' => Down(c, j, "childEnded", y)
  BY <1>3, DownSame
<1>6. UNCHANGED <<ends, server, board, pool>> /\ Accounted(c)
  BY <1>3
<1> HIDE DEF c
<1>7. Accounted(c)'
  BY <1>1, <1>2, <1>3, <1>4, <1>5, <1>6, WorksAccounted
<1> QED BY <1>7 DEF c

LEMMA HearsAccounted ==
    ASSUME LinkAssumption, Base, NEW c \in Cast, Hears(c), Accounted(c)
    PROVE  Accounted(c)'
<1>1. Types
  BY DEF Base
<1>2. PICK k \in Nat : conn[c] = k
  BY <1>1 DEF Types
<1>3. PICK f : f = Head(down[c][k])
  OBVIOUS
<1>4. PICK x : x = f.about
  OBVIOUS
<1>5. /\ k \in Conn /\ down[c][k] # <<>> /\ Hear(c)
      /\ x \in Mine(c, Id) /\ f = Frame(f.kind, x)
      /\ UNCHANGED <<ends, server, board, pool>>
      /\ \/ at[x] # "waiting" /\ UNCHANGED <<work, up>>
         \/ /\ at[x] = "waiting" /\ f.kind = "answer" /\ x \in Prompt
            /\ at' = [at EXCEPT ![x] = "over"] /\ claimed' = claimed \ {x}
            /\ Send(c, Frame("resolved", x))
         \/ /\ at[x] = "waiting" /\ f.kind = "claimed" /\ x \in Prompt
            /\ claimed' = claimed \cup {x} /\ UNCHANGED <<at, up>>
         \/ /\ at[x] = "waiting" /\ f.kind = "unclaimed" /\ x \in Prompt
            /\ claimed' = claimed \ {x} /\ UNCHANGED <<at, up>>
         \/ /\ at[x] = "waiting" /\ f.kind = "granted" /\ x \in Slot
            /\ at' = [at EXCEPT ![x] = "running"] /\ UNCHANGED <<claimed, up>>
         \/ /\ at[x] = "waiting" /\ f.kind = "accepted" /\ x \in Enqueue
            /\ at' = [at EXCEPT ![x] = "queued"] /\ UNCHANGED <<claimed, up>>
         \/ /\ at[x] = "waiting" /\ f.kind = "refused" /\ x \in Enqueue
            /\ at' = [at EXCEPT ![x] = "refused"] /\ UNCHANGED <<claimed, up>>
         \/ /\ at[x] = "waiting" /\ f.kind = "childEnded" /\ x \in Await
            /\ at' = [at EXCEPT ![x] = "over"] /\ UNCHANGED <<claimed, up>>
  BY <1>2, <1>3, <1>4, HearsWhat
<1>6. x \in Id
  BY <1>5 DEF Mine
<1>7. /\ DownTypes' /\ Head(down[c][conn[c]]) \in DownFrames(c)
      /\ \A d \in Cast, j \in Conn :
            down'[d][j] = IF d = c /\ j = conn[c] THEN Tail(down[d][j]) ELSE down[d][j]
      /\ \A d \in Cast, j \in Conn : \A kind, z :
            Down(d, j, kind, z) <=>
                \/ Down(d, j, kind, z)'
                \/ d = c /\ j = conn[c] /\ Head(down[c][conn[c]]) = Frame(kind, z)
  <2>1. conn[c] \in Conn /\ down[c][conn[c]] # <<>>
    BY <1>2, <1>5
  <2> QED BY <1>1, <1>5, <2>1, HeardDown
<1>8. \A j \in Conn : \A y : Down(c, j, "childEnded", y)' => Down(c, j, "childEnded", y)
  BY <1>7
<1>9. f.kind = "childEnded" => Down(c, k, "childEnded", x)
  BY <1>2, <1>3, <1>5, <1>7
<1>10. \A y \in Id : y # x => at'[y] = at[y]
  BY <1>1, <1>5, <1>6 DEF Types, work
<1>11. \/ /\ up' = up
          /\ \/ at[x] \in Wanted => at'[x] \in Wanted
             \/ x \in Enqueue
             \/ x \in Await /\ k \in Conn /\ Down(c, k, "childEnded", x)
       \/ \E kind \in Endings(x) : Send(c, Frame(kind, x))
  <2>1. x \in Prompt => "resolved" \in Endings(x)
    BY <1>6, KindsOf
  <2>2. CASE f.kind = "answer" /\ x \in Prompt /\ Send(c, Frame("resolved", x))
    BY <2>1, <2>2
  <2>3. CASE UNCHANGED <<at, up>>
    BY <2>3 DEF Wanted
  <2>4. CASE at' = [at EXCEPT ![x] = "running"] /\ up' = up
    BY <1>1, <1>6, <2>4 DEF Types, Wanted
  <2> QED BY <1>5, <1>9, <2>2, <2>3, <2>4 DEF work
<1> QED BY <1>2, <1>5, <1>8, <1>10, <1>11, WorksAccounted

LEMMA ConnectsAccounted ==
    ASSUME LinkAssumption, Base, Base', NEW c \in Cast, Connects(c), Accounted(c)
    PROVE  Accounted(c)'
<1>1. /\ Types /\ Connections(c) /\ conn[c] = None /\ opened[c] \in Nat
      /\ handling[c] \subseteq Conn /\ Conn \subseteq Nat
      /\ UNCHANGED <<conn, up, known, held, waiting>>
      /\ opened' = [opened EXCEPT ![c] = @ + 1]
      /\ connecting' = [connecting EXCEPT ![c] = opened'[c]]
      /\ handling' = [handling EXCEPT ![c] = @ \cup {opened'[c]}]
  BY ConnsAre DEF Base, Connects, Handles, board, pool, Types
<1>2. connecting'[c] = opened[c] + 1 /\ handling[c] \subseteq handling'[c]
  BY <1>1 DEF Types
<1>3. ASSUME NEW j \in handling[c], Met(c, j) PROVE j \in handling'[c] /\ Met(c, j)'
  <2>1. j \in Nat /\ j <= opened[c]
    BY <1>1 DEF Connections
  <2>2. j # connecting'[c]
    BY <1>1, <1>2, <2>1
  <2>3. Unmet(c, j)' <=> Unmet(c, j)
    BY <1>1, UpSame DEF Unmet
  <2> QED BY <1>2, <1>3, <2>2, <2>3 DEF Met
<1> QED BY <1>1, <1>3, LeftAccounted

(* Shut as it was made: the connection never said anything.                *)
LEMMA ShutAccounted ==
    ASSUME LinkAssumption, Base, Base', NEW c \in Cast, Attaches(c), c \in over, Accounted(c)
    PROVE  Accounted(c)'
<1>1. /\ Types /\ Connections(c) /\ conn[c] = None /\ handling[c] \subseteq Conn /\ None \notin Conn
      /\ UNCHANGED <<conn, up, known, held, waiting>>
      /\ connecting' = [connecting EXCEPT ![c] = None]
      /\ handling' = [handling EXCEPT ![c] = @ \ {connecting[c]}]
  BY ConnsAre DEF Base, Attaches, Handled, board, pool, Connections, Types
<1>2. ASSUME NEW j \in handling[c], Met(c, j) PROVE j \in handling'[c] /\ Met(c, j)'
  <2>1. j # connecting[c] /\ connecting'[c] = None /\ j # None
    BY <1>1, <1>2 DEF Met, Types
  <2>2. Unmet(c, j)' <=> Unmet(c, j)
    BY <1>1, UpSame DEF Unmet
  <2> QED BY <1>1, <1>2, <2>1, <2>2 DEF Met, Types
<1> QED BY <1>1, <1>2, LeftAccounted

LEMMA LeavesAccounted ==
    ASSUME LinkAssumption, Base, Base', NEW c \in Cast, Gone(c) \/ Ends(c) \/ Dies(c), Accounted(c)
    PROVE  Accounted(c)'
<1>1. /\ Types /\ handling[c] \subseteq Conn /\ UNCHANGED <<connecting, known, held, waiting, handling>>
      /\ conn' = [conn EXCEPT ![c] = None]
      /\ up' = up \/ Send(c, Frame("goodbye", c))
  BY DEF Base, Types, Gone, Ends, Dies, Detached, board, pool, server
<1>2. PICK f \in UpFrames(c) : f = Frame("goodbye", c)
  BY GreetingFramed
<1>3. f.kind # "hello"
  BY <1>2, Framed
<1>4. /\ UpTypes'
      /\ \A d \in Cast, j \in Conn :
            \/ up'[d][j] = up[d][j]
            \/ d = c /\ j = conn[c] /\ up'[d][j] = Append(up[d][j], f)
      /\ \A d \in Cast, j \in Conn : \A kind, y :
            Up(d, j, kind, y)' => \/ Up(d, j, kind, y)
                                  \/ d = c /\ j = conn[c] /\ f = Frame(kind, y)
      /\ \A d \in Cast, j \in Conn : \A kind, y : Up(d, j, kind, y) => Up(d, j, kind, y)'
      /\ \A j \in Conn :
            /\ Unmet(c, j)' <=> Unmet(c, j)
            /\ j > opened[c] \/ j = connecting[c] => up'[c][j] = <<>>
            /\ \A i \in DOMAIN up'[c][j] : up'[c][j][i].kind = "hello" => i = 1
  BY <1>1, <1>2, <1>3, Wrote
<1>5. \A j \in handling[c] : Met(c, j) => j \in handling'[c] /\ Met(c, j)'
  BY <1>1, <1>4 DEF Met
<1>6. conn'[c] = None
  BY <1>1 DEF Types
<1> QED BY <1>1, <1>5, <1>6, LeftAccounted

(* All that is open is said again, and nothing else.                       *)
LEMMA AttachesAccounted ==
    ASSUME LinkAssumption, Base, Base', NEW c \in Cast, Attaches(c), c \notin over, Accounted(c)
    PROVE  Accounted(c)'
<1>1. /\ Types /\ Connections(c) /\ None \notin Conn /\ handling[c] \subseteq Conn
      /\ connecting[c] \in Conn /\ connecting[c] \in Nat /\ conn[c] = None
      /\ UNCHANGED <<at, held, waiting, known, down, handling>>
      /\ conn' = [conn EXCEPT ![c] = connecting[c]]
      /\ connecting' = [connecting EXCEPT ![c] = None]
      /\ up' = [up EXCEPT ![c][connecting[c]] = Backlog(c)]
  BY ConnsAre DEF Base, Attaches, work, board, pool, Connections, Types
<1>2. PICK k \in Conn : k = connecting[c]
  BY <1>1
<1>3. /\ k \in Nat /\ conn'[c] = k /\ k # None /\ connecting'[c] = None
      /\ \A j \in Conn : up'[c][j] = IF j = k THEN Backlog(c) ELSE up[c][j]
  BY <1>1, <1>2 DEF Types, UpTypes
<1>4. /\ Backlog(c) \in Seq(UpFrames(c))
      /\ \A f : f \in Range(Backlog(c)) <=>
            \/ f = Frame("hello", c)
            \/ \E x \in Open(c, Id \ Enqueue) : f = Frame(Opener(x), x)
      /\ \A i \in DOMAIN Backlog(c) : Backlog(c)[i].kind = "hello" => i = 1
      /\ \A i, j \in DOMAIN Backlog(c) :
            Backlog(c)[i].kind = "awaits" /\ Backlog(c)[i] = Backlog(c)[j] => i = j
  BY BacklogIs
<1>5. Pooled' = Pooled
  BY <1>1 DEF Pooled, Pool!Requests
<1>6. ASSUME NEW x \in Mine(c, known \cup Pooled)'
      PROVE  Owed(c, k, x)'
  <2>1. x \in Mine(c, known \cup Pooled)
    BY <1>1, <1>5 DEF Mine
  <2>2. Owed(c, None, x)
    BY <1>1, <2>1 DEF Accounted, Accounts, None
  <2>3. PICK j \in handling[c] : Met(c, j)
    BY <2>2 DEF Owed
  <2>4. j \in Conn /\ j # k /\ j \in handling'[c]
    BY <1>1, <1>2, <2>3 DEF Met
  <2>5. Met(c, j)'
    <3>1. Unmet(c, j)' <=> Unmet(c, j)
      BY <1>3, <2>4, UpSame DEF Unmet
    <3> QED BY <1>1, <1>3, <2>3, <2>4, <3>1 DEF Met
  <2> QED BY <2>4, <2>5 DEF Owed
<1>7. ASSUME NEW x \in Mine(c, Id \ Enqueue)
      PROVE  Closing(c, k, x)'
  <2>1. x \in Id /\ at' = at /\ Frame(Opener(x), x)' = Frame(Opener(x), x) /\ Wanted' = Wanted
    BY <1>1, SameSaid DEF Mine, Frame
  <2>2. ASSUME NEW i \in DOMAIN Backlog(c), Backlog(c)[i] = Frame(Opener(x), x)
        PROVE  at[x] \in Wanted
    <3>1. Backlog(c)[i] \in Range(Backlog(c))
      BY DEF Range
    <3>2. Frame(Opener(x), x) # Frame("hello", c)
      BY <2>1, OpenerKinds, Framed
    <3>3. PICK y \in Open(c, Id \ Enqueue) : Frame(Opener(x), x) = Frame(Opener(y), y)
      BY <1>4, <2>2, <3>1, <3>2
    <3>4. x = y
      BY <3>3, Framed
    <3> QED BY <3>4 DEF Open, Wanted
  <2>3. up'[c][k] = Backlog(c)
    BY <1>3
  <2>4. \A i \in DOMAIN up'[c][k] : up'[c][k][i] = Frame(Opener(x), x) => at'[x] \in Wanted
    BY <2>1, <2>2, <2>3
  <2> QED BY <2>1, <2>4 DEF Closing
<1>8. ASSUME NEW x \in Mine(c, Await)
      PROVE  AwaitsOnce(c, k, x)' /\ EndedOnce(c, k, x)'
  <2>1. up'[c][k] = Backlog(c) /\ down'[c][k] = <<>>
    BY <1>1, <1>2, <1>3 DEF Connections
  <2>2. AwaitsOnce(c, k, x)'
    <3>1. Frame("awaits", x).kind = "awaits"
      BY Framed
    <3>2. \A i, j \in DOMAIN Backlog(c) :
            Backlog(c)[i] = Frame("awaits", x) /\ Backlog(c)[j] = Frame("awaits", x) => i = j
      BY <1>4, <3>1
    <3> QED BY <2>1, <3>2 DEF AwaitsOnce, Frame
  <2>3. Unmet(c, k)'
    <3>1. Frame("hello", c) \in Range(up'[c][k])
      BY <1>3, <1>4
    <3> QED BY <3>1 DEF Unmet, Up, Frame
  <2>4. ~Down(c, k, "childEnded", x)'
    BY <2>1 DEF Down, Range, Frame
  <2> QED BY <2>2, <2>3, <2>4 DEF EndedOnce
<1>9. Accounts(c, k)'
  <2>1. /\ \A x : x \in Mine(c, Id \ Enqueue)' <=> x \in Mine(c, Id \ Enqueue)
        /\ \A x : x \in Mine(c, Await)' <=> x \in Mine(c, Await)
    BY DEF Mine, Id
  <2> QED BY <1>6, <1>7, <1>8, <2>1 DEF Accounts
<1>10. \A j \in Nat : j = conn'[c] => j = k
  BY <1>3
<1> QED BY <1>9, <1>10 DEF Accounted

LEMMA StopsAccounted ==
    ASSUME LinkAssumption, Base, Stops, NEW c \in Cast
    PROVE  Accounted(c)'
<1>1. handling'[c] = {} /\ known' = {} /\ held' = {} /\ waiting' = {}
  BY DEF Stops
<1>2. \A x : x \notin Mine(c, known \cup Pooled)'
  BY <1>1 DEF Mine, Pooled, Pool!Requests
<1> QED BY <1>1, <1>2 DEF Accounted, Accounts

(* What is read of a cast, but for its hello and its goodbye: one thing is *)
(* held, its end behind it if it has ended, or let go of.                  *)
LEMMA FrameAccounted ==
    ASSUME LinkAssumption, Base, Base', NEW c \in Cast, NEW j \in Conn, Reads(c, j),
           Heeded(c), Accounted(c),
           NEW f, f = Head(up[c][j]), NEW x \in Mine(c, Id), x = f.about,
           f.kind = Opener(x) \/ f.kind \in Endings(x),
           UNCHANGED handling,
           \A y \in known' \cup Pooled' :
                \/ y \in known \cup Pooled /\ (y # x \/ f.kind = Opener(x))
                \/ y = x /\ f.kind = Opener(x),
           \A y \in known' : y \in known \/ (y = x /\ f.kind = Opener(x)),
           \A i \in Conn : \A y : Down(c, i, "childEnded", y)' <=> Down(c, i, "childEnded", y)
    PROVE  Accounted(c)'
<1>1. /\ Types /\ Types' /\ Connections(c) /\ x \in Id /\ None \notin Conn
      /\ handling[c] \subseteq Conn
  BY ConnsAre DEF Base, Mine, Types
<1>2. PICK k \in Nat : conn[c] = k
  BY <1>1 DEF Types
<1>3. /\ j \in handling[c] /\ up[c][j] # <<>> /\ Heard(c, j) /\ UNCHANGED <<work, ends>>
      /\ f = Frame(f.kind, x) /\ Up(c, j, f.kind, x) /\ up'[c][j] = Tail(up[c][j])
  BY ReadsWhat
<1>4. UNCHANGED <<at, conn, connecting>>
  BY <1>3 DEF work, ends
<1>5. /\ \A i \in Conn : i # j => up'[c][i] = up[c][i]
      /\ \A i \in Conn : \A kind, y : Up(c, i, kind, y)' => Up(c, i, kind, y)
      /\ \A i \in Conn : \A kind, y :
            Up(c, i, kind, y) => Up(c, i, kind, y)' \/ (i = j /\ f = Frame(kind, y))
  <2>1. /\ UpTypes' /\ Head(up[c][j]) \in UpFrames(c)
        /\ \A d \in Cast, i \in Conn :
             up'[d][i] = IF d = c /\ i = j THEN Tail(up[d][i]) ELSE up[d][i]
        /\ \A d \in Cast, i \in Conn : \A kind, y :
             Up(d, i, kind, y) <=> \/ Up(d, i, kind, y)'
                                   \/ d = c /\ i = j /\ Head(up[c][j]) = Frame(kind, y)
    BY <1>1, <1>3, HeardUp
  <2> QED BY <2>1
<1>6. \A kind, y : f = Frame(kind, y) => kind = f.kind /\ y = x
  BY <1>3, Framed
<1>7. f.kind # "hello" /\ ~Unmet(c, j)
  <2>1. f.kind # "hello"
    BY <1>1, OpenerKinds
  <2>2. f # Frame("hello", c)
    BY <1>6, <2>1
  <2> QED BY <2>1, <2>2, HelloFirst
<1>8. \A i \in Conn : /\ Unmet(c, i)' <=> Unmet(c, i)
                      /\ Met(c, i) => Met(c, i)'
  <2>1. \A i \in Conn : Unmet(c, i)' <=> Unmet(c, i)
    BY <1>5, <1>6, <1>7 DEF Unmet
  <2> QED BY <1>4, <2>1 DEF Met
<1>9. Met(c, j)
  <2>1. j # connecting[c]
    BY <1>1, <1>3 DEF Connections
  <2> QED BY <1>7, <2>1 DEF Met
<1>10. k \in handling[c] => j = k \/ Unmet(c, k)
  BY <1>2, ReadsInTurn
<1>11. ASSUME NEW y, y # x \/ f.kind = Opener(x), NEW i \in Conn, EndSaid(c, i, y)
       PROVE  EndSaid(c, i, y)'
  <2>1. PICK kind \in Endings(y) : Up(c, i, kind, y)
    BY <1>11 DEF EndSaid
  <2>2. f # Frame(kind, y)
    <3>1. Opener(x) \notin Endings(x)
      BY <1>1, OpenerKinds
    <3> QED BY <1>6, <1>11, <2>1, <3>1
  <2>3. Up(c, i, kind, y)'
    BY <1>5, <2>1, <2>2
  <2> QED BY <2>1, <2>3, SameSaid DEF EndSaid
<1>12. ASSUME NEW y \in Mine(c, known \cup Pooled), y # x \/ f.kind = Opener(x), Owed(c, k, y)
       PROVE  Owed(c, k, y)'
  <2>1. PICK i \in handling[c] : Met(c, i) /\ (at[y] \in Wanted \/ i # k \/ EndSaid(c, i, y))
    BY <1>12 DEF Owed
  <2>2. i \in Conn /\ i \in handling'[c] /\ Met(c, i)'
    BY <1>1, <1>8, <2>1
  <2>3. at'[y] \in Wanted' \/ i # k \/ EndSaid(c, i, y)'
    BY <1>4, <1>11, <1>12, <2>1, <2>2, SameSaid
  <2> QED BY <2>2, <2>3 DEF Owed
<1>13. ASSUME x \in known' \cup Pooled', f.kind = Opener(x)
       PROVE  Owed(c, k, x)'
  <2>1. x \in Id \ Enqueue
    <3>1. x \in Prompt \cup Await \cup Slot
      BY <1>1, <1>13 DEF Types, Pooled, Pool!Requests
    <3> QED BY <1>1, <3>1, KindsOf
  <2>2. j \in handling'[c] /\ Met(c, j)'
    BY <1>3, <1>8, <1>9
  <2>3. CASE j # k \/ at[x] \in Wanted
    <3>1. at'[x] \in Wanted' \/ j # k
      BY <1>4, <2>3, SameSaid
    <3> QED BY <2>2, <3>1 DEF Owed
  <2>4. CASE j = k /\ at[x] \notin Wanted
    <3>1. Closing(c, j, x) /\ up[c][j] \in Seq(UpFrames(c))
      <4>1. Accounts(c, k) /\ k \in handling[c] /\ x \in Mine(c, Id \ Enqueue)
        BY <1>2, <1>3, <2>1, <2>4 DEF Accounted, Mine
      <4> QED BY <1>1, <2>4, <4>1 DEF Accounts, Types, UpTypes
    <3>2. /\ 1 \in DOMAIN up[c][j] /\ up[c][j][1] = f
          /\ \A l \in DOMAIN up[c][j] :
                l = 1 \/ (l - 1 \in DOMAIN up'[c][j] /\ up'[c][j][l - 1] = up[c][j][l])
      <4>1. LET t == Tail(up[c][j]) IN
            /\ t \in Seq(UpFrames(c)) /\ Head(up[c][j]) \in UpFrames(c)
            /\ 1 \in DOMAIN up[c][j] /\ up[c][j][1] = Head(up[c][j])
            /\ \A i \in DOMAIN t :
                i + 1 \in DOMAIN up[c][j] /\ t[i] = up[c][j][i + 1] /\ i \in Nat \ {0}
            /\ \A i \in DOMAIN up[c][j] :
                i = 1 \/ (i - 1 \in DOMAIN t /\ t[i - 1] = up[c][j][i] /\ i > 1 /\ i \in Nat)
            /\ Range(up[c][j]) = {Head(up[c][j])} \cup Range(t)
        BY <1>3, <3>1, Tailed
      <4> QED BY <1>3, <4>1
    <3>3. f = Frame(Opener(x), x)
      BY <1>3, <1>13
    <3>4. PICK l \in DOMAIN up[c][j] : /\ l > 1 /\ up[c][j][l].about = x
                                       /\ up[c][j][l].kind \in Endings(x)
      BY <2>4, <3>1, <3>2, <3>3 DEF Closing
    <3>5. up'[c][j][l - 1] = up[c][j][l] /\ l - 1 \in DOMAIN up'[c][j] /\ up[c][j][l] \in UpFrames(c)
      BY <3>1, <3>2, <3>4, InSeq
    <3>6. PICK g \in UpFrames(c) : g = up[c][j][l]
      BY <3>5
    <3>7. g = Frame(g.kind, x) /\ g \in Range(up'[c][j]) /\ g.kind \in Endings(x)
      BY <3>4, <3>5, <3>6, UpFrameIs DEF Range
    <3>8. PICK kind \in Endings(x) : Frame(kind, x) \in Range(up'[c][j])
      BY <3>7
    <3>9. EndSaid(c, j, x)'
      BY <3>8, SameSaid DEF EndSaid, Up, Frame
    <3> QED BY <2>2, <3>9 DEF Owed
  <2> QED BY <2>3, <2>4
<1>14. \A y \in Mine(c, known' \cup Pooled') :
            (y \in known \cup Pooled => Owed(c, k, y)) => Owed(c, k, y)'
  BY <1>12, <1>13 DEF Mine
<1>15. k \in handling[c] => up'[c][k] = up[c][k] \/ (up[c][k] # <<>> /\ up'[c][k] = Tail(up[c][k]))
  BY <1>1, <1>3, <1>5
<1>16. ASSUME k \in handling[c], NEW y \in Mine(c, Id \ Enqueue), Closing(c, k, y)
       PROVE  Closing(c, k, y)'
  <2>1. k \in Conn /\ y \in Mine(c, Id) /\ (at[y] \in Wanted => at'[y] \in Wanted)
    BY <1>1, <1>4, <1>16 DEF Mine
  <2> QED BY <1>1, <1>15, <1>16, <2>1, ClosingKept
<1>17. ASSUME k \in handling[c], NEW y \in Mine(c, Await), AwaitsOnce(c, k, y)
       PROVE  /\ AwaitsOnce(c, k, y)'
              /\ j = k /\ f = Frame("awaits", y) => ~Up(c, k, "awaits", y)'
  <2>1. k \in Conn
    BY <1>1, <1>17
  <2>2. /\ AwaitsOnce(c, k, y)'
        /\ up[c][k] # <<>> /\ up'[c][k] = Tail(up[c][k]) /\ Head(up[c][k]) = Frame("awaits", y)
             => ~Up(c, k, "awaits", y)'
    BY <1>1, <1>15, <1>17, <2>1, AwaitsKept
  <2> QED BY <1>3, <2>2
<1>18. ASSUME k \in handling[c], NEW y \in Mine(c, Await), AwaitsOnce(c, k, y), EndedOnce(c, k, y)
       PROVE  EndedOnce(c, k, y)'
  <2>1. /\ k \in Conn /\ (Down(c, k, "childEnded", y)' <=> Down(c, k, "childEnded", y))
        /\ Unmet(c, k)' <=> Unmet(c, k)
        /\ Up(c, k, "awaits", y)' => Up(c, k, "awaits", y)
    BY <1>1, <1>5, <1>8, <1>18
  <2>2. CASE j # k
    <3>1. Unmet(c, k) /\ down[c][k] = <<>>
      BY <1>1, <1>10, <1>18, <2>1, <2>2 DEF Connections
    <3>2. ~Down(c, k, "childEnded", y)
      BY <3>1 DEF Down, Range
    <3> QED BY <2>1, <3>1, <3>2 DEF EndedOnce
  <2>3. CASE j = k /\ ~(y = x /\ f.kind = Opener(x))
    <3>1. y \in known' => y \in known
      BY <2>3
    <3> QED BY <1>18, <2>1, <3>1 DEF EndedOnce
  <2>4. CASE j = k /\ y = x /\ f.kind = Opener(x)
    <3>1. Opener(x) = "awaits"
      BY <1>1, <1>18, <2>4, KindsOf DEF Mine
    <3>2. f = Frame("awaits", y) /\ Up(c, k, "awaits", y)
      BY <1>3, <2>4, <3>1
    <3>3. ~Up(c, k, "awaits", y)'
      BY <1>17, <1>18, <2>4, <3>2
    <3>4. ~Down(c, k, "childEnded", y)
      BY <1>18, <3>2 DEF EndedOnce
    <3> QED BY <2>1, <3>3, <3>4 DEF EndedOnce
  <2> QED BY <2>2, <2>3, <2>4
<1>19. conn'[c] = k /\ handling'[c] = handling[c]
  BY <1>2, <1>4
<1> QED BY <1>2, <1>14, <1>16, <1>17, <1>18, <1>19, AccountKept

(* A hello read: nothing of the cast is known any more; what the pool has  *)
(* of it is owed as before.                                                *)
LEMMA HelloAccounted ==
    ASSUME LinkAssumption, Base, Base', NEW c \in Cast, NEW j \in Conn, Reads(c, j),
           ReadsHello(c, j), Head(up[c][j]).kind = "hello", Heeded(c), Accounted(c)
    PROVE  Accounted(c)'
<1>1. /\ Types /\ Connections(c) /\ handling[c] \subseteq Conn
  BY DEF Base, Types
<1>2. PICK k \in Nat : conn[c] = k
  BY <1>1 DEF Types
<1>3. /\ up[c][j] # <<>> /\ Heard(c, j) /\ j \in handling[c] /\ up'[c][j] = Tail(up[c][j])
      /\ UNCHANGED <<at, conn, connecting, down, handling, held, waiting>>
      /\ known' = known \ Mine(c, known)
  <2>1. up'[c][j] = Tail(up[c][j])
    BY ReadsWhat
  <2> QED BY <2>1 DEF Reads, ReadsHello, work, ends, pool
<1>4. Pooled' = Pooled
  BY <1>3 DEF Pooled, Pool!Requests
<1>5. /\ \A i \in Conn : i # j => up'[c][i] = up[c][i]
      /\ \A i \in Conn : \A kind, y : Up(c, i, kind, y)' => Up(c, i, kind, y)
      /\ \A i \in Conn : \A kind, y : kind # "hello" /\ Up(c, i, kind, y) => Up(c, i, kind, y)'
      /\ Unmet(c, j)
  <2>1. /\ UpTypes' /\ Head(up[c][j]) \in UpFrames(c)
        /\ \A d \in Cast, i \in Conn :
             up'[d][i] = IF d = c /\ i = j THEN Tail(up[d][i]) ELSE up[d][i]
        /\ \A d \in Cast, i \in Conn : \A kind, y :
             Up(d, i, kind, y) <=> \/ Up(d, i, kind, y)'
                                   \/ d = c /\ i = j /\ Head(up[c][j]) = Frame(kind, y)
    BY <1>1, <1>3, HeardUp
  <2>2. \A kind, y : Head(up[c][j]) = Frame(kind, y) => kind = "hello"
    BY Framed
  <2>3. Unmet(c, j)
    <3>1. Head(up[c][j]) = Frame("hello", c)
      BY <2>1, UpFrameIs, OpenerKinds
    <3> QED BY <2>1, <3>1 DEF Unmet
  <2> QED BY <2>1, <2>2, <2>3
<1>6. \A i \in Conn : Met(c, i) => Met(c, i)'
  BY <1>3, <1>5 DEF Met, Unmet
<1>7. ASSUME NEW y \in Mine(c, known' \cup Pooled'), Owed(c, k, y)
      PROVE  Owed(c, k, y)'
  <2>1. y \in Id /\ "hello" \notin Endings(y)
    <3>1. y \in Id
      BY <1>1, <1>3, <1>4 DEF Mine, Types, Pooled, Id
    <3> QED BY <3>1, OpenerKinds
  <2>2. PICK i \in handling[c] : Met(c, i) /\ (at[y] \in Wanted \/ i # k \/ EndSaid(c, i, y))
    BY <1>7 DEF Owed
  <2>3. i \in Conn /\ i \in handling'[c] /\ Met(c, i)'
    BY <1>1, <1>3, <1>6, <2>2
  <2>4. EndSaid(c, i, y) => EndSaid(c, i, y)'
    BY <1>5, <2>1, <2>3, SameSaid DEF EndSaid
  <2>5. at'[y] \in Wanted' \/ i # k \/ EndSaid(c, i, y)'
    BY <1>3, <2>2, <2>4, SameSaid
  <2> QED BY <2>3, <2>5 DEF Owed
<1>8. k \in handling[c] => up'[c][k] = up[c][k] \/ (up[c][k] # <<>> /\ up'[c][k] = Tail(up[c][k]))
  BY <1>1, <1>3, <1>5
<1>9. ASSUME k \in handling[c], NEW y \in Mine(c, Id \ Enqueue), Closing(c, k, y)
      PROVE  Closing(c, k, y)'
  <2>1. k \in Conn /\ y \in Mine(c, Id) /\ (at[y] \in Wanted => at'[y] \in Wanted)
    BY <1>1, <1>3, <1>9 DEF Mine
  <2> QED BY <1>1, <1>8, <1>9, <2>1, ClosingKept
<1>10. ASSUME k \in handling[c], NEW y \in Mine(c, Await), AwaitsOnce(c, k, y)
       PROVE  AwaitsOnce(c, k, y)'
  <2>1. k \in Conn
    BY <1>1, <1>10
  <2>2. /\ AwaitsOnce(c, k, y)'
        /\ up[c][k] # <<>> /\ up'[c][k] = Tail(up[c][k]) /\ Head(up[c][k]) = Frame("awaits", y)
             => ~Up(c, k, "awaits", y)'
    BY <1>1, <1>8, <1>10, <2>1, AwaitsKept
  <2> QED BY <2>2
<1>11. ASSUME k \in handling[c], NEW y \in Mine(c, Await)
       PROVE  EndedOnce(c, k, y)'
  <2>1. k \in Conn /\ Unmet(c, k)
    BY <1>1, <1>2, <1>5, <1>11, ReadsInTurn
  <2>2. down'[c][k] = <<>>
    BY <1>1, <1>3, <2>1 DEF Connections
  <2>3. ~Down(c, k, "childEnded", y)' /\ y \notin known'
    BY <1>3, <2>2 DEF Down, Range, Mine
  <2> QED BY <2>3 DEF EndedOnce
<1>12. \A y \in Mine(c, known' \cup Pooled') :
            (y \in known \cup Pooled => Owed(c, k, y)) => Owed(c, k, y)'
  BY <1>3, <1>4, <1>7 DEF Mine
<1>13. conn'[c] = k /\ handling'[c] = handling[c]
  BY <1>2, <1>3
<1> QED BY <1>2, <1>9, <1>10, <1>11, <1>12, <1>13, AccountKept

(* A cast the daemon takes to be gone: nothing is held for it.             *)
LEMMA LetGoAccounted ==
    ASSUME LinkAssumption, Base, NEW c \in Cast, NEW j \in Conn,
           NEW as \in {"ended", "disconnected"},
           Goodbye(c, as), Handled(c, j), CloseCast(c, j), Quiets(c, j),
           UNCHANGED <<at, conn, connecting>>, Accounted(c)
    PROVE  Accounted(c)'
<1>1. /\ Types /\ handling[c] \subseteq Conn /\ None \notin Conn /\ peer[c] \in Conn \cup {None}
  BY ConnsAre DEF Base, Types
<1>2. PICK k \in Nat : conn[c] = k
  BY <1>1 DEF Types
<1>3. /\ TellGrants
      /\ handling' \in [Cast -> SUBSET Conn] /\ handling'[c] = handling[c] \ {j}
      /\ peer' \in [Cast -> Nat] /\ peer'[c] = IF peer[c] = j THEN None ELSE peer[c]
      /\ status' \in [Cast -> {"none", "running", "disconnected", "ended"}]
      /\ status'[c] # "running"
      /\ \A d \in Cast \ {c} : /\ handling'[d] = handling[d] /\ peer'[d] = peer[d]
                               /\ status'[d] = status[d]
      /\ peer'[c] \in handling'[c] \cup {None}
      /\ known' = known \ Mine(c, Id) /\ claims' = claims \ Mine(c, Id)
      /\ held \ Mine(c, Slot) \subseteq held' /\ Pooled' = Pooled \ Mine(c, Slot)
      /\ held' \subseteq Slot /\ Pool!Requests(waiting') \subseteq Slot
  BY GoodbyeTakes
<1>4. /\ UpTypes'
      /\ \A d \in Cast, i \in Conn : d # c \/ i # j => up'[d][i] = up[d][i]
      /\ \A i \in Conn : \A kind, x : Up(c, i, kind, x)' => Up(c, i, kind, x)
      /\ \A i \in Conn : up[c][i] = <<>> => up'[c][i] = <<>>
      /\ \A i \in Conn : \A n \in DOMAIN up'[c][i] : up'[c][i][n].kind = "hello" => n = 1
      /\ up'[c][j] = up[c][j] \/ ~Unmet(c, j)'
  BY Quieted
<1>5. \A y : y \notin Mine(c, known' \cup Pooled')
  BY <1>1, <1>3 DEF Mine, Types, Pooled, Id
<1>6. /\ DownTypes'
      /\ \A d \in Cast, i \in Conn :
           \/ down'[d][i] = down[d][i]
           \/ /\ i = peer[d] /\ d \notin over
              /\ ToldGrants(d, i)
      /\ \A d \in Cast, i \in Conn : \A kind, z :
           Down(d, i, kind, z)' <=>
               \/ Down(d, i, kind, z)
               \/ i = peer[d] /\ d \notin over /\ kind = "granted" /\ z \in Mine(d, held' \ held)
  BY <1>1, <1>3, GrantsTold
<1>7. ASSUME k \in handling'[c]
      PROVE  /\ k \in handling[c] /\ k \in Conn /\ up'[c][k] = up[c][k]
             /\ Unmet(c, k)' <=> Unmet(c, k)
             /\ \A y : Up(c, k, "awaits", y)' <=> Up(c, k, "awaits", y)
             /\ \A y : Down(c, k, "childEnded", y)' <=> Down(c, k, "childEnded", y)
  <2>1. k \in handling[c] /\ k \in Conn /\ up'[c][k] = up[c][k]
    BY <1>1, <1>3, <1>4, <1>7
  <2> QED BY <1>6, <2>1, UpSame DEF Unmet
<1>8. ASSUME k \in handling'[c], NEW y \in Mine(c, Id \ Enqueue), Closing(c, k, y)
      PROVE  Closing(c, k, y)'
  <2>1. y \in Mine(c, Id) /\ (at[y] \in Wanted => at'[y] \in Wanted)
    BY DEF Mine
  <2> QED BY <1>1, <1>7, <1>8, <2>1, ClosingKept
<1>9. ASSUME k \in handling'[c], NEW y, AwaitsOnce(c, k, y)
      PROVE  AwaitsOnce(c, k, y)'
  <2>1. AwaitsOnce(c, k, y)'
    BY <1>1, <1>7, <1>9, AwaitsKept
  <2> QED BY <2>1
<1>10. ASSUME k \in handling'[c], NEW y, EndedOnce(c, k, y)
       PROVE  EndedOnce(c, k, y)'
  <2>1. y \in known' => y \in known
    BY <1>3
  <2> QED BY <1>7, <1>10, <2>1 DEF EndedOnce
<1>11. conn'[c] = k
  BY <1>2
<1> QED BY <1>2, <1>5, <1>7, <1>8, <1>9, <1>10, <1>11, AccountKept

LEMMA ReadsAccounted ==
    ASSUME LinkAssumption, Base, Base', NEW c \in Cast, NEW j \in Conn, Reads(c, j),
           Heeded(c), Accounted(c)
    PROVE  Accounted(c)'
<1>1. Types /\ Types' /\ Connections(c)
  BY DEF Base
<1>2. PICK f : f = Head(up[c][j])
  OBVIOUS
<1>3. PICK x : x = f.about
  OBVIOUS
<1>4. /\ UNCHANGED <<work, ends>> /\ up[c][j] # <<>> /\ Heard(c, j)
      /\ \/ f.kind = "hello" /\ x = c /\ ReadsHello(c, j)
         \/ f.kind = "goodbye" /\ x = c /\ ReadsGoodbye(c, j)
         \/ /\ x \in Mine(c, Prompt \cup Await)
            /\ f.kind = Opener(x) \/ f.kind \in Endings(x)
            /\ IF f.kind = Opener(x)
               THEN known' = known \cup {x} /\ UNCHANGED claims
               ELSE known' = known \ {x} /\ claims' = claims \ {x}
            /\ UNCHANGED <<down, server, status, pool, faults>>
         \/ /\ x \in Mine(c, Slot)
            /\ f.kind = Opener(x) \/ f.kind \in Endings(x)
            /\ IF f.kind = Opener(x) THEN Pool!Requested(x) ELSE Pool!Released(x)
            /\ TellGrants /\ UNCHANGED <<server, board, faults>>
         \/ /\ x \in Mine(c, Enqueue) /\ f.kind = "enqueue"
            /\ ReadsEnqueue(c, j, x)
  BY <1>2, <1>3, ReadsWhat
<1>5. CASE f.kind = "hello" /\ ReadsHello(c, j)
  BY <1>2, <1>5, HelloAccounted
<1>6. CASE f.kind = "goodbye" /\ ReadsGoodbye(c, j)
  <2>1. Goodbye(c, "ended") /\ Handled(c, j) /\ CloseCast(c, j)
    BY <1>6 DEF ReadsGoodbye
  <2>2. Quiets(c, j) /\ UNCHANGED <<at, conn, connecting>>
    BY <1>4 DEF Quiets, work, ends
  <2> QED BY <2>1, <2>2, LetGoAccounted
<1>7. CASE /\ x \in Mine(c, Prompt \cup Await)
           /\ f.kind = Opener(x) \/ f.kind \in Endings(x)
           /\ IF f.kind = Opener(x)
              THEN known' = known \cup {x} /\ UNCHANGED claims
              ELSE known' = known \ {x} /\ claims' = claims \ {x}
           /\ UNCHANGED <<down, server, status, pool, faults>>
  <2>1. /\ x \in Mine(c, Id) /\ x \in Id /\ x \in Prompt \cup Await
        /\ UNCHANGED <<handling, down, held, waiting>> /\ Pooled' = Pooled
    BY <1>7 DEF Mine, Id, server, pool, Pooled, Pool!Requests
  <2>2. x \notin Pooled
    BY <1>1, <2>1, KindsOf DEF Types, Pooled
  <2>3. \A y \in known' \cup Pooled' :
            \/ y \in known \cup Pooled /\ (y # x \/ f.kind = Opener(x))
            \/ y = x /\ f.kind = Opener(x)
    BY <1>7, <2>1, <2>2
  <2>4. \A y \in known' : y \in known \/ (y = x /\ f.kind = Opener(x))
    BY <1>7
  <2>5. \A i \in Conn : \A y : Down(c, i, "childEnded", y)' <=> Down(c, i, "childEnded", y)
    BY <2>1, DownSame
  <2>6. f.kind = Opener(x) \/ f.kind \in Endings(x)
    BY <1>7
  <2> QED BY <1>2, <1>3, <2>1, <2>3, <2>4, <2>5, <2>6, FrameAccounted
<1>8. CASE /\ x \in Mine(c, Slot)
           /\ f.kind = Opener(x) \/ f.kind \in Endings(x)
           /\ IF f.kind = Opener(x) THEN Pool!Requested(x) ELSE Pool!Released(x)
           /\ TellGrants /\ UNCHANGED <<server, board, faults>>
  <2>1. /\ x \in Mine(c, Id) /\ x \in Slot /\ x \in Id
        /\ UNCHANGED <<handling, known>>
    BY <1>8 DEF Mine, Id, server, board
  <2>2. x \notin known /\ held' \subseteq Slot
    BY <1>1, <2>1, KindsOf DEF Types
  <2>3. \/ f.kind = Opener(x) /\ Pooled' = Pooled \cup {x}
        \/ f.kind # Opener(x) /\ Pooled' = Pooled \ {x}
    BY <1>1, <1>8, <2>1, PoolMoves
  <2>4. \A y \in known' \cup Pooled' :
            \/ y \in known \cup Pooled /\ (y # x \/ f.kind = Opener(x))
            \/ y = x /\ f.kind = Opener(x)
    BY <2>1, <2>2, <2>3
  <2>5. \A y \in known' : y \in known \/ (y = x /\ f.kind = Opener(x))
    BY <2>1
  <2>6. /\ DownTypes'
        /\ \A d \in Cast, i \in Conn :
             \/ down'[d][i] = down[d][i]
             \/ /\ i = peer[d] /\ d \notin over
                /\ ToldGrants(d, i)
        /\ \A d \in Cast, i \in Conn : \A kind, z :
             Down(d, i, kind, z)' <=>
                 \/ Down(d, i, kind, z)
                 \/ i = peer[d] /\ d \notin over /\ kind = "granted" /\ z \in Mine(d, held' \ held)
    BY <1>1, <1>8, <2>2, GrantsTold
  <2>7. \A i \in Conn : \A y : Down(c, i, "childEnded", y)' <=> Down(c, i, "childEnded", y)
    BY <2>6
  <2>8. f.kind = Opener(x) \/ f.kind \in Endings(x)
    BY <1>8
  <2> QED BY <1>2, <1>3, <2>1, <2>4, <2>5, <2>7, <2>8, FrameAccounted
<1>9. CASE x \in Mine(c, Enqueue) /\ f.kind = "enqueue" /\ ReadsEnqueue(c, j, x)
  <2>1. /\ x \in Mine(c, Id) /\ x \in Enqueue /\ x \in Id
        /\ UNCHANGED <<handling, known, down, held, waiting>> /\ Pooled' = Pooled
    BY <1>9 DEF Mine, Id, ReadsEnqueue, board, pool, Pooled, Pool!Requests
  <2>2. f.kind = Opener(x)
    BY <1>9, <2>1, KindsOf
  <2>3. \A y \in known' \cup Pooled' :
            \/ y \in known \cup Pooled /\ (y # x \/ f.kind = Opener(x))
            \/ y = x /\ f.kind = Opener(x)
    BY <2>1, <2>2
  <2>4. \A y \in known' : y \in known \/ (y = x /\ f.kind = Opener(x))
    BY <2>1
  <2>5. \A i \in Conn : \A y : Down(c, i, "childEnded", y)' <=> Down(c, i, "childEnded", y)
    BY <2>1, DownSame
  <2> QED BY <1>2, <1>3, <2>1, <2>2, <2>3, <2>4, <2>5, FrameAccounted
<1> QED BY <1>4, <1>5, <1>6, <1>7, <1>8, <1>9

LEMMA LosesAccounted ==
    ASSUME LinkAssumption, Base, NEW c \in Cast, NEW j \in Conn, LosesConnection(c, j), Accounted(c)
    PROVE  Accounted(c)'
<1>1. /\ Goodbye(c, "disconnected") /\ Handled(c, j) /\ CloseCast(c, j) /\ Quiets(c, j)
      /\ UNCHANGED <<at, conn, connecting>>
  BY DEF LosesConnection, Quiets, work, ends
<1> QED BY <1>1, LetGoAccounted

(* A cast told of one thing: of a child's end, on a connection met, and    *)
(* the await is not held any more, nor said again there.                   *)
LEMMA TellsAccounted ==
    ASSUME LinkAssumption, Base, NEW c \in Cast, NEW x \in Mine(c, Id), Accounted(c),
           UNCHANGED <<work, ends, up, handling, held, waiting>>,
           NEW kind \in Tellings(x), Tell(c, peer[c], Frame(kind, x)),
           \A y : y \in known' => y \in known,
           kind = "childEnded" => x \in known /\ x \notin known'
    PROVE  Accounted(c)'
<1>1. /\ Types /\ Connections(c) /\ None \notin Conn /\ handling[c] \subseteq Conn
      /\ peer[c] \in Conn \cup {None} /\ UNCHANGED <<at, conn, connecting>>
  BY ConnsAre DEF Base, Types, work, ends
<1>2. PICK k \in Nat : conn[c] = k
  BY <1>1 DEF Types
<1>3. /\ Pooled' = Pooled
      /\ \A j, l, y : Up(c, j, l, y)' <=> Up(c, j, l, y)
  BY UpSame DEF Pooled, Pool!Requests
<1>4. /\ \A j : Unmet(c, j)' <=> Unmet(c, j)
      /\ \A j : Met(c, j)' <=> Met(c, j)
      /\ \A j, y : EndSaid(c, j, y)' <=> EndSaid(c, j, y)
  BY <1>1, <1>3, SameSaid DEF Met, Unmet, EndSaid
<1>5. ASSUME NEW y, Owed(c, k, y) PROVE Owed(c, k, y)'
  BY <1>1, <1>4, <1>5, SameSaid DEF Owed
<1>6. PICK f \in DownFrames(c) : f = Frame(kind, x)
  BY DownFramed
<1>7. \A j \in Conn : \A y : Down(c, j, "childEnded", y)' =>
            \/ Down(c, j, "childEnded", y)
            \/ j = peer[c] /\ kind = "childEnded" /\ y = x
  <2>1. /\ DownTypes'
        /\ \A d \in Cast, j \in Conn :
             down'[d][j] = IF d = c /\ j = peer[c] /\ c \notin over
                           THEN Append(down[d][j], f) ELSE down[d][j]
        /\ \A d \in Cast, j \in Conn : \A l, z :
             Down(d, j, l, z)' <=>
                 \/ Down(d, j, l, z)
                 \/ d = c /\ j = peer[c] /\ c \notin over /\ f = Frame(l, z)
    BY <1>1, <1>6, Told
  <2>2. \A l, z : f = Frame(l, z) <=> kind = l /\ x = z
    BY <1>6, Framed
  <2> QED BY <2>1, <2>2
<1>8. ASSUME k \in handling[c], NEW y \in Mine(c, Id \ Enqueue), Closing(c, k, y)
      PROVE  Closing(c, k, y)'
  <2>1. k \in Conn /\ y \in Mine(c, Id) /\ (at[y] \in Wanted => at'[y] \in Wanted)
    BY <1>1, <1>8 DEF Mine
  <2> QED BY <1>1, <1>8, <2>1, ClosingKept
<1>9. ASSUME k \in handling[c], NEW y, AwaitsOnce(c, k, y)
      PROVE  AwaitsOnce(c, k, y)'
  <2>1. k \in Conn /\ up'[c][k] = up[c][k]
    BY <1>1, <1>9
  <2>2. /\ AwaitsOnce(c, k, y)'
        /\ up[c][k] # <<>> /\ up'[c][k] = Tail(up[c][k]) /\ Head(up[c][k]) = Frame("awaits", y)
             => ~Up(c, k, "awaits", y)'
    BY <1>1, <1>9, <2>1, AwaitsKept
  <2> QED BY <2>2
<1>10. ASSUME k \in handling[c], NEW y, EndedOnce(c, k, y)
       PROVE  EndedOnce(c, k, y)'
  <2>1. k \in Conn /\ (peer[c] = k => ~Unmet(c, k))
    BY <1>1, <1>10 DEF Connections
  <2>2. CASE Down(c, k, "childEnded", y) \/ ~Down(c, k, "childEnded", y)'
    BY <1>3, <1>4, <1>10, <2>2 DEF EndedOnce
  <2>3. CASE k = peer[c] /\ kind = "childEnded" /\ y = x
    BY <1>3, <1>10, <2>1, <2>3 DEF EndedOnce
  <2> QED BY <1>7, <2>1, <2>2, <2>3
<1>11. \A y \in Mine(c, known' \cup Pooled') :
            (y \in known \cup Pooled => Owed(c, k, y)) => Owed(c, k, y)'
  BY <1>3, <1>5 DEF Mine
<1>12. conn'[c] = k /\ handling'[c] = handling[c]
  BY <1>1, <1>2
<1> QED BY <1>2, <1>8, <1>9, <1>10, <1>11, <1>12, AccountKept

LEMMA SettlesAccounted ==
    ASSUME LinkAssumption, Base, NEW e \in Enqueue, Settles(e), Accounted(Of[e])
    PROVE  Accounted(Of[e])'
<1>1. /\ Of[e] \in Cast /\ e \in Mine(Of[e], Id) /\ Tellings(e) = {"accepted", "refused"}
  BY KindsOf DEF Id, Mine
<1>2. PICK c \in Cast : c = Of[e]
  BY <1>1
<1>3. /\ known' = known /\ UNCHANGED <<work, ends, up, handling, held, waiting>>
  BY DEF Settles, board, pool
<1>4. PICK kind \in {"accepted", "refused"} : Tell(c, peer[c], Frame(kind, e))
  BY <1>2 DEF Settles
<1>5. Accounted(c)
  BY <1>2
<1>6. Accounted(c)'
  BY <1>1, <1>2, <1>3, <1>4, <1>5, TellsAccounted
<1> QED BY <1>2, <1>6

LEMMA AnswersAccounted ==
    ASSUME LinkAssumption, Base, NEW x \in Id, Answers(x), Accounted(Of[x])
    PROVE  Accounted(Of[x])'
<1>1. /\ Of[x] \in Cast /\ x \in Mine(Of[x], Id) /\ Types
  BY KindsOf DEF Base, Mine
<1>2. PICK c \in Cast : c = Of[x]
  BY <1>1
<1>3. x \in known /\ UNCHANGED <<work, ends, up, handling, held, waiting>>
  BY DEF Answers, server, pool
<1>4. \/ /\ x \in Prompt /\ known' = known
         /\ \E kind \in {"claimed", "answer"} : Tell(c, peer[c], Frame(kind, x))
      \/ x \in claims /\ known' = known /\ Tell(c, peer[c], Frame("unclaimed", x))
      \/ x \in Await /\ known' = known \ {x} /\ Tell(c, peer[c], Frame("childEnded", x))
  BY <1>2 DEF Answers
<1>5. /\ x \in Prompt => Tellings(x) = {"answer", "claimed", "unclaimed"}
      /\ x \in Await => Tellings(x) = {"childEnded"}
      /\ claims \subseteq Prompt
  BY <1>1, KindsOf DEF Types
<1>6. PICK kind \in Tellings(x) :
        /\ Tell(c, peer[c], Frame(kind, x))
        /\ \A y : y \in known' => y \in known
        /\ kind = "childEnded" => x \notin known'
  <2>1. CASE /\ x \in Prompt /\ known' = known
             /\ \E kind \in {"claimed", "answer"} : Tell(c, peer[c], Frame(kind, x))
    BY <1>5, <2>1
  <2>2. CASE x \in claims /\ known' = known /\ Tell(c, peer[c], Frame("unclaimed", x))
    <3>1. "unclaimed" \in Tellings(x)
      BY <1>5, <2>2
    <3> QED BY <2>2, <3>1
  <2>3. CASE x \in Await /\ known' = known \ {x} /\ Tell(c, peer[c], Frame("childEnded", x))
    <3>1. "childEnded" \in Tellings(x)
      BY <1>5, <2>3
    <3> QED BY <2>3, <3>1
  <2> QED BY <1>4, <2>1, <2>2, <2>3
<1>7. Accounted(c) /\ x \in Mine(c, Id)
  BY <1>1, <1>2
<1>8. Accounted(c)'
  BY <1>3, <1>6, <1>7, TellsAccounted
<1> QED BY <1>2, <1>8

LEMMA SameAccounted ==
    ASSUME LinkAssumption, Base, NEW c \in Cast, Accounted(c),
           UNCHANGED <<work, ends, up, down, handling, board, pool>>
    PROVE  Accounted(c)'
<1>1. UNCHANGED <<at, conn, connecting, up, down, handling, known, held, waiting>>
  BY DEF work, ends, board, pool
<1>2. PICK k \in Nat : conn[c] = k
  BY DEF Base, Types
<1>3. /\ Pooled' = Pooled
      /\ \A j, kind, x : Up(c, j, kind, x)' <=> Up(c, j, kind, x)
      /\ \A j, kind, x : Down(c, j, kind, x)' <=> Down(c, j, kind, x)
  BY <1>1, UpSame, DownSame DEF Pooled, Pool!Requests
<1>4. /\ \A j : Met(c, j)' <=> Met(c, j)
      /\ \A j : Unmet(c, j)' <=> Unmet(c, j)
      /\ \A j, x : EndSaid(c, j, x)' <=> EndSaid(c, j, x)
  BY <1>1, <1>3, SameSaid DEF Met, Unmet, EndSaid
<1>5. \A x : Owed(c, k, x) => Owed(c, k, x)'
  BY <1>1, <1>4, SameSaid DEF Owed
<1>6. \A x : Closing(c, k, x) => Closing(c, k, x)'
  BY <1>1, SameSaid DEF Closing, Frame
<1>7. \A x : AwaitsOnce(c, k, x) => AwaitsOnce(c, k, x)'
  BY <1>1 DEF AwaitsOnce, Frame
<1>8. \A x : EndedOnce(c, k, x) => EndedOnce(c, k, x)'
  BY <1>1, <1>3, <1>4 DEF EndedOnce
<1>9. \A x \in Mine(c, known' \cup Pooled') :
            (x \in known \cup Pooled => Owed(c, k, x)) => Owed(c, k, x)'
  BY <1>1, <1>3, <1>5 DEF Mine
<1> QED BY <1>1, <1>2, <1>6, <1>7, <1>8, <1>9, AccountKept

LEMMA InitAccounted == ASSUME LinkAssumption, Init, NEW c \in Cast PROVE Accounted(c)
<1>1. handling[c] = {} /\ known = {} /\ held = {} /\ waiting = {}
  BY DEF Init, Pool!Init
<1>2. \A x : x \notin Mine(c, known \cup Pooled)
  BY <1>1 DEF Mine, Pooled, Pool!Requests
<1> QED BY <1>1, <1>2 DEF Accounted, Accounts

LEMMA NextAccounted ==
    ASSUME LinkAssumption, Base, Base', \A c \in Cast : Heeded(c), \A c \in Cast : Accounted(c),
           [Next]_vars
    PROVE  \A c \in Cast : Accounted(c)'
<1>1. ASSUME NEW c \in Cast, Connects(c) \/ Attaches(c) \/ Hears(c) \/ Gone(c) \/ Ends(c) \/ Dies(c)
      PROVE  \A d \in Cast : Accounted(d)'
  <2>1. \A d \in Cast \ {c} : Aside(d)
    BY <1>1, ConnectsBase, AttachesBase, HearsBase, GoneBase, EndsBase
  <2>2. Accounted(c)'
    BY <1>1, ConnectsAccounted, AttachesAccounted, ShutAccounted, HearsAccounted, LeavesAccounted
  <2> QED BY <2>1, <2>2, AsideAccounted
<1>2. ASSUME NEW x \in Id, Begins(x) \/ Closes(x) \/ Answers(x)
      PROVE  \A d \in Cast : Accounted(d)'
  <2>1. Of[x] \in Cast /\ \A d \in Cast \ {Of[x]} : Aside(d)
    BY <1>2, BeginsBase, ClosesBase, AnswersBase, KindsOf
  <2>2. Accounted(Of[x])
    BY <2>1
  <2>3. Accounted(Of[x])'
    BY <1>2, <2>2, BeginsAccounted, ClosesAccounted, AnswersAccounted
  <2>4. \A d \in Cast \ {Of[x]} : Accounted(d)'
    BY <2>1, AsideAccounted
  <2>5. PICK c \in Cast : c = Of[x]
    BY <2>1
  <2>6. Accounted(c)'
    BY <2>3, <2>5
  <2> QED BY <2>4, <2>5, <2>6
<1>3. ASSUME NEW c \in Cast, NEW k \in Conn, Reads(c, k) \/ LosesConnection(c, k)
      PROVE  \A d \in Cast : Accounted(d)'
  <2>1. \A d \in Cast \ {c} : Aside(d)
    BY <1>3, ReadsBase, LosesBase
  <2>2. Accounted(c)'
    BY <1>3, ReadsAccounted, LosesAccounted
  <2> QED BY <2>1, <2>2, AsideAccounted
<1>4. ASSUME NEW e \in Enqueue, Settles(e)
      PROVE  \A d \in Cast : Accounted(d)'
  <2>1. Of[e] \in Cast /\ \A d \in Cast \ {Of[e]} : Aside(d)
    BY <1>4, SettlesBase, KindsOf DEF Id
  <2>2. PICK c \in Cast : c = Of[e]
    BY <2>1
  <2>3. Accounted(Of[e])
    BY <2>1
  <2>4. Accounted(Of[e])'
    BY <1>4, <2>3, SettlesAccounted
  <2>5. Accounted(c)'
    BY <2>2, <2>4
  <2> QED BY <2>1, <2>2, <2>5, AsideAccounted
<1>5. CASE Stops
  BY <1>5, StopsAccounted
<1>6. CASE Serves \/ UNCHANGED vars
  BY <1>6, SameAccounted DEF Serves, vars, work, ends, board, pool
<1> QED BY <1>1, <1>2, <1>3, <1>4, <1>5, <1>6 DEF Next

LEMMA AccountedEnds ==
    ASSUME LinkAssumption, Base, \A c \in Cast : Accounted(c)
    PROVE  NothingLeaked
<1> SUFFICES ASSUME NEW x \in known \cup held \cup Pool!Requests(waiting), at[x] \notin Wanted
             PROVE  \E j \in handling[Of[x]] :
                        \/ j # conn[Of[x]]
                        \/ \E frame \in Range(up[Of[x]][j]) :
                            \/ frame.kind \in {"hello", "goodbye"}
                            \/ frame.about = x /\ frame.kind \notin {"asked", "slot", "awaits"}
  BY DEF NothingLeaked, Wanted
<1>1. x \in Id /\ x \in known \cup Pooled /\ Types
  BY DEF Base, Types, Pooled, Id
<1>2. PICK c \in Cast : c = Of[x]
  BY <1>1, KindsOf
<1>3. PICK k \in Nat : k = conn[c]
  BY <1>1 DEF Types
<1>4. Owed(c, k, x)
  BY <1>1, <1>2, <1>3 DEF Accounted, Accounts, Mine
<1>5. PICK j \in handling[c] : j # k \/ EndSaid(c, j, x)
  BY <1>4 DEF Owed
<1>6. EndSaid(c, j, x) => \E frame \in Range(up[c][j]) :
            frame.about = x /\ frame.kind \notin {"asked", "slot", "awaits"}
  <2> SUFFICES ASSUME EndSaid(c, j, x)
               PROVE  \E frame \in Range(up[c][j]) :
                        frame.about = x /\ frame.kind \notin {"asked", "slot", "awaits"}
    OBVIOUS
  <2>1. PICK kind \in Endings(x) : Up(c, j, kind, x)
    BY DEF EndSaid
  <2>2. kind \notin {"asked", "slot", "awaits"}
    BY <1>1, OpenerKinds
  <2>3. Frame(kind, x).about = x /\ Frame(kind, x).kind = kind
    BY Framed
  <2> QED BY <2>1, <2>2, <2>3 DEF Up
<1> QED BY <1>2, <1>3, <1>5, <1>6

(* What the daemon holds of a cast is the cast's still, or the word that   *)
(* lets go of it is under way: a claim on the pool, a prompt, an await,    *)
(* outlives neither the cast nor the connection it came by, whichever end  *)
(* was lost first and whatever was unread.                                 *)
THEOREM NothingLeakedCorrect == Spec => []NothingLeaked
<1> DEFINE I == Base /\ \A c \in Cast : Heeded(c) /\ Accounted(c)
<1>1. Init => I
  BY LinkAssumption, InitBase, InitHeeded, InitAccounted
<1>2. I /\ [Next]_vars => I'
  <2> SUFFICES ASSUME I, [Next]_vars PROVE I'
    OBVIOUS
  <2>1. Base'
    BY LinkAssumption, NextBase
  <2>2. \A c \in Cast : Heeded(c)'
    BY LinkAssumption, <2>1, NextHeeded
  <2>3. \A c \in Cast : Accounted(c)'
    BY LinkAssumption, <2>1, NextAccounted
  <2> QED BY <2>1, <2>2, <2>3
<1>3. I => NothingLeaked
  BY LinkAssumption, AccountedEnds
<1> QED BY <1>1, <1>2, <1>3, PTL DEF Spec
=============================================================================
