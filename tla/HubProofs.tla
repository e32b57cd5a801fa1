------------------------------ MODULE HubProofs ------------------------------
(***************************************************************************)
(* Proofs about Hub: for any casts, prompts and windows, however late a    *)
(* connection is seen to be gone.                                          *)
(***************************************************************************)
EXTENDS Hub, SequenceTheorems, FunctionTheorems, FiniteSetTheorems,
        WellFoundedInduction, TLAPS

Holder == Window \cup {Nobody}

(* A prompt is waited on once.                                             *)
Apart(waiting) ==
    \A i, j \in DOMAIN waiting : waiting[i].prompt = waiting[j].prompt => i = j

IsWaiting(waiting) == waiting \in Seq(PromptView) /\ Apart(waiting)

IsView(view) ==
    /\ DOMAIN view = DOMAIN Fresh
    /\ view.status \in Status
    /\ IsWaiting(view.waiting)

(* Views that show each cast prompts of its own, once asked.               *)
IsViews(vs, known) ==
    /\ DOMAIN vs = Cast
    /\ \A c \in Cast : vs[c] # NoView =>
        IsView(vs[c]) /\ \A p \in Prompts(vs[c]) : Of[p] = c /\ p \in known

Shows(waiting, p, w) == \E i \in DOMAIN waiting : waiting[i] = [prompt |-> p, claim |-> w]

ShowsIn(vs, p, w) == vs[Of[p]] # NoView /\ Shows(vs[Of[p]].waiting, p, w)

(* Each prompt waited on is shown with its holder; no other has one.       *)
Match(vs, held) ==
    \A p \in Prompt : \/ ShowsIn(vs, p, held[p])
                      \/ held[p] = Nobody /\ \A w \in Holder : ~ShowsIn(vs, p, w)

WindowTypes ==
    /\ window \in [Window -> {"unopened", "up", "dead", "shut"}]
    /\ dialog \in [Window -> Prompt \cup {Nobody}]
    /\ DOMAIN outbox = Window
    /\ \A w \in Window :
        /\ outbox[w] \in Seq([kind : {"answer", "claim", "release"}, prompt : Prompt])
        /\ outbox[w] # <<>> => window[w] \in {"up", "dead"}

CastTypes ==
    /\ DOMAIN peer = Cast /\ DOMAIN saying = Cast /\ DOMAIN stale = Cast
    /\ open \subseteq asked \cap Prompt /\ told \subseteq open
    /\ awaiting \subseteq Await

(* What a connection opens with.                                           *)
Opening(c) ==
    {Hello(c, "running"), Plain("begin", c), Plain("end", c)}
    \cup {Message(kind, c, r, Nobody) : kind \in {"started", "finished"}, r \in Rite}
    \cup {Message("asked", c, p, Nobody) : p \in {q \in Prompt : Of[q] = c}}
    \cup {Message("awaits", c, k, Nobody) : k \in Await}

Waited(vs, c) == IF vs[c] = NoView THEN {} ELSE Prompts(vs[c])

(* It is said in order, each prompt once, to a view that has no prompt of  *)
(* what is yet to be said.                                                 *)
OpensInOrder(c) ==
    LET s == saying[c]
    IN  /\ s \in Seq(Opening(c))
        /\ s # <<>> => c \in link /\ (s[1].kind = "hello" \/ peer[c] = "live")
        /\ \A i \in DOMAIN s :
            /\ s[i].kind = "hello" => i = 1 /\ peer[c] # "live"
            /\ s[i].kind = "begin" => \/ i = 2 /\ s[1].kind = "hello"
                                      \/ i = 1 /\ Waited(views, c) = {}
            /\ s[i].kind = "asked" =>
                /\ s[i].what \in asked
                /\ \/ s[1].kind \in {"hello", "begin"}
                   \/ s[i].what \notin Waited(views, c)
                /\ \A j \in DOMAIN s : s[i] = s[j] => i = j

(* Only a cast on its connection is told.                                  *)
ToldLive == \A p \in told : peer[Of[p]] = "live"
LiveLinked == \A c \in Cast : peer[c] = "live" => c \in link

HeldOpen == \A p \in Prompt : claims[p] # Nobody => window[claims[p]] # "shut"

HubSide ==
    /\ claims \in [Prompt -> Holder] /\ surfaces \subseteq Window
    /\ IsViews(views, asked)
    /\ Match(views, claims) /\ HeldOpen
    /\ ClaimsTold

(* The inductive invariant of ClaimsMatch and ClaimsTold.                  *)
HubInv ==
    /\ WindowTypes /\ CastTypes /\ HubSide
    /\ \A c \in Cast : OpensInOrder(c)
    /\ ToldLive /\ LiveLinked

-----------------------------------------------------------------------------
(* What is waited on.                                                      *)

LEMMA Mapped ==
    ASSUME NEW S, NEW T, NEW s \in Seq(S), NEW t \in [DOMAIN s -> T]
    PROVE  t \in Seq(T) /\ DOMAIN t = DOMAIN s
<1>1. Len(s) \in Nat /\ DOMAIN s = 1..Len(s)
  BY LenProperties
<1> QED BY <1>1, SeqDef

LEMMA WaitingTypes ==
    ASSUME NEW s, IsWaiting(s)
    PROVE  /\ Len(s) \in Nat /\ DOMAIN s = 1..Len(s)
           /\ \A i \in DOMAIN s : /\ s[i].prompt \in Prompt /\ s[i].claim \in Holder
                                  /\ s[i] = [prompt |-> s[i].prompt, claim |-> s[i].claim]
<1>1. Len(s) \in Nat /\ DOMAIN s = 1..Len(s) /\ s \in [1..Len(s) -> PromptView]
  BY LenProperties DEF IsWaiting
<1> QED BY <1>1 DEF PromptView, Holder

(* A prompt is in a view when it is shown there, with one holder or none.  *)
LEMMA PromptsShown ==
    ASSUME NEW view, IsWaiting(view.waiting), NEW p
    PROVE  /\ p \in Prompts(view) <=> \E w \in Holder : Shows(view.waiting, p, w)
           /\ \A v, w : Shows(view.waiting, p, v) /\ Shows(view.waiting, p, w) => v = w
<1> DEFINE s == view.waiting
<1>1. \A i \in DOMAIN s : /\ s[i].claim \in Holder
                          /\ s[i] = [prompt |-> s[i].prompt, claim |-> s[i].claim]
  BY WaitingTypes
<1>2. \A i \in DOMAIN s : s[i].prompt = p => Shows(s, p, s[i].claim)
  BY <1>1 DEF Shows
<1>3. \A w : Shows(s, p, w) => \E i \in DOMAIN s : s[i].prompt = p /\ s[i].claim = w
  BY DEF Shows
<1>4. \A i, j \in DOMAIN s : s[i].prompt = s[j].prompt => i = j
  BY DEF IsWaiting, Apart
<1>5. p \in Prompts(view) <=> \E i \in DOMAIN s : s[i].prompt = p
  BY DEF Prompts
<1>6. p \in Prompts(view) <=> \E w \in Holder : Shows(s, p, w)
  BY <1>1, <1>2, <1>3, <1>5
<1>7. \A v, w : Shows(s, p, v) /\ Shows(s, p, w) => v = w
  BY <1>3, <1>4
<1> QED BY <1>6, <1>7

(* A claim shown is the one that is there.                                 *)
LEMMA ClaimShown ==
    ASSUME NEW view, IsWaiting(view.waiting), NEW p, NEW w, Shows(view.waiting, p, w)
    PROVE  ClaimOn(view, p) = w
<1> DEFINE s == view.waiting
<1>1. PICK i \in DOMAIN s : s[i] = [prompt |-> p, claim |-> w]
  BY DEF Shows
<1>2. \A x \in Range(s) : x.prompt = p => x = s[i]
  BY <1>1 DEF Range, IsWaiting, Apart
<1>3. s[i] \in Range(s) /\ s[i].prompt = p
  BY <1>1 DEF Range
<1>4. (CHOOSE x \in Range(s) : x.prompt = p) = s[i]
  BY <1>2, <1>3
<1> DEFINE there == CHOOSE x \in Range(s) : x.prompt = p
<1>5. ClaimOn(view, p) = there.claim
  BY DEF ClaimOn
<1>6. there = s[i]
  BY <1>4
<1> HIDE DEF there
<1> QED BY <1>1, <1>5, <1>6

LEMMA NoneWait ==
    /\ IsWaiting(<<>>)
    /\ \A p, w : ~Shows(<<>>, p, w)
<1>1. <<>> \in Seq(PromptView) /\ DOMAIN <<>> = {}
  OBVIOUS
<1> QED BY <1>1 DEF IsWaiting, Apart, Shows

LEMMA WithPromptShows ==
    ASSUME ViewsAssumption, NEW s, IsWaiting(s), NEW p \in Prompt
    PROVE  /\ IsWaiting(WithPrompt(s, p))
           /\ \A q, w : Shows(WithPrompt(s, p), q, w)
                        <=> IF q = p THEN w = Nobody ELSE Shows(s, q, w)
<1> DEFINE t == WithPrompt(s, p)
           new == [prompt |-> p, claim |-> Nobody]
<1>1. /\ Len(s) \in Nat /\ DOMAIN s = 1..Len(s)
      /\ \A i \in DOMAIN s : s[i] \in PromptView
  <2>1. Len(s) \in Nat /\ DOMAIN s = 1..Len(s) /\ s \in [1..Len(s) -> PromptView]
    BY LenProperties DEF IsWaiting
  <2> QED BY <2>1
<1>2. new \in PromptView /\ new.prompt = p /\ new.claim = Nobody
  BY DEF PromptView
<1>3. s \in Seq(PromptView) /\ \A i, j \in DOMAIN s : s[i].prompt = s[j].prompt => i = j
  BY DEF IsWaiting, Apart
<1>4. CASE \E i \in DOMAIN s : s[i].prompt = p
  <2>1. t = [i \in DOMAIN s |-> IF s[i].prompt = p THEN new ELSE s[i]]
    BY <1>4 DEF WithPrompt
  <2>2. t \in [DOMAIN s -> PromptView]
    BY <1>1, <1>2, <2>1
  <2>3. t \in Seq(PromptView) /\ DOMAIN t = DOMAIN s
    BY <1>3, <2>2, Mapped
  <2>4. \A i \in DOMAIN s : t[i].prompt = s[i].prompt
    BY <1>2, <2>1
  <2>5. IsWaiting(t)
    BY <1>3, <2>3, <2>4 DEF IsWaiting, Apart
  <2>6. ASSUME NEW q, NEW w PROVE Shows(t, q, w) <=> IF q = p THEN w = Nobody ELSE Shows(s, q, w)
    <3>1. CASE q = p
      BY <1>4, <2>1, <2>3, <3>1, <1>2 DEF Shows
    <3>2. CASE q # p
      BY <2>1, <2>3, <3>2, <1>2 DEF Shows
    <3> QED BY <3>1, <3>2
  <2> QED BY <2>5, <2>6
<1>5. CASE ~\E i \in DOMAIN s : s[i].prompt = p
  <2>1. t = Append(s, new)
    BY <1>5 DEF WithPrompt
  <2>2. /\ t \in Seq(PromptView) /\ Len(t) = Len(s) + 1
        /\ \A i \in 1..Len(s) : t[i] = s[i]
        /\ t[Len(s) + 1] = new
    BY <1>2, <1>3, <2>1, AppendProperties
  <2>3. DOMAIN t = 1..Len(s) + 1
    BY <2>2, LenProperties
  <2>4. \A i \in DOMAIN t : \/ i \in DOMAIN s /\ t[i] = s[i]
                            \/ i = Len(s) + 1 /\ t[i] = new
    <3> TAKE i \in DOMAIN t
    <3>1. i \in 1..Len(s) \/ i = Len(s) + 1
      BY <1>1, <2>3
    <3>2. CASE i \in 1..Len(s)
      <4>1. i \in DOMAIN s
        BY <1>1, <3>2
      <4> QED BY <2>2, <3>2, <4>1
    <3>3. CASE i = Len(s) + 1
      BY <2>2, <3>3
    <3> QED BY <3>1, <3>2, <3>3
  <2>5. Apart(t)
    BY <1>2, <1>3, <1>5, <2>4 DEF Apart
  <2>6. DOMAIN s \subseteq DOMAIN t /\ Len(s) + 1 \in DOMAIN t
    BY <1>1, <2>3
  <2>7. ASSUME NEW q, NEW w PROVE Shows(t, q, w) <=> IF q = p THEN w = Nobody ELSE Shows(s, q, w)
    <3>1. CASE q = p
      <4>1. ~Shows(s, q, w)
        BY <1>5, <3>1 DEF Shows
      <4> QED BY <1>1, <1>2, <2>2, <2>4, <2>6, <3>1, <4>1 DEF Shows
    <3>2. CASE q # p
      BY <1>1, <1>2, <2>2, <2>4, <2>6, <3>2 DEF Shows
    <3> QED BY <3>1, <3>2
  <2> QED BY <2>2, <2>5, <2>7 DEF IsWaiting
<1> QED BY <1>4, <1>5

LEMMA WithClaimShows ==
    ASSUME NEW s, IsWaiting(s), NEW p \in Prompt, NEW v \in Holder,
           \E i \in DOMAIN s : s[i].prompt = p
    PROVE  /\ IsWaiting(WithClaim(s, p, v))
           /\ \A q, w : Shows(WithClaim(s, p, v), q, w)
                        <=> IF q = p THEN w = v ELSE Shows(s, q, w)
<1> DEFINE t == WithClaim(s, p, v)
           new == [prompt |-> p, claim |-> v]
<1>1. \A i \in DOMAIN s : s[i] \in PromptView
                          /\ s[i] = [prompt |-> s[i].prompt, claim |-> s[i].claim]
  BY WaitingTypes DEF PromptView, Holder
<1>2. new \in PromptView /\ new.prompt = p /\ new.claim = v
  BY DEF PromptView, Holder
<1>3. s \in Seq(PromptView) /\ \A i, j \in DOMAIN s : s[i].prompt = s[j].prompt => i = j
  BY DEF IsWaiting, Apart
<1>4. t = [i \in DOMAIN s |-> IF s[i].prompt = p THEN new ELSE s[i]]
  <2>1. \A i \in DOMAIN s : s[i].prompt = p => [s[i] EXCEPT !.claim = v] = new
    BY <1>1
  <2> QED BY <2>1 DEF WithClaim
<1>5. t \in [DOMAIN s -> PromptView]
  BY <1>1, <1>2, <1>4
<1>6. t \in Seq(PromptView) /\ DOMAIN t = DOMAIN s
  BY <1>3, <1>5, Mapped
<1>7. \A i \in DOMAIN s : t[i].prompt = s[i].prompt
  BY <1>2, <1>4
<1>8. IsWaiting(t)
  BY <1>3, <1>6, <1>7 DEF IsWaiting, Apart
<1>9. ASSUME NEW q, NEW w PROVE Shows(t, q, w) <=> IF q = p THEN w = v ELSE Shows(s, q, w)
  <2>1. CASE q = p
    BY <1>2, <1>4, <1>6, <2>1 DEF Shows
  <2>2. CASE q # p
    BY <1>2, <1>4, <1>6, <2>2 DEF Shows
  <2> QED BY <2>1, <2>2
<1> QED BY <1>8, <1>9

LEMMA WithoutShows ==
    ASSUME NEW s, IsWaiting(s), NEW p, \E i \in DOMAIN s : s[i].prompt = p
    PROVE  /\ IsWaiting(Without(s, p))
           /\ \A q, w : Shows(Without(s, p), q, w) <=> q # p /\ Shows(s, q, w)
<1> DEFINE k == CHOOSE i \in DOMAIN s : s[i].prompt = p
           t == Without(s, p)
           to == SubSeq(s, 1, k - 1)
           from == SubSeq(s, k + 1, Len(s))
<1>1. /\ Len(s) \in Nat /\ DOMAIN s = 1..Len(s)
      /\ \A i \in 1..Len(s) : s[i] \in PromptView
  <2>1. Len(s) \in Nat /\ DOMAIN s = 1..Len(s) /\ s \in [1..Len(s) -> PromptView]
    BY LenProperties DEF IsWaiting
  <2> QED BY <2>1
<1>2. k \in 1..Len(s) /\ s[k].prompt = p
  BY <1>1
<1>3. \A i, j \in 1..Len(s) : s[i].prompt = s[j].prompt => i = j
  BY <1>1 DEF IsWaiting, Apart
<1>4. t = to \o from
  BY DEF Without, RemoveAt
<1> HIDE DEF k
<1>5. /\ to \in Seq(PromptView) /\ Len(to) = k - 1
      /\ \A i \in 1..k - 1 : to[i] = s[i]
  <2>1. \A i \in 1..k - 1 : s[i] \in PromptView
    BY <1>1, <1>2
  <2>2. /\ to \in Seq(PromptView) /\ Len(to) = IF 1 <= k - 1 THEN (k - 1) - 1 + 1 ELSE 0
        /\ \A i \in 1..(k - 1) - 1 + 1 : to[i] = s[1 + i - 1]
    BY <2>1, <1>2, SubSeqProperties
  <2> QED BY <2>2, <1>2
<1>6. /\ from \in Seq(PromptView) /\ Len(from) = Len(s) - k
      /\ \A i \in 1..Len(s) - k : from[i] = s[k + i]
  <2>1. \A i \in k + 1..Len(s) : s[i] \in PromptView
    BY <1>1, <1>2
  <2>2. /\ from \in Seq(PromptView)
        /\ Len(from) = IF k + 1 <= Len(s) THEN Len(s) - (k + 1) + 1 ELSE 0
        /\ \A i \in 1..Len(s) - (k + 1) + 1 : from[i] = s[k + 1 + i - 1]
    BY <2>1, <1>1, <1>2, SubSeqProperties
  <2>3. Len(from) = Len(s) - k /\ Len(s) - (k + 1) + 1 = Len(s) - k
    BY <2>2, <1>1, <1>2
  <2>4. \A i \in 1..Len(s) - k : k + 1 + i - 1 = k + i
    BY <1>1, <1>2
  <2> QED BY <2>2, <2>3, <2>4
<1> HIDE DEF to, from
<1>7. /\ t \in Seq(PromptView) /\ Len(t) = Len(s) - 1
      /\ \A i \in 1..Len(s) - 1 : t[i] = IF i < k THEN s[i] ELSE s[i + 1]
  <2>1. /\ t \in Seq(PromptView) /\ Len(t) = Len(to) + Len(from)
        /\ \A i \in 1..Len(to) + Len(from) :
              t[i] = IF i <= Len(to) THEN to[i] ELSE from[i - Len(to)]
    <3>1. to \in Seq(PromptView) /\ from \in Seq(PromptView)
      BY <1>5, <1>6
    <3> HIDE DEF t
    <3> QED BY <1>4, <3>1, ConcatProperties
  <2>2. Len(to) + Len(from) = Len(s) - 1
    BY <1>1, <1>2, <1>5, <1>6
  <2>3. ASSUME NEW i \in 1..Len(s) - 1 PROVE t[i] = IF i < k THEN s[i] ELSE s[i + 1]
    <3>1. CASE i < k
      BY <1>1, <1>2, <1>5, <2>1, <2>2, <3>1
    <3>2. CASE ~(i < k)
      <4>1. i - (k - 1) \in 1..Len(s) - k /\ k + (i - (k - 1)) = i + 1 /\ ~(i <= k - 1)
        BY <1>1, <1>2, <3>2
      <4> QED BY <1>5, <1>6, <2>1, <2>2, <3>2, <4>1
    <3> QED BY <3>1, <3>2
  <2> QED BY <2>1, <2>2, <2>3
<1>8. DOMAIN t = 1..Len(s) - 1
  BY <1>7, LenProperties
<1> HIDE DEF t
<1>9. \A i \in DOMAIN t : \E j \in 1..Len(s) :
        j # k /\ t[i] = s[j] /\ j = IF i < k THEN i ELSE i + 1
  <2> TAKE i \in DOMAIN t
  <2>1. i \in 1..Len(s) - 1
    BY <1>8
  <2>2. CASE i < k
    <3>1. i \in 1..Len(s) /\ i # k
      BY <1>1, <1>2, <2>1, <2>2
    <3> QED BY <1>7, <2>1, <2>2, <3>1
  <2>3. CASE ~(i < k)
    <3>1. i + 1 \in 1..Len(s) /\ i + 1 # k
      BY <1>1, <1>2, <2>1, <2>3
    <3> QED BY <1>7, <2>1, <2>3, <3>1
  <2> QED BY <2>2, <2>3
<1>10. \A j \in 1..Len(s) : j # k => \E i \in DOMAIN t : t[i] = s[j]
  <2> TAKE j \in 1..Len(s)
  <2> HAVE j # k
  <2>1. CASE j < k
    <3>1. j \in 1..Len(s) - 1
      BY <1>1, <1>2, <2>1
    <3> QED BY <1>7, <1>8, <2>1, <3>1
  <2>2. CASE j > k
    <3>1. j - 1 \in 1..Len(s) - 1 /\ ~(j - 1 < k) /\ (j - 1) + 1 = j
      BY <1>1, <1>2, <2>2
    <3> QED BY <1>7, <1>8, <3>1
  <2> QED BY <1>1, <1>2, <2>1, <2>2
<1>11. Apart(t)
  <2> SUFFICES ASSUME NEW i \in DOMAIN t, NEW j \in DOMAIN t, t[i].prompt = t[j].prompt
               PROVE  i = j
    BY DEF Apart
  <2>1. PICK a \in 1..Len(s) : t[i] = s[a] /\ a = IF i < k THEN i ELSE i + 1
    BY <1>9
  <2>2. PICK b \in 1..Len(s) : t[j] = s[b] /\ b = IF j < k THEN j ELSE j + 1
    BY <1>9
  <2>3. a = b
    BY <1>3, <2>1, <2>2
  <2>4. i \in Nat /\ j \in Nat /\ k \in Nat
    BY <1>1, <1>2, <1>8
  <2> QED BY <2>1, <2>2, <2>3, <2>4
<1>12. ASSUME NEW q, NEW w PROVE Shows(t, q, w) <=> q # p /\ Shows(s, q, w)
  <2>1. ASSUME Shows(t, q, w) PROVE q # p /\ Shows(s, q, w)
    <3>1. PICK i \in DOMAIN t : t[i] = [prompt |-> q, claim |-> w]
      BY <2>1 DEF Shows
    <3>2. PICK j \in 1..Len(s) : j # k /\ t[i] = s[j]
      BY <1>9
    <3> QED BY <1>1, <1>2, <1>3, <3>1, <3>2 DEF Shows
  <2>2. ASSUME q # p, Shows(s, q, w) PROVE Shows(t, q, w)
    <3>1. PICK j \in 1..Len(s) : s[j] = [prompt |-> q, claim |-> w]
      BY <1>1, <2>2 DEF Shows
    <3>2. j # k
      BY <1>2, <2>2, <3>1
    <3>3. PICK i \in DOMAIN t : t[i] = s[j]
      BY <1>10, <3>2
    <3> QED BY <3>1, <3>3 DEF Shows
  <2> QED BY <2>1, <2>2
<1> QED BY <1>7, <1>11, <1>12 DEF IsWaiting, t
-----------------------------------------------------------------------------
(* What a message does to what a view shows.                               *)

Kinds == {"hello", "begin", "end", "queued", "started", "delta", "finished", "asked",
          "resolved", "withdrawn", "claimed", "awaits", "awaitEnded", "awaitWithdrawn",
          "goodbye", "blocked", "freed"}
OnPrompts == {"asked", "resolved", "withdrawn", "claimed"}

(* A message the hub applies: a cast speaks of prompts of its own.         *)
WellSaid(m, known) ==
    /\ m.cast \in Cast /\ m.kind \in Kinds
    /\ m.kind \in OnPrompts => m.what \in Prompt /\ Of[m.what] = m.cast /\ m.what \in known
    /\ m.kind \notin OnPrompts => m.what \notin Prompt
    /\ m.kind = "claimed" => m.with \in Holder
    /\ m.kind = "hello" => m.with \in {"running", "queued"}
    /\ m.kind = "goodbye" => m.with \in Ended

ShowsAfter(s, m, q, w) ==
    CASE m.kind \in {"hello", "begin", "goodbye"} -> FALSE
      [] m.kind = "asked" /\ q = m.what -> w = Nobody
      [] m.kind \in {"resolved", "withdrawn"} /\ q = m.what -> FALSE
      [] m.kind = "claimed" /\ q = m.what -> w = m.with
      [] OTHER -> Shows(s, q, w)

StatusAfter(status, m) ==
    CASE m.kind \in {"hello", "goodbye"} -> m.with
      [] m.kind = "queued" -> "queued"
      [] OTHER -> status

LEMMA NotNoView ==
    ASSUME NEW view, IsView(view)
    PROVE  view # NoView
<1>1. DOMAIN view = {"status", "rites", "waiting", "onChildren", "blocked"}
  BY DEF IsView, Fresh
<1>2. DOMAIN NoView = {"status"}
  BY DEF NoView
<1>3. "waiting" \in DOMAIN view /\ "waiting" \notin DOMAIN NoView
  BY <1>1, <1>2
<1> QED BY <1>3

LEMMA UpdatedView ==
    ASSUME ViewsAssumption, NEW view, IsView(view), NEW known,
           NEW m, WellSaid(m, known), m.kind # "hello", ~Refused(view, m)
    PROVE  LET new == Updated(view, m)
           IN  /\ IsView(new) /\ new.status = StatusAfter(view.status, m)
               /\ \A q, w : Shows(new.waiting, q, w) <=> ShowsAfter(view.waiting, m, q, w)
<1> DEFINE new == Updated(view, m)
<1>1. DOMAIN view = {"status", "rites", "waiting", "onChildren", "blocked"}
  BY DEF IsView, Fresh
<1>2. IsWaiting(view.waiting) /\ view.status \in Status
  BY DEF IsView
<1>3. /\ DOMAIN new = DOMAIN view
      /\ new.status = StatusAfter(view.status, m)
      /\ new.waiting = CASE m.kind \in {"begin", "goodbye"} -> <<>>
                         [] m.kind = "asked" -> WithPrompt(view.waiting, m.what)
                         [] m.kind \in {"resolved", "withdrawn"} -> Without(view.waiting, m.what)
                         [] m.kind = "claimed" -> WithClaim(view.waiting, m.what, m.with)
                         [] OTHER -> view.waiting
  <2>1. CASE m.kind = "begin"
    BY <1>1, <2>1 DEF Updated, StatusAfter
  <2>2. CASE m.kind = "goodbye"
    BY <1>1, <2>2 DEF Updated, StatusAfter
  <2>3. CASE m.kind = "asked"
    BY <1>1, <2>3 DEF Updated, StatusAfter
  <2>4. CASE m.kind \in {"resolved", "withdrawn"}
    BY <1>1, <2>4 DEF Updated, StatusAfter
  <2>5. CASE m.kind = "claimed"
    BY <1>1, <2>5 DEF Updated, StatusAfter
  <2>6. CASE m.kind \in {"queued", "started"}
    BY <1>1, <2>6 DEF Updated, StatusAfter
  <2>7. CASE m.kind \in {"delta", "finished"}
    BY <1>1, <2>7 DEF Updated, StatusAfter
  <2>8. CASE m.kind \in {"awaits", "awaitEnded", "awaitWithdrawn"}
    BY <1>1, <2>8 DEF Updated, StatusAfter
  <2>9. CASE m.kind \in {"blocked", "freed", "end"}
    BY <1>1, <2>9 DEF Updated, StatusAfter
  <2>10. m.kind \in Kinds \ {"hello"}
    BY DEF WellSaid
  <2> QED BY <2>1, <2>2, <2>3, <2>4, <2>5, <2>6, <2>7, <2>8, <2>9, <2>10 DEF Kinds
<1> HIDE DEF new
<1>4. new.status \in Status
  BY <1>2, <1>3 DEF StatusAfter, WellSaid, Status
<1>5. /\ IsWaiting(new.waiting)
      /\ \A q, w : Shows(new.waiting, q, w) <=> ShowsAfter(view.waiting, m, q, w)
  <2>1. CASE m.kind \in {"begin", "goodbye"}
    BY <1>3, <2>1, NoneWait DEF ShowsAfter
  <2>2. CASE m.kind = "asked"
    <3>1. m.what \in Prompt /\ new.waiting = WithPrompt(view.waiting, m.what)
      BY <1>3, <2>2 DEF WellSaid, OnPrompts
    <3>2. /\ IsWaiting(new.waiting)
          /\ \A q, w : Shows(new.waiting, q, w)
                       <=> IF q = m.what THEN w = Nobody ELSE Shows(view.waiting, q, w)
      BY <1>2, <3>1, WithPromptShows
    <3> QED BY <2>2, <3>2 DEF ShowsAfter
  <2>3. CASE m.kind \in {"resolved", "withdrawn"}
    <3>1. \E i \in DOMAIN view.waiting : view.waiting[i].prompt = m.what
      BY <2>3 DEF Refused, Prompts
    <3>2. new.waiting = Without(view.waiting, m.what)
      BY <1>3, <2>3
    <3>3. /\ IsWaiting(new.waiting)
          /\ \A q, w : Shows(new.waiting, q, w) <=> q # m.what /\ Shows(view.waiting, q, w)
      BY <1>2, <3>1, <3>2, WithoutShows
    <3> QED BY <2>3, <3>3 DEF ShowsAfter
  <2>4. CASE m.kind = "claimed"
    <3>1. \E i \in DOMAIN view.waiting : view.waiting[i].prompt = m.what
      BY <2>4 DEF Refused, Prompts
    <3>2. /\ new.waiting = WithClaim(view.waiting, m.what, m.with)
          /\ m.what \in Prompt /\ m.with \in Holder
      BY <1>3, <2>4 DEF WellSaid, OnPrompts
    <3>3. /\ IsWaiting(new.waiting)
          /\ \A q, w : Shows(new.waiting, q, w)
                       <=> IF q = m.what THEN w = m.with ELSE Shows(view.waiting, q, w)
      BY <1>2, <3>1, <3>2, WithClaimShows
    <3> QED BY <2>4, <3>3 DEF ShowsAfter
  <2>5. CASE m.kind \notin {"begin", "goodbye", "asked", "resolved", "withdrawn", "claimed"}
    BY <1>2, <1>3, <2>5 DEF ShowsAfter
  <2> QED BY <2>1, <2>2, <2>3, <2>4, <2>5
<1>6. IsView(new)
  BY <1>3, <1>4, <1>5 DEF IsView
<1> QED BY <1>3, <1>5, <1>6 DEF new

LEMMA FreshView ==
    ASSUME ViewsAssumption, NEW status \in {"running", "queued"}
    PROVE  LET new == [Fresh EXCEPT !.status = status]
           IN  IsView(new) /\ new.status = status /\ new.waiting = <<>>
<1> DEFINE new == [Fresh EXCEPT !.status = status]
<1>1. DOMAIN new = DOMAIN Fresh /\ new.status = status /\ new.waiting = <<>>
  BY DEF Fresh
<1>2. status \in Status
  BY DEF Status
<1> HIDE DEF new
<1> QED BY <1>1, <1>2, NoneWait DEF IsView, new

(* What becomes of the views: that of the message's cast alone changes.    *)
LEMMA AppliedViews ==
    ASSUME ViewsAssumption, NEW known, NEW vs, IsViews(vs, known),
           NEW m, WellSaid(m, known), Accepts(vs, m)
    PROVE  LET c == m.cast  new == Applied(vs, m)
           IN  /\ IsViews(new, known)
               /\ \A d \in Cast : d # c => new[d] = vs[d]
               /\ new[c] # NoView
               /\ new[c].status = StatusAfter(vs[c].status, m)
               /\ \A q, w : Shows(new[c].waiting, q, w) <=> ShowsAfter(vs[c].waiting, m, q, w)
<1> DEFINE c == m.cast
           new == Applied(vs, m)
           view == IF m.kind = "hello" THEN [Fresh EXCEPT !.status = m.with]
                   ELSE Updated(vs[c], m)
<1>1. c \in Cast /\ DOMAIN vs = Cast
  BY DEF WellSaid, IsViews
<1>2. /\ DOMAIN new = Cast
      /\ \A d \in Cast : d # c => new[d] = vs[d]
      /\ new[c] = view
  BY <1>1 DEF Applied
<1>3. /\ IsView(view) /\ view.status = StatusAfter(vs[c].status, m)
      /\ \A q, w : Shows(view.waiting, q, w) <=> ShowsAfter(vs[c].waiting, m, q, w)
  <2>1. CASE m.kind = "hello"
    <3>1. m.with \in {"running", "queued"} /\ view = [Fresh EXCEPT !.status = m.with]
      BY <2>1 DEF WellSaid
    <3>2. IsView(view) /\ view.status = m.with /\ view.waiting = <<>>
      BY <3>1, FreshView
    <3> HIDE DEF view
    <3> QED BY <2>1, <3>2, NoneWait DEF ShowsAfter, StatusAfter
  <2>2. CASE m.kind # "hello"
    <3>1. vs[c] # NoView /\ ~Refused(vs[c], m)
      BY <2>2 DEF Accepts
    <3>2. IsView(vs[c]) /\ view = Updated(vs[c], m)
      BY <1>1, <2>2, <3>1 DEF IsViews
    <3>3. /\ IsView(view) /\ view.status = StatusAfter(vs[c].status, m)
          /\ \A q, w : Shows(view.waiting, q, w) <=> ShowsAfter(vs[c].waiting, m, q, w)
      BY <2>2, <3>1, <3>2, UpdatedView
    <3> QED BY <3>3
  <2> QED BY <2>1, <2>2
<1> HIDE DEF view, new
<1>4. view # NoView
  BY <1>3, NotNoView
<1>5. ASSUME NEW p \in Prompts(view) PROVE Of[p] = c /\ p \in known
  <2>1. IsWaiting(view.waiting)
    BY <1>3 DEF IsView
  <2>2. PICK w \in Holder : Shows(view.waiting, p, w)
    BY <2>1, PromptsShown
  <2>3. ShowsAfter(vs[c].waiting, m, p, w)
    BY <1>3, <2>2
  <2>4. CASE m.kind \in {"asked", "claimed"} /\ p = m.what
    BY <2>4 DEF WellSaid, OnPrompts
  <2>5. CASE Shows(vs[c].waiting, p, w) /\ m.kind # "hello"
    <3>1. vs[c] # NoView
      BY <2>5 DEF Accepts
    <3>2. IsWaiting(vs[c].waiting)
      BY <1>1, <3>1 DEF IsViews, IsView
    <3>3. p \in Prompts(vs[c])
      BY <2>5, <3>2, PromptsShown
    <3> QED BY <1>1, <3>1, <3>3 DEF IsViews
  <2> QED BY <2>3, <2>4, <2>5 DEF ShowsAfter
<1>6. IsViews(new, known)
  <2> SUFFICES ASSUME NEW d \in Cast, new[d] # NoView
               PROVE  IsView(new[d]) /\ \A p \in Prompts(new[d]) : Of[p] = d /\ p \in known
    BY <1>2 DEF IsViews
  <2> QED BY <1>2, <1>3, <1>5 DEF IsViews
<1> QED BY <1>2, <1>3, <1>4, <1>6 DEF new

(* The claims let go of with what a message settles are those no longer    *)
(* shown.                                                                  *)
LEMMA UnclaimedMatch ==
    ASSUME ViewsAssumption, NEW known, NEW vs, IsViews(vs, known),
           NEW held \in [Prompt -> Holder], Match(vs, held),
           NEW m, WellSaid(m, known), Accepts(vs, m), m.kind # "claimed",
           m.kind = "asked" => held[m.what] = Nobody
    PROVE  Match(Applied(vs, m), Unclaimed(held, m))
<1> DEFINE c == m.cast
           new == Applied(vs, m)
<1>1. /\ IsViews(new, known)
      /\ \A d \in Cast : d # c => new[d] = vs[d]
      /\ new[c] # NoView
      /\ new[c].status = StatusAfter(vs[c].status, m)
      /\ \A q, w : Shows(new[c].waiting, q, w) <=> ShowsAfter(vs[c].waiting, m, q, w)
  BY AppliedViews
<1> HIDE DEF new
<1>2. c \in Cast /\ \A p \in Prompt : Of[p] \in Cast
  BY DEF WellSaid, ViewsAssumption
<1> SUFFICES ASSUME NEW p \in Prompt
             PROVE  \/ ShowsIn(new, p, Unclaimed(held, m)[p])
                    \/ /\ Unclaimed(held, m)[p] = Nobody
                       /\ \A w \in Holder : ~ShowsIn(new, p, w)
  BY DEF Match, new
<1>3. \/ ShowsIn(vs, p, held[p])
      \/ held[p] = Nobody /\ \A w \in Holder : ~ShowsIn(vs, p, w)
  BY DEF Match
<1>4. Unclaimed(held, m)[p] =
        IF \/ m.kind \in {"resolved", "withdrawn"} /\ m.what = p
           \/ m.kind \in {"hello", "goodbye", "begin"} /\ c = Of[p]
        THEN Nobody ELSE held[p]
  BY DEF Unclaimed
<1>5. CASE Of[p] # c
  <2>1. Unclaimed(held, m)[p] = held[p]
    BY <1>4, <1>5 DEF WellSaid, OnPrompts
  <2> QED BY <1>1, <1>2, <1>3, <1>5, <2>1 DEF ShowsIn
<1>6. CASE Of[p] = c
  <2>1. CASE m.kind \in {"hello", "goodbye", "begin"}
    BY <1>1, <1>4, <1>6, <2>1 DEF ShowsIn, ShowsAfter
  <2>2. CASE m.kind \in {"resolved", "withdrawn"} /\ m.what = p
    BY <1>1, <1>4, <1>6, <2>2 DEF ShowsIn, ShowsAfter
  <2>3. CASE m.kind = "asked" /\ m.what = p
    BY <1>1, <1>4, <1>6, <2>3 DEF ShowsIn, ShowsAfter
  <2>4. CASE m.kind \notin {"hello", "goodbye", "begin"} /\ ~(m.kind \in OnPrompts /\ m.what = p)
    <3>1. vs[c] # NoView /\ Unclaimed(held, m)[p] = held[p]
      BY <1>4, <2>4 DEF Accepts, OnPrompts
    <3>2. \A w : ShowsIn(new, p, w) <=> ShowsIn(vs, p, w)
      BY <1>1, <1>6, <2>4, <3>1 DEF ShowsIn, ShowsAfter, OnPrompts
    <3> QED BY <1>3, <3>1, <3>2
  <2> QED BY <2>1, <2>2, <2>3, <2>4 DEF OnPrompts
<1> QED BY <1>5, <1>6

LEMMA ClaimedMatch ==
    ASSUME ViewsAssumption, NEW known, NEW vs, IsViews(vs, known),
           NEW held \in [Prompt -> Holder], Match(vs, held),
           NEW m, WellSaid(m, known), Accepts(vs, m), m.kind = "claimed"
    PROVE  Match(Applied(vs, m), [held EXCEPT ![m.what] = m.with])
<1> DEFINE c == m.cast
           new == Applied(vs, m)
           claimed == [held EXCEPT ![m.what] = m.with]
<1>1. /\ IsViews(new, known)
      /\ \A d \in Cast : d # c => new[d] = vs[d]
      /\ new[c] # NoView
      /\ new[c].status = StatusAfter(vs[c].status, m)
      /\ \A q, w : Shows(new[c].waiting, q, w) <=> ShowsAfter(vs[c].waiting, m, q, w)
  BY AppliedViews
<1> HIDE DEF new
<1>2. /\ m.what \in Prompt /\ Of[m.what] = c
      /\ c \in Cast /\ \A p \in Prompt : Of[p] \in Cast
  BY DEF WellSaid, OnPrompts, ViewsAssumption
<1>3. vs[c] # NoView
  BY DEF Accepts
<1> SUFFICES ASSUME NEW p \in Prompt
             PROVE  \/ ShowsIn(new, p, claimed[p])
                    \/ claimed[p] = Nobody /\ \A w \in Holder : ~ShowsIn(new, p, w)
  BY DEF Match, new
<1>4. \/ ShowsIn(vs, p, held[p])
      \/ held[p] = Nobody /\ \A w \in Holder : ~ShowsIn(vs, p, w)
  BY DEF Match
<1>5. CASE p = m.what
  <2>1. claimed[p] = m.with
    BY <1>5
  <2> HIDE DEF claimed
  <2> QED BY <1>1, <1>2, <1>5, <2>1 DEF ShowsIn, ShowsAfter
<1>6. CASE p # m.what
  <2>1. claimed[p] = held[p]
    BY <1>2, <1>6
  <2>2. \A w : ShowsIn(new, p, w) <=> ShowsIn(vs, p, w)
    BY <1>1, <1>2, <1>3, <1>6 DEF ShowsIn, ShowsAfter
  <2> QED BY <1>4, <2>1, <2>2
<1> QED BY <1>5, <1>6

-----------------------------------------------------------------------------
(* What is let go of with the windows found gone.                          *)

UnheldIn(waiting, lost) ==
    [i \in DOMAIN waiting |-> IF waiting[i].prompt \in lost
                              THEN [prompt |-> waiting[i].prompt, claim |-> Nobody]
                              ELSE waiting[i]]

LEMMA UnheldShows ==
    ASSUME NEW s, IsWaiting(s), NEW lost
    PROVE  LET t == UnheldIn(s, lost)
           IN  /\ IsWaiting(t) /\ DOMAIN t = DOMAIN s
               /\ \A i \in DOMAIN s : t[i].prompt = s[i].prompt
               /\ \A q, w : Shows(t, q, w)
                    <=> IF q \in lost THEN w = Nobody /\ \E v \in Holder : Shows(s, q, v)
                        ELSE Shows(s, q, w)
<1> DEFINE t == UnheldIn(s, lost)
<1>1. \A i \in DOMAIN s : /\ s[i].prompt \in Prompt /\ s[i].claim \in Holder
                          /\ s[i] = [prompt |-> s[i].prompt, claim |-> s[i].claim]
  BY WaitingTypes
<1>2. s \in Seq(PromptView) /\ \A i, j \in DOMAIN s : s[i].prompt = s[j].prompt => i = j
  BY DEF IsWaiting, Apart
<1>3. t = [i \in DOMAIN s |-> IF s[i].prompt \in lost
                              THEN [prompt |-> s[i].prompt, claim |-> Nobody] ELSE s[i]]
  BY DEF UnheldIn
<1> HIDE DEF t
<1>4. t \in [DOMAIN s -> PromptView]
  <2>1. \A i \in DOMAIN s : s[i] \in PromptView
    BY <1>1 DEF PromptView, Holder
  <2>2. \A i \in DOMAIN s : [prompt |-> s[i].prompt, claim |-> Nobody] \in PromptView
    BY <1>1 DEF PromptView
  <2> QED BY <1>3, <2>1, <2>2
<1>5. t \in Seq(PromptView) /\ DOMAIN t = DOMAIN s
  BY <1>2, <1>4, Mapped
<1>6. \A i \in DOMAIN s : t[i].prompt = s[i].prompt
  BY <1>3
<1>7. IsWaiting(t)
  BY <1>2, <1>5, <1>6 DEF IsWaiting, Apart
<1>8. \A i \in DOMAIN s : t[i] = [prompt |-> s[i].prompt,
                                  claim |-> IF s[i].prompt \in lost THEN Nobody ELSE s[i].claim]
  BY <1>1, <1>3
<1>9. ASSUME NEW q, NEW w
      PROVE  Shows(t, q, w) <=> IF q \in lost THEN w = Nobody /\ \E v \in Holder : Shows(s, q, v)
                                ELSE Shows(s, q, w)
  <2>1. Shows(t, q, w) <=> \E i \in DOMAIN s :
            s[i].prompt = q /\ w = IF q \in lost THEN Nobody ELSE s[i].claim
    BY <1>5, <1>8 DEF Shows
  <2>2. \A v : Shows(s, q, v) <=> \E i \in DOMAIN s : s[i].prompt = q /\ v = s[i].claim
    BY <1>1 DEF Shows
  <2>3. (\E i \in DOMAIN s : s[i].prompt = q) <=> \E v \in Holder : Shows(s, q, v)
    BY <1>1, <2>2
  <2>4. CASE q \in lost
    BY <2>1, <2>3, <2>4
  <2>5. CASE q \notin lost
    BY <2>1, <2>2, <2>5
  <2> QED BY <2>4, <2>5
<1> QED BY <1>5, <1>6, <1>7, <1>9 DEF t

(* Views of the same prompts, in the same states.                          *)
Alike(new, vs) ==
    \A c \in Cast :
        /\ new[c] # NoView <=> vs[c] # NoView
        /\ new[c].status = vs[c].status
        /\ vs[c] # NoView => Prompts(new[c]) = Prompts(vs[c])

LEMMA UnheldViews ==
    ASSUME ViewsAssumption, NEW known, NEW vs, IsViews(vs, known), NEW lost
    PROVE  LET new == Unheld(vs, lost)
           IN  /\ IsViews(new, known) /\ Alike(new, vs)
               /\ \A c \in Cast : vs[c] # NoView =>
                    /\ new[c] # NoView
                    /\ new[c].waiting = UnheldIn(vs[c].waiting, lost)
<1> DEFINE new == Unheld(vs, lost)
<1>1. DOMAIN new = Cast
  BY DEF Unheld
<1>2. ASSUME NEW c \in Cast, vs[c] = NoView PROVE new[c] = NoView
  BY <1>2 DEF Unheld
<1>3. ASSUME NEW c \in Cast, vs[c] # NoView
      PROVE  /\ new[c] # NoView /\ IsView(new[c])
             /\ new[c].waiting = UnheldIn(vs[c].waiting, lost)
             /\ new[c].status = vs[c].status
             /\ Prompts(new[c]) = Prompts(vs[c])
  <2>1. IsView(vs[c])
    BY <1>3 DEF IsViews
  <2>2. DOMAIN vs[c] = {"status", "rites", "waiting", "onChildren", "blocked"}
    BY <2>1 DEF IsView, Fresh
  <2>3. new[c] = [vs[c] EXCEPT !.waiting = UnheldIn(@, lost)]
    BY <1>3 DEF Unheld, UnheldIn
  <2>4. /\ DOMAIN new[c] = DOMAIN vs[c] /\ new[c].status = vs[c].status
        /\ new[c].waiting = UnheldIn(vs[c].waiting, lost)
    BY <2>2, <2>3
  <2> HIDE DEF new
  <2>5. /\ IsWaiting(new[c].waiting) /\ DOMAIN new[c].waiting = DOMAIN vs[c].waiting
        /\ \A i \in DOMAIN vs[c].waiting : new[c].waiting[i].prompt = vs[c].waiting[i].prompt
    BY <2>1, <2>4, UnheldShows DEF IsView
  <2>6. IsView(new[c])
    BY <2>1, <2>4, <2>5 DEF IsView
  <2>7. Prompts(new[c]) = Prompts(vs[c])
    BY <2>5 DEF Prompts
  <2> QED BY <2>4, <2>6, <2>7, NotNoView
<1>4. Alike(new, vs)
  BY <1>2, <1>3 DEF Alike
<1>5. IsViews(new, known)
  BY <1>1, <1>2, <1>3 DEF IsViews
<1> QED BY <1>3, <1>4, <1>5

LEMMA UnheldMatch ==
    ASSUME ViewsAssumption, NEW known, NEW vs, IsViews(vs, known),
           NEW held \in [Prompt -> Holder], Match(vs, held), NEW gone \in SUBSET Window
    PROVE  Match(Unheld(vs, LetGo(held, gone)),
                 [p \in Prompt |-> IF held[p] \in gone THEN Nobody ELSE held[p]])
<1> DEFINE lost == LetGo(held, gone)
           new == Unheld(vs, lost)
           left == [p \in Prompt |-> IF held[p] \in gone THEN Nobody ELSE held[p]]
<1>1. \A c \in Cast : /\ new[c] # NoView <=> vs[c] # NoView
                      /\ vs[c] # NoView => new[c].waiting = UnheldIn(vs[c].waiting, lost)
  BY UnheldViews DEF Alike
<1> HIDE DEF new
<1> SUFFICES ASSUME NEW p \in Prompt
             PROVE  \/ ShowsIn(new, p, left[p])
                    \/ left[p] = Nobody /\ \A w \in Holder : ~ShowsIn(new, p, w)
  BY DEF Match, new
<1>2. \/ ShowsIn(vs, p, held[p])
      \/ held[p] = Nobody /\ \A w \in Holder : ~ShowsIn(vs, p, w)
  BY DEF Match
<1>3. Of[p] \in Cast
  BY DEF ViewsAssumption
<1>4. \A w : ShowsIn(new, p, w)
        <=> IF p \in lost THEN w = Nobody /\ \E v \in Holder : ShowsIn(vs, p, v)
            ELSE ShowsIn(vs, p, w)
  <2>1. CASE vs[Of[p]] = NoView
    BY <1>1, <1>3, <2>1 DEF ShowsIn
  <2>2. CASE vs[Of[p]] # NoView
    <3>1. IsWaiting(vs[Of[p]].waiting)
      BY <1>3, <2>2 DEF IsViews, IsView
    <3>2. \A w : Shows(UnheldIn(vs[Of[p]].waiting, lost), p, w)
            <=> IF p \in lost THEN w = Nobody /\ \E v \in Holder : Shows(vs[Of[p]].waiting, p, v)
                ELSE Shows(vs[Of[p]].waiting, p, w)
      BY <3>1, UnheldShows
    <3> QED BY <1>1, <1>3, <2>2, <3>2 DEF ShowsIn
  <2> QED BY <2>1, <2>2
<1>5. (p \in lost <=> held[p] \in gone) /\ held[p] \in Holder
  BY DEF LetGo
<1>6. left[p] = IF p \in lost THEN Nobody ELSE held[p]
  BY <1>5
<1>7. Nobody \notin gone
  BY DEF ViewsAssumption
<1> HIDE DEF left, lost
<1> QED BY <1>2, <1>4, <1>5, <1>6, <1>7

-----------------------------------------------------------------------------
(* What a fan-out comes to: `lost` are the prompts let go of.              *)
LEMMA FannedOut ==
    ASSUME ViewsAssumption, NEW known,
           NEW held \in [Prompt -> Holder], NEW m, NEW isTold, NEW to \in SUBSET Window,
           IsViews(Applied(views, m), known), Match(Applied(views, m), held),
           FanOut(held, m, isTold, to)
    PROVE  \E lost \in SUBSET Prompt :
             /\ \A p \in lost : held[p] \in Window /\ window[held[p]] = "dead"
             /\ told' = isTold \ lost
             /\ claims' = [p \in Prompt |-> IF p \in lost THEN Nobody ELSE held[p]]
             /\ claims' \in [Prompt -> Holder]
             /\ IsViews(views', known) /\ Match(views', claims')
             /\ Alike(views', Applied(views, m))
             /\ surfaces' \subseteq Window
<1>1. PICK gone \in SUBSET {w \in to : window[w] = "dead"} :
        /\ views' = Unheld(Applied(views, m), LetGo(held, gone))
        /\ claims' = [p \in Prompt |-> IF held[p] \in gone THEN Nobody ELSE held[p]]
        /\ surfaces' = to \ gone
        /\ told' = isTold \ LetGo(held, gone)
  BY DEF FanOut, Spreads
<1>2. gone \in SUBSET Window
  OBVIOUS
<1>3. IsViews(views', known) /\ Alike(views', Applied(views, m))
  BY <1>1, UnheldViews
<1>4. Match(views', claims')
  BY <1>1, <1>2, UnheldMatch
<1>5. /\ LetGo(held, gone) \in SUBSET Prompt
      /\ \A p \in LetGo(held, gone) : held[p] \in Window /\ window[held[p]] = "dead"
      /\ claims' = [p \in Prompt |-> IF p \in LetGo(held, gone) THEN Nobody ELSE held[p]]
  BY <1>1 DEF LetGo
<1>6. claims' \in [Prompt -> Holder]
  BY <1>1 DEF Holder
<1> QED BY <1>1, <1>3, <1>4, <1>5, <1>6

LEMMA WaitedShown ==
    ASSUME NEW known, NEW vs, IsViews(vs, known), NEW c \in Cast, NEW p
    PROVE  p \in Waited(vs, c) <=> /\ vs[c] # NoView
                                   /\ \E w \in Holder : Shows(vs[c].waiting, p, w)
<1>1. CASE vs[c] = NoView
  BY <1>1 DEF Waited
<1>2. CASE vs[c] # NoView
  <2>1. IsWaiting(vs[c].waiting)
    BY <1>2 DEF IsViews, IsView
  <2> QED BY <1>2, <2>1, PromptsShown DEF Waited
<1> QED BY <1>1, <1>2

(* What a message applied leaves behind it.                                *)
LEMMA Applies ==
    ASSUME ViewsAssumption, NEW known, IsViews(views, known),
           claims \in [Prompt -> Holder], surfaces \subseteq Window, Match(views, claims),
           NEW m, WellSaid(m, known), m.kind # "claimed",
           m.kind = "asked" => claims[m.what] = Nobody,
           m.kind = "hello" \/ (m.kind = "begin" /\ views[m.cast].status = "running")
                => \A p \in told : Of[p] # m.cast,
           Apply(m)
    PROVE  /\ claims' \in [Prompt -> Holder] /\ surfaces' \subseteq Window
           /\ IsViews(views', known) /\ Match(views', claims')
           /\ told' \subseteq told \ {m.what}
           /\ \A p \in Prompt : claims'[p] \in {claims[p], Nobody}
           /\ \A p \in Prompt : claims[p] # Nobody /\ claims'[p] = Nobody
                => window[claims[p]] = "dead" \/ \A w : ~ShowsIn(views', p, w)
           /\ \A p \in Prompt : views'[Of[p]].status = "running" =>
                IF m.kind = "hello" /\ Of[p] = m.cast THEN p \notin told' /\ claims'[p] = Nobody
                ELSE /\ views[Of[p]].status = "running"
                     /\ (p \in told <=> claims[p] # Nobody) => (p \in told' <=> claims'[p] # Nobody)
           /\ \A c \in Cast : Waited(views', c) \subseteq Waited(views, c)
                                \cup {q \in {m.what} : m.kind = "asked" /\ c = m.cast}
           /\ m.kind \in {"hello", "begin"} => Waited(views', m.cast) = {}
<1> DEFINE c == m.cast
<1>1. /\ c \in Cast /\ \A p \in Prompt : Of[p] \in Cast
      /\ \A p \in Prompt : p = m.what => m.kind \in {"asked", "resolved", "withdrawn"} /\ Of[p] = c
  BY DEF WellSaid, OnPrompts, ViewsAssumption
<1>2. CASE ~Accepts(views, m)
  <2>1. told' = told \ {m.what} /\ UNCHANGED <<views, claims, surfaces>>
    BY <1>2 DEF Apply
  <2>2. m.kind # "hello" /\ (views[c] = NoView \/ Refused(views[c], m))
    BY <1>2 DEF Accepts
  <2>3. m.kind = "begin" => views[c] = NoView
    BY <2>2 DEF Refused
  <2>4. m.kind = "begin" => Waited(views, c) = {}
    BY <2>3 DEF Waited
  <2>5. ASSUME NEW p \in Prompt, p = m.what PROVE claims[p] = Nobody
    <3>1. CASE m.kind = "asked"
      BY <2>5, <3>1
    <3>2. CASE m.kind \in {"resolved", "withdrawn"}
      <4>1. p \notin Waited(views, c)
        BY <2>2, <2>5, <3>2 DEF Refused, Waited
      <4>2. \A w \in Holder : ~ShowsIn(views, p, w)
        BY <1>1, <2>5, <4>1, WaitedShown DEF ShowsIn
      <4> QED BY <4>2 DEF Match
    <3> QED BY <1>1, <2>5, <3>1, <3>2
  <2> QED BY <2>1, <2>2, <2>4, <2>5
<1>3. CASE Accepts(views, m)
  <2> DEFINE held == Unclaimed(claims, m)
             new == Applied(views, m)
  <2>1. /\ IsViews(new, known)
        /\ \A d \in Cast : d # c => new[d] = views[d]
        /\ new[c] # NoView
        /\ new[c].status = StatusAfter(views[c].status, m)
        /\ \A q, w : Shows(new[c].waiting, q, w) <=> ShowsAfter(views[c].waiting, m, q, w)
    BY <1>3, AppliedViews
  <2>2. Match(new, held)
    BY <1>3, UnclaimedMatch
  <2>3. /\ held \in [Prompt -> Holder]
        /\ \A p \in Prompt : held[p] =
              IF \/ m.kind \in {"resolved", "withdrawn"} /\ m.what = p
                 \/ m.kind \in {"hello", "goodbye", "begin"} /\ c = Of[p]
              THEN Nobody ELSE claims[p]
    BY DEF Unclaimed, Holder
  <2>4. FanOut(held, m, told \ {m.what}, surfaces)
    BY <1>3 DEF Apply
  <2>5. PICK lost \in SUBSET Prompt :
             /\ \A p \in lost : held[p] \in Window /\ window[held[p]] = "dead"
             /\ told' = (told \ {m.what}) \ lost
             /\ claims' = [p \in Prompt |-> IF p \in lost THEN Nobody ELSE held[p]]
             /\ claims' \in [Prompt -> Holder]
             /\ IsViews(views', known) /\ Match(views', claims')
             /\ Alike(views', new)
             /\ surfaces' \subseteq Window
    <3> HIDE DEF held
    <3> QED BY <2>1, <2>2, <2>3, <2>4, FannedOut
  <2> HIDE DEF new, held
  <2>6. \A d \in Cast : Waited(views', d) = Waited(new, d)
    BY <2>5 DEF Alike, Waited
  <2>7. \A d \in Cast : d # c => Waited(new, d) = Waited(views, d)
    BY <2>1 DEF Waited
  <2>8. ASSUME NEW p PROVE p \in Waited(new, c) =>
            /\ m.kind \notin {"hello", "begin"}
            /\ p \in Waited(views, c) \/ (m.kind = "asked" /\ p = m.what)
    <3> SUFFICES ASSUME p \in Waited(new, c)
                 PROVE  /\ m.kind \notin {"hello", "begin"}
                        /\ p \in Waited(views, c) \/ (m.kind = "asked" /\ p = m.what)
      OBVIOUS
    <3>1. PICK w \in Holder : Shows(new[c].waiting, p, w)
      BY <1>1, <2>1, WaitedShown
    <3>2. ShowsAfter(views[c].waiting, m, p, w) /\ m.kind \notin {"hello", "begin"}
      BY <2>1, <3>1 DEF ShowsAfter
    <3>3. views[c] # NoView
      BY <1>3, <3>2 DEF Accepts
    <3>4. CASE m.kind = "asked" /\ p = m.what
      BY <3>2, <3>4
    <3>5. CASE m.kind = "claimed" /\ p = m.what
      BY <3>5
    <3>6. CASE Shows(views[c].waiting, p, w)
      BY <1>1, <3>2, <3>3, <3>6, WaitedShown
    <3> QED BY <3>2, <3>4, <3>5, <3>6 DEF ShowsAfter
  <2>9. \A p \in Prompt : claims'[p] \in {claims[p], Nobody}
    BY <2>3, <2>5
  <2>10. ASSUME NEW p \in Prompt, claims[p] # Nobody, claims'[p] = Nobody,
                window[claims[p]] # "dead"
         PROVE  \A w : ~ShowsIn(views', p, w)
    <3>1. p \notin lost
      <4> SUFFICES ASSUME p \in lost PROVE FALSE
        OBVIOUS
      <4>1. held[p] \in Window /\ window[held[p]] = "dead"
        BY <2>5
      <4>2. held[p] = claims[p]
        BY <2>3, <4>1 DEF ViewsAssumption
      <4> QED BY <2>10, <4>1, <4>2
    <3>2. held[p] = Nobody
      BY <2>5, <2>10, <3>1
    <3>3. /\ Of[p] = c
          /\ \/ m.kind \in {"resolved", "withdrawn"} /\ m.what = p
             \/ m.kind \in {"hello", "goodbye", "begin"}
      BY <1>1, <2>3, <2>10, <3>2
    <3>4. \A w : ~Shows(new[c].waiting, p, w)
      BY <2>1, <3>3 DEF ShowsAfter
    <3>5. p \notin Waited(new, c)
      BY <1>1, <2>1, <3>4, WaitedShown
    <3>6. p \notin Waited(views', c)
      BY <1>1, <2>6, <3>5
    <3>7. CASE views'[c] = NoView
      BY <3>3, <3>7 DEF ShowsIn
    <3>8. CASE views'[c] # NoView
      <4>1. IsWaiting(views'[c].waiting) /\ p \notin Prompts(views'[c])
        BY <1>1, <2>5, <3>6, <3>8 DEF IsViews, IsView, Waited
      <4>2. \A w : Shows(views'[c].waiting, p, w) => p \in Prompts(views'[c])
        BY DEF Shows, Prompts
      <4> QED BY <3>3, <4>1, <4>2 DEF ShowsIn
    <3> QED BY <3>7, <3>8
  <2>11. ASSUME NEW p \in Prompt, views'[Of[p]].status = "running"
         PROVE  IF m.kind = "hello" /\ Of[p] = m.cast THEN p \notin told' /\ claims'[p] = Nobody
                ELSE /\ views[Of[p]].status = "running"
                     /\ (p \in told <=> claims[p] # Nobody) => (p \in told' <=> claims'[p] # Nobody)
    <3>1. new[Of[p]].status = "running"
      BY <1>1, <2>5, <2>11 DEF Alike
    <3>2. CASE m.kind = "hello" /\ Of[p] = c
      BY <2>3, <2>5, <3>2
    <3>3. CASE m.kind # "hello" \/ Of[p] # c
      <4>1. views[Of[p]].status = "running" /\ ~(m.kind = "goodbye" /\ Of[p] = c)
        BY <1>1, <2>1, <3>1, <3>3 DEF StatusAfter, WellSaid, Ended
      <4>2. CASE p \in lost
        BY <2>5, <4>1, <4>2
      <4>3. CASE p \notin lost
        <5>1. claims'[p] = held[p] /\ (p \in told' <=> p \in told /\ p # m.what)
          BY <2>5, <4>3
        <5>2. CASE p = m.what
          BY <1>1, <2>3, <4>1, <5>1, <5>2
        <5>3. CASE p # m.what /\ m.kind = "begin" /\ Of[p] = c
          BY <2>3, <4>1, <5>1, <5>3
        <5>4. CASE p # m.what /\ ~(m.kind = "begin" /\ Of[p] = c)
          <6>1. held[p] = claims[p]
            BY <2>3, <3>3, <4>1, <5>4
          <6> QED BY <3>3, <4>1, <5>1, <5>4, <6>1
        <5> QED BY <5>2, <5>3, <5>4
      <4> QED BY <4>2, <4>3
    <3> QED BY <3>2, <3>3
  <2>12. \A d \in Cast : Waited(views', d) \subseteq Waited(views, d)
                                \cup {q \in {m.what} : m.kind = "asked" /\ d = m.cast}
    BY <2>6, <2>7, <2>8
  <2>13. m.kind \in {"hello", "begin"} => Waited(views', c) = {}
    BY <1>1, <2>6, <2>8
  <2> QED BY <2>5, <2>9, <2>10, <2>11, <2>12, <2>13
<1> QED BY <1>2, <1>3

-----------------------------------------------------------------------------
(* The steps.                                                              *)

(* A claim lost is one of a window found gone, or on a prompt shown no     *)
(* more.                                                                   *)
ClaimsLeft ==
    \A p \in Prompt : claims[p] # Nobody /\ claims'[p] = Nobody
        => window[claims[p]] = "dead" \/ \A w : ~ShowsIn(views', p, w)

(* ... or let go of by its holder's word, or taken by another's claim.     *)
ClaimsEnd ==
    \A p \in Prompt : claims[p] # Nobody /\ claims'[p] = Nobody
        => \/ window[claims[p]] = "dead"
           \/ \A w : ~ShowsIn(views', p, w)
           \/ Read(claims[p], [kind |-> "release", prompt |-> p])
           \/ \E v \in Window \ {claims[p]} : Read(v, [kind |-> "claim", prompt |-> p])

LEMMA NoneSaid ==
    ASSUME NEW c \in Cast, saying'[c] = <<>>
    PROVE  OpensInOrder(c)'
<1>1. <<>> \in Seq(Opening(c)') /\ DOMAIN <<>> = {}
  OBVIOUS
<1> QED BY <1>1 DEF OpensInOrder

(* What is yet to be said stays in order while the view shows no more.     *)
LEMMA OrderKept ==
    ASSUME NEW c \in Cast, OpensInOrder(c), saying'[c] = saying[c],
           peer'[c] = "live" <=> peer[c] = "live", c \in link => c \in link',
           asked \subseteq asked', Waited(views', c) \subseteq Waited(views, c)
    PROVE  OpensInOrder(c)'
<1>1. Opening(c)' = Opening(c)
  BY DEF Opening, Hello, Plain, Message
<1> QED BY <1>1 DEF OpensInOrder

LEMMA ToldOpen ==
    ASSUME HubInv
    PROVE  /\ \A p \in told : p \in open /\ p \in Prompt /\ peer[Of[p]] = "live"
           /\ \A c \in Cast, p \in told : peer[c] # "live" => Of[p] # c
  BY DEF HubInv, CastTypes, ToldLive

(* A step that has the hub apply a message, of what a cast did or by the   *)
(* daemon's own doing.                                                     *)
LEMMA AppliedKeeps ==
    ASSUME ViewsAssumption, HubInv, asked \subseteq asked',
           NEW m, WellSaid(m, asked'), m.kind \notin {"claimed", "begin"},
           m.kind = "asked" => claims[m.what] = Nobody /\ saying[m.cast] = <<>>,
           m.kind = "hello" => peer[m.cast] # "live",
           Apply(m), WindowTypes', window' = window,
           DOMAIN peer' = Cast, DOMAIN stale' = Cast, saying' = saying, awaiting' \subseteq Await,
           open' \subseteq asked' \cap Prompt, told \ {m.what} \subseteq open',
           \A d \in Cast : /\ peer'[d] = "live" => peer[d] = "live" /\ d \in link'
                           /\ saying[d] # <<>> =>
                                /\ d \in link => d \in link'
                                /\ peer[d] = "live" => peer'[d] = "live",
           \A p \in told \ {m.what} : peer'[Of[p]] = "live",
           \A p \in open' : p \in open \/ (claims[p] = Nobody /\ p \notin told)
    PROVE  HubInv' /\ ClaimsLeft
<1>1. /\ IsViews(views, asked') /\ claims \in [Prompt -> Holder]
      /\ surfaces \subseteq Window /\ Match(views, claims)
  BY DEF HubInv, HubSide, IsViews
<1>2. \A p \in Prompt : Of[p] \in Cast
  BY DEF ViewsAssumption
<1>3. m.kind = "hello" => \A p \in told : Of[p] # m.cast
  BY ToldOpen DEF WellSaid
<1>4. /\ claims' \in [Prompt -> Holder] /\ surfaces' \subseteq Window
      /\ IsViews(views', asked') /\ Match(views', claims')
      /\ told' \subseteq told \ {m.what}
      /\ \A p \in Prompt : claims'[p] \in {claims[p], Nobody}
      /\ \A p \in Prompt : claims[p] # Nobody /\ claims'[p] = Nobody
            => window[claims[p]] = "dead" \/ \A w : ~ShowsIn(views', p, w)
      /\ \A p \in Prompt : views'[Of[p]].status = "running" =>
            IF m.kind = "hello" /\ Of[p] = m.cast THEN p \notin told' /\ claims'[p] = Nobody
            ELSE /\ views[Of[p]].status = "running"
                 /\ (p \in told <=> claims[p] # Nobody) => (p \in told' <=> claims'[p] # Nobody)
      /\ \A c \in Cast : Waited(views', c) \subseteq Waited(views, c)
                            \cup {q \in {m.what} : m.kind = "asked" /\ c = m.cast}
  BY <1>1, <1>3, Applies
<1>5. HeldOpen'
  BY <1>4 DEF HubInv, HubSide, HeldOpen
<1>6. ClaimsTold'
  <2> SUFFICES ASSUME NEW p \in open', peer'[Of[p]] = "live", views'[Of[p]].status = "running"
               PROVE  p \in told' <=> claims'[p] # Nobody
    BY DEF ClaimsTold
  <2>1. p \in Prompt /\ peer[Of[p]] = "live"
    BY <1>2
  <2>2. CASE m.kind = "hello" /\ Of[p] = m.cast
    BY <1>4, <2>1, <2>2
  <2>3. CASE ~(m.kind = "hello" /\ Of[p] = m.cast)
    <3>1. /\ views[Of[p]].status = "running"
          /\ (p \in told <=> claims[p] # Nobody) => (p \in told' <=> claims'[p] # Nobody)
      BY <1>4, <2>1, <2>3
    <3>2. p \in told <=> claims[p] # Nobody
      BY <2>1, <3>1 DEF HubInv, HubSide, ClaimsTold
    <3> QED BY <3>1, <3>2
  <2> QED BY <2>2, <2>3
<1>7. HubSide'
  BY <1>4, <1>5, <1>6 DEF HubSide
<1>8. CastTypes'
  BY <1>4 DEF HubInv, CastTypes
<1>9. ToldLive' /\ LiveLinked'
  BY <1>4 DEF ToldLive, LiveLinked
<1>10. ASSUME NEW c \in Cast PROVE OpensInOrder(c)'
  <2>1. CASE saying[c] = <<>>
    BY <2>1, NoneSaid
  <2>2. CASE saying[c] # <<>>
    <3>1. Waited(views', c) \subseteq Waited(views, c)
      BY <1>4, <2>2
    <3> QED BY <2>2, <3>1, OrderKept DEF HubInv
  <2> QED BY <2>1, <2>2
<1>11. ClaimsLeft
  BY <1>4 DEF ClaimsLeft
<1> QED BY <1>7, <1>8, <1>9, <1>10, <1>11 DEF HubInv

(* A cast says something, heard when it is on its connection.              *)
LEMMA SaysKeeps ==
    ASSUME ViewsAssumption, HubInv, asked \subseteq asked',
           NEW c \in Cast, NEW m, m.cast = c,
           WellSaid(m, asked'), m.kind \notin {"claimed", "begin", "hello"},
           m.kind = "asked" => claims[m.what] = Nobody,
           Says(c, m), UNCHANGED windowVars, UNCHANGED <<saying, stale>>,
           DOMAIN peer' = Cast, awaiting' \subseteq Await,
           \A d \in Cast : /\ peer'[d] = "live" => peer[d] = "live" /\ d \in link'
                           /\ d # c => peer'[d] = peer[d] /\ (d \in link => d \in link'),
           \A p \in told \ {m.what} : Of[p] = c => peer'[c] = "live",
           open' \subseteq asked' \cap Prompt,
           \A p \in told : p \in open' \/ (p = m.what /\ Of[p] = c),
           \A p \in open' : p \in open \/ (claims[p] = Nobody /\ p \notin told)
    PROVE  HubInv' /\ ClaimsLeft
<1>1. \A p \in Prompt : Of[p] \in Cast
  BY DEF ViewsAssumption
<1>2. WindowTypes' /\ window' = window
  BY DEF HubInv, WindowTypes, windowVars
<1>3. saying[c] = <<>> /\ DOMAIN stale' = Cast
  BY DEF Says, HubInv, CastTypes
<1>4. CASE c \in link
  <2>1. Apply(m)
    BY <1>4 DEF Says
  <2>2. \A p \in told \ {m.what} : peer'[Of[p]] = "live"
    BY <1>1, ToldOpen
  <2>3. told \ {m.what} \subseteq open'
    OBVIOUS
  <2> QED BY <1>2, <1>3, <2>1, <2>2, <2>3, AppliedKeeps
<1>5. CASE c \notin link
  <2>1. UNCHANGED hubVars
    BY <1>5 DEF Says
  <2>2. peer[c] # "live"
    BY <1>5 DEF HubInv, LiveLinked
  <2>3. told' \subseteq open'
    BY <2>1, <2>2, ToldOpen DEF hubVars
  <2>4. IsViews(views', asked')
    BY <2>1 DEF HubInv, HubSide, IsViews, hubVars
  <2>5. HeldOpen' /\ ClaimsTold'
    BY <1>1, <1>2, <2>1 DEF HubInv, HubSide, HeldOpen, ClaimsTold, hubVars
  <2>6. HubSide'
    BY <2>1, <2>4, <2>5 DEF HubInv, HubSide, hubVars
  <2>7. CastTypes'
    BY <1>3, <2>3 DEF HubInv, CastTypes
  <2>8. ToldLive' /\ LiveLinked'
    BY <1>1, <2>1, <2>2, ToldOpen DEF HubInv, ToldLive, LiveLinked, hubVars
  <2>9. ASSUME NEW d \in Cast PROVE OpensInOrder(d)'
    <3>1. CASE d = c
      BY <1>3, <3>1, NoneSaid
    <3>2. CASE d # c
      <4>1. Waited(views', d) \subseteq Waited(views, d)
        BY <2>1 DEF hubVars
      <4>2. peer'[d] = "live" <=> peer[d] = "live"
        BY <3>2
      <4> QED BY <3>2, <4>1, <4>2, OrderKept DEF HubInv
    <3> QED BY <3>1, <3>2
  <2>10. ClaimsLeft
    BY <2>1 DEF hubVars, ClaimsLeft
  <2> QED BY <1>2, <2>6, <2>7, <2>8, <2>9, <2>10 DEF HubInv
<1> QED BY <1>4, <1>5

-----------------------------------------------------------------------------
(* The circle, and the casts.                                              *)

LEMMA SpokenOf ==
    ASSUME ViewsAssumption, NEW known, NEW c \in Cast, NEW kind \in Kinds, NEW x, NEW with,
           IF kind \in OnPrompts THEN x \in Prompt /\ Of[x] = c /\ x \in known ELSE x \notin Prompt,
           kind \notin {"claimed", "hello"}, kind = "goodbye" => with \in Ended
    PROVE  WellSaid(Message(kind, c, x, with), known)
  BY DEF WellSaid, Message

LEMMA NotPrompts ==
    ASSUME ViewsAssumption
    PROVE  /\ Nobody \notin Prompt
           /\ \A r \in Rite : r \notin Prompt /\ Of[r] \in Cast
           /\ \A k \in Await : k \notin Prompt /\ Of[k] \in Cast
           /\ \A p \in Prompt : Of[p] \in Cast
  BY DEF ViewsAssumption

(* What no view shows nobody claims.                                       *)
LEMMA UnseenUnclaimed ==
    ASSUME ViewsAssumption, HubInv, NEW p \in Prompt, p \notin Waited(views, Of[p])
    PROVE  claims[p] = Nobody
<1>1. Of[p] \in Cast
  BY DEF ViewsAssumption
<1>2. \A w \in Holder : ~ShowsIn(views, p, w)
  BY <1>1, WaitedShown DEF HubInv, HubSide, ShowsIn
<1>3. claims[p] \in Holder
  BY DEF HubInv, HubSide
<1> QED BY <1>2, <1>3 DEF HubInv, HubSide, Match

LEMMA QueuesKeeps ==
    ASSUME ViewsAssumption, HubInv, NEW c \in Cast, Queues(c)
    PROVE  HubInv' /\ ClaimsLeft
<1> DEFINE m == Hello(c, "queued")
<1>1. /\ m.kind = "hello" /\ m.cast = c /\ m.what = Nobody /\ m.with = "queued"
  BY DEF Hello, Message
<1>2. WellSaid(m, asked')
  BY <1>1 DEF WellSaid, Kinds, OnPrompts, ViewsAssumption
<1>3. Unclaimed(claims, m) = claims
  <2>1. ASSUME NEW p \in Prompt, Of[p] = c PROVE claims[p] = Nobody
    <3>1. p \notin Waited(views, c)
      BY DEF Queues, Waited
    <3> QED BY <2>1, <3>1, UnseenUnclaimed
  <2>2. claims = [p \in Prompt |-> claims[p]]
    BY DEF HubInv, HubSide
  <2>3. \A p \in Prompt : Unclaimed(claims, m)[p] = claims[p]
    BY <1>1, <2>1 DEF Unclaimed
  <2>4. Unclaimed(claims, m) = [p \in Prompt |-> Unclaimed(claims, m)[p]]
    BY DEF Unclaimed
  <2> QED BY <2>2, <2>3, <2>4
<1>4. told \ {m.what} = told
  BY <1>1, ToldOpen DEF ViewsAssumption
<1>5. Accepts(views, m)
  BY <1>1 DEF Accepts
<1>6. FanOut(claims, m, told, surfaces)
  BY DEF Queues
<1> HIDE DEF m
<1>7. Apply(m)
  BY <1>3, <1>4, <1>5, <1>6 DEF Apply
<1>8. WindowTypes' /\ window' = window
  BY DEF HubInv, WindowTypes, Queues, windowVars
<1>9. LiveLinked /\ CastTypes /\ ToldLive
  BY DEF HubInv
<1> QED BY <1>1, <1>2, <1>7, <1>8, <1>9, ToldOpen, AppliedKeeps
  DEF Queues, CastTypes, LiveLinked

LEMMA TreeChangesKeeps ==
    ASSUME ViewsAssumption, HubInv, NEW c \in Cast, TreeChanges(c)
    PROVE  HubInv' /\ ClaimsLeft
<1> DEFINE m == Plain(IF views[c].blocked THEN "freed" ELSE "blocked", c)
<1>1. m.kind \in {"blocked", "freed"} /\ m.cast = c /\ m.what = Nobody
  BY DEF Plain, Message
<1>2. WellSaid(m, asked')
  BY <1>1 DEF WellSaid, Kinds, OnPrompts, ViewsAssumption
<1>3. Apply(m)
  BY DEF TreeChanges
<1> HIDE DEF m
<1>4. WindowTypes' /\ window' = window
  BY DEF HubInv, WindowTypes, TreeChanges, windowVars
<1>5. LiveLinked /\ CastTypes
  BY DEF HubInv
<1> QED BY <1>1, <1>2, <1>3, <1>4, <1>5, ToldOpen, AppliedKeeps
  DEF TreeChanges, CastTypes, LiveLinked

LEMMA DisconnectsKeeps ==
    ASSUME ViewsAssumption, HubInv, NEW c \in Cast, Disconnects(c)
    PROVE  HubInv' /\ ClaimsLeft
<1> DEFINE m == Goodbye(c, "disconnected")
<1>1. m.kind = "goodbye" /\ m.cast = c /\ m.what = Nobody /\ m.with = "disconnected"
  BY DEF Goodbye, Message
<1>2. WellSaid(m, asked')
  BY <1>1 DEF WellSaid, Kinds, OnPrompts, Ended, ViewsAssumption
<1>3. Apply(m)
  BY DEF Disconnects
<1> HIDE DEF m
<1>4. WindowTypes' /\ window' = window
  BY DEF HubInv, WindowTypes, Disconnects, windowVars
<1>5. LiveLinked /\ CastTypes
  BY DEF HubInv
<1>6. DOMAIN peer' = Cast /\ \A d \in Cast : peer'[d] = "live" <=> peer[d] = "live"
  BY <1>5 DEF Disconnects, CloseCast, CastTypes
<1>7. DOMAIN stale' = Cast
  BY <1>5 DEF Disconnects, CastTypes
<1>8. UNCHANGED <<link, saying, open, asked, awaiting>>
  BY DEF Disconnects
<1>9. \A p \in told : peer'[Of[p]] = "live"
  BY <1>6, ToldOpen DEF ViewsAssumption
<1> QED BY <1>1, <1>2, <1>3, <1>4, <1>5, <1>6, <1>7, <1>8, <1>9, ToldOpen, AppliedKeeps
  DEF CastTypes, LiveLinked

LEMMA AsksKeeps ==
    ASSUME ViewsAssumption, HubInv, NEW p \in Prompt, Asks(p)
    PROVE  HubInv' /\ ClaimsLeft
<1> DEFINE c == Of[p]
           m == Message("asked", c, p, Nobody)
<1>1. m.kind = "asked" /\ m.cast = c /\ m.what = p
  BY DEF Message
<1>2. c \in Cast /\ p \notin asked /\ asked' = asked \cup {p} /\ open' = open \cup {p}
  BY DEF Asks, ViewsAssumption
<1>3. WellSaid(m, asked')
  BY <1>2, SpokenOf DEF Kinds, OnPrompts
<1>4. Says(c, m) /\ UNCHANGED <<windowVars, saying, stale, peer, link, awaiting>>
  BY DEF Asks, CastOnly
<1>5. p \notin Waited(views, c)
  BY <1>2 DEF HubInv, HubSide, IsViews, Waited
<1>6. claims[p] = Nobody /\ p \notin told
  BY <1>2, <1>5, UnseenUnclaimed DEF HubInv, CastTypes
<1> HIDE DEF m
<1>7. LiveLinked /\ CastTypes
  BY DEF HubInv
<1>8. \A q \in told \ {m.what} : Of[q] = c => peer'[c] = "live"
  BY <1>4, ToldOpen
<1>9. \A d \in Cast : peer'[d] = "live" => peer[d] = "live" /\ d \in link'
  BY <1>4, <1>7 DEF LiveLinked
<1> QED BY <1>1, <1>2, <1>3, <1>4, <1>6, <1>7, <1>8, <1>9, ToldOpen, SaysKeeps DEF CastTypes

LEMMA SettlesKeeps ==
    ASSUME ViewsAssumption, HubInv, NEW p \in Prompt, Settles(p)
    PROVE  HubInv' /\ ClaimsLeft
<1> DEFINE c == Of[p]
<1>1. PICK kind \in {"resolved", "withdrawn"} : Says(c, Message(kind, c, p, Nobody))
  BY DEF Settles
<1> DEFINE m == Message(kind, c, p, Nobody)
<1>2. m.kind \in {"resolved", "withdrawn"} /\ m.cast = c /\ m.what = p
  BY DEF Message
<1>3. /\ c \in Cast /\ p \in open /\ open' = open \ {p}
      /\ UNCHANGED <<windowVars, saying, stale, peer, link, asked, awaiting>>
  BY DEF Settles, CastOnly, ViewsAssumption
<1>4. LiveLinked /\ CastTypes
  BY DEF HubInv
<1>5. WellSaid(m, asked')
  BY <1>3, <1>4, SpokenOf DEF Kinds, OnPrompts, CastTypes
<1>6. Says(c, m)
  BY <1>1
<1> HIDE DEF m
<1>7. \A q \in told \ {m.what} : Of[q] = c => peer'[c] = "live"
  BY <1>3, ToldOpen
<1>8. \A d \in Cast : peer'[d] = "live" => peer[d] = "live" /\ d \in link'
  BY <1>3, <1>4 DEF LiveLinked
<1> QED BY <1>2, <1>3, <1>4, <1>5, <1>6, <1>7, <1>8, ToldOpen, SaysKeeps DEF CastTypes

(* What is said of anything but a prompt.                                  *)
LEMMA SaysOther ==
    ASSUME ViewsAssumption, HubInv, NEW c \in Cast, NEW kind \in Kinds, NEW x, x \notin Prompt,
           kind \notin OnPrompts \cup {"hello", "begin", "goodbye"},
           Says(c, Message(kind, c, x, Nobody)) \/ Apply(Message(kind, c, x, Nobody)),
           asked \subseteq asked', UNCHANGED <<windowVars, saying, stale, peer, link, open>>,
           awaiting' \subseteq Await
    PROVE  HubInv' /\ ClaimsLeft
<1> DEFINE m == Message(kind, c, x, Nobody)
<1>1. m.kind = kind /\ m.cast = c /\ m.what = x
  BY DEF Message
<1>2. WellSaid(m, asked')
  BY SpokenOf DEF OnPrompts
<1>3. LiveLinked /\ CastTypes
  BY DEF HubInv
<1>4. Says(c, m) \/ Apply(m)
  OBVIOUS
<1> HIDE DEF m
<1>5. \A d \in Cast : peer'[d] = "live" => peer[d] = "live" /\ d \in link'
  BY <1>3 DEF LiveLinked
<1>6. CASE Says(c, m)
  BY <1>1, <1>2, <1>3, <1>5, <1>6, ToldOpen, SaysKeeps DEF CastTypes, OnPrompts
<1>7. CASE Apply(m)
  <2>1. WindowTypes' /\ window' = window
    BY DEF HubInv, WindowTypes, windowVars
  <2> QED BY <1>1, <1>2, <1>3, <1>5, <1>7, <2>1, ToldOpen, AppliedKeeps DEF CastTypes, OnPrompts
<1> QED BY <1>4, <1>6, <1>7

LEMMA AwaitsKeeps ==
    ASSUME ViewsAssumption, HubInv, NEW k \in Await, Awaits(k) \/ AwaitEnds(k)
    PROVE  HubInv' /\ ClaimsLeft
<1>1. k \notin Prompt /\ Of[k] \in Cast
  BY NotPrompts
<1>2. /\ asked \subseteq asked'
      /\ UNCHANGED <<windowVars, saying, stale, peer, link, open>>
      /\ awaiting' \subseteq Await
  BY DEF Awaits, AwaitEnds, CastOnly, HubInv, CastTypes
<1>3. PICK kind \in {"awaits", "awaitEnded", "awaitWithdrawn"} :
        \/ Says(Of[k], Message(kind, Of[k], k, Nobody))
        \/ Apply(Message(kind, Of[k], k, Nobody))
  BY DEF Awaits, AwaitEnds
<1>4. kind \in Kinds /\ kind \notin OnPrompts \cup {"hello", "begin", "goodbye"}
  BY DEF Kinds, OnPrompts
<1> QED BY <1>1, <1>2, <1>3, <1>4, SaysOther

LEMMA StreamsKeeps ==
    ASSUME ViewsAssumption, HubInv, NEW r \in Rite, Streams(r)
    PROVE  HubInv' /\ ClaimsLeft
<1> DEFINE c == Of[r]
<1>1. r \notin Prompt /\ c \in Cast
  BY NotPrompts
<1>2. /\ asked \subseteq asked'
      /\ UNCHANGED <<windowVars, saying, stale, peer, link, open>>
      /\ awaiting' \subseteq Await
  BY DEF Streams, CastOnly, HubInv, CastTypes
<1>3. \/ \E kind \in {"started", "finished"} : Says(c, Message(kind, c, r, Nobody))
      \/ Says(c, Message("delta", c, r, 1))
  BY DEF Streams
<1>4. CASE \E kind \in {"started", "finished"} : Says(c, Message(kind, c, r, Nobody))
  <2>1. PICK kind \in {"started", "finished"} : Says(c, Message(kind, c, r, Nobody))
    BY <1>4
  <2>2. kind \in Kinds /\ kind \notin OnPrompts \cup {"hello", "begin", "goodbye"}
    BY DEF Kinds, OnPrompts
  <2> QED BY <1>1, <1>2, <2>1, <2>2, SaysOther
<1>5. CASE Says(c, Message("delta", c, r, 1))
  <2> DEFINE m == Message("delta", c, r, 1)
  <2>1. m.kind = "delta" /\ m.cast = c /\ m.what = r
    BY DEF Message
  <2>2. WellSaid(m, asked')
    BY <1>1, SpokenOf DEF Kinds, OnPrompts
  <2>3. LiveLinked /\ CastTypes
    BY DEF HubInv
  <2>4. Says(c, m)
    BY <1>5
  <2> HIDE DEF m
  <2>5. \A d \in Cast : peer'[d] = "live" => peer[d] = "live" /\ d \in link'
    BY <1>2, <2>3 DEF LiveLinked
  <2> QED BY <1>1, <1>2, <2>1, <2>2, <2>3, <2>4, <2>5, ToldOpen, SaysKeeps DEF CastTypes
<1> QED BY <1>3, <1>4, <1>5

LEMMA EndsKeeps ==
    ASSUME ViewsAssumption, HubInv, NEW c \in Cast, Ends(c)
    PROVE  HubInv' /\ ClaimsLeft
<1>1. PICK status \in {"ok", "error"} : Says(c, Goodbye(c, status))
  BY DEF Ends
<1> DEFINE m == Goodbye(c, status)
<1>2. m.kind = "goodbye" /\ m.cast = c /\ m.what = Nobody /\ m.with = status
  BY DEF Goodbye, Message
<1>3. WellSaid(m, asked')
  BY <1>2 DEF WellSaid, Kinds, OnPrompts, Ended, ViewsAssumption
<1>4. LiveLinked /\ CastTypes
  BY DEF HubInv
<1>5. /\ UNCHANGED <<windowVars, saying, stale, open, asked, awaiting>>
      /\ link' = link \ {c} /\ peer' = [peer EXCEPT ![c] = "none"]
      /\ \A p \in open : Of[p] # c
  BY DEF Ends
<1>6. Says(c, m)
  BY <1>1
<1> HIDE DEF m
<1>7. /\ DOMAIN peer' = Cast
      /\ \A d \in Cast : /\ peer'[d] = "live" => peer[d] = "live" /\ d \in link'
                         /\ d # c => peer'[d] = peer[d] /\ (d \in link => d \in link')
  BY <1>4, <1>5 DEF CastTypes, LiveLinked
<1>8. \A p \in told : Of[p] # c
  BY <1>5, ToldOpen
<1> QED BY <1>2, <1>3, <1>4, <1>5, <1>6, <1>7, <1>8, ToldOpen, SaysKeeps DEF CastTypes

-----------------------------------------------------------------------------
(* A connection opened.                                                    *)

LEMMA SetListed ==
    ASSUME NEW S, IsFiniteSet(S)
    PROVE  /\ SetToSeq(S) \in Seq(S)
           /\ \A i, j \in DOMAIN SetToSeq(S) : SetToSeq(S)[i] = SetToSeq(S)[j] => i = j
<1> DEFINE n == Cardinality(S)
           f == SetToSeq(S)
<1>1. n \in Nat /\ ExistsBijection(1..n, S)
  BY FS_CardinalityType
<1>2. \E g \in [1..n -> S] : IsInjective(g)
  BY <1>1 DEF ExistsBijection, Bijection, Injection
<1>3. f \in [1..n -> S] /\ IsInjective(f)
  BY <1>2 DEF SetToSeq
<1> HIDE DEF f, n
<1>4. f \in Seq(S)
  BY <1>1, <1>3, SeqDef
<1> QED BY <1>3, <1>4 DEF IsInjective, f

SaidOf(kind, c, xs) == {Message(kind, c, x, Nobody) : x \in {y \in xs : Of[y] = c}}

LEMMA AllSaid ==
    ASSUME NEW kind, NEW c, NEW xs, IsFiniteSet(xs)
    PROVE  LET s == SetToSeq(SaidOf(kind, c, xs))
           IN  /\ s \in Seq(SaidOf(kind, c, xs))
               /\ \A i \in DOMAIN s : s[i] \in SaidOf(kind, c, xs) /\ s[i].kind = kind
               /\ \A i, j \in DOMAIN s : s[i] = s[j] => i = j
<1> DEFINE X == {y \in xs : Of[y] = c}
           S == SaidOf(kind, c, xs)
           f == [x \in X |-> Message(kind, c, x, Nobody)]
           s == SetToSeq(S)
<1>1. IsFiniteSet(X)
  BY FS_Subset
<1>2. f \in Surjection(X, S)
  BY DEF Surjection, SaidOf
<1>3. IsFiniteSet(S)
  BY <1>1, <1>2, FS_Surjection
<1>4. s \in Seq(S) /\ \A i, j \in DOMAIN s : s[i] = s[j] => i = j
  <2> HIDE DEF S
  <2> QED BY <1>3, SetListed
<1> HIDE DEF s, S
<1>5. \A i \in DOMAIN s : s[i] \in S
  BY <1>4, LenProperties, ElementOfSeq
<1>6. \A x \in S : x.kind = kind
  BY DEF SaidOf, Message, S
<1> QED BY <1>4, <1>5, <1>6 DEF s, S

IsAsked(m) == m.kind = "asked"

(* What a connection opens with, as far as it is said.                     *)
OpensWith(s, c) ==
    /\ s \in Seq(Opening(c))
    /\ 2 \in DOMAIN s /\ s[1] = Hello(c, "running") /\ s[2] = Plain("begin", c)
    /\ \A i \in DOMAIN s : s[i].kind \in {"hello", "begin"} => i <= 2
    /\ \A i, j \in DOMAIN s : IsAsked(s[i]) /\ s[i] = s[j] => i = j

AskedIn(s, xs) == \A i \in DOMAIN s : IsAsked(s[i]) => s[i].what \in xs

LEMMA MoreSaid ==
    ASSUME NEW c, NEW s, OpensWith(s, c), NEW t \in Seq(Opening(c)),
           \A i \in DOMAIN t : t[i].kind \notin {"hello", "begin"},
           \A i, j \in DOMAIN t : IsAsked(t[i]) /\ t[i] = t[j] => i = j,
           NEW xs, AskedIn(s, xs), AskedIn(t, xs), AskedIn(s, {}) \/ AskedIn(t, {})
    PROVE  OpensWith(s \o t, c) /\ AskedIn(s \o t, xs)
<1> DEFINE u == s \o t
           n == Len(s)
           M == Opening(c)
<1>1. /\ s \in Seq(M) /\ t \in Seq(M)
      /\ n \in Nat /\ Len(t) \in Nat /\ DOMAIN s = 1..n /\ DOMAIN t = 1..Len(t)
  BY LenProperties DEF OpensWith
<1>2. /\ u \in Seq(M) /\ Len(u) = n + Len(t)
      /\ \A i \in 1..n + Len(t) : u[i] = IF i <= n THEN s[i] ELSE t[i - n]
  <2> HIDE DEF M
  <2> QED BY <1>1, ConcatProperties
<1>3. DOMAIN u = 1..n + Len(t)
  <2> HIDE DEF M, u
  <2> QED BY <1>2, LenProperties
<1> HIDE DEF u, M
<1>4. ASSUME NEW i \in DOMAIN u
      PROVE  \/ i \in DOMAIN s /\ u[i] = s[i]
             \/ i - n \in DOMAIN t /\ i > n /\ u[i] = t[i - n]
  <2>1. CASE i <= n
    <3>1. i \in 1..n
      BY <1>1, <1>3, <2>1
    <3> QED BY <1>1, <1>2, <1>3, <2>1, <3>1
  <2>2. CASE i > n
    <3>1. i - n \in 1..Len(t) /\ ~(i <= n)
      BY <1>1, <1>3, <2>2
    <3> QED BY <1>1, <1>2, <1>3, <2>2, <3>1
  <2>3. i \in Nat
    BY <1>3
  <2> QED BY <1>1, <2>1, <2>2, <2>3
<1>5. 2 <= n /\ 1 \in DOMAIN u /\ 2 \in DOMAIN u /\ u[1] = s[1] /\ u[2] = s[2]
  <2>1. 2 \in 1..n
    BY <1>1 DEF OpensWith
  <2>2. 1 \in 1..n + Len(t) /\ 2 \in 1..n + Len(t) /\ 1 <= n /\ 2 <= n
    BY <1>1, <2>1
  <2> QED BY <1>2, <1>3, <2>2
<1>6. \A i \in DOMAIN u : u[i].kind \in {"hello", "begin"} => i <= 2
  BY <1>4 DEF OpensWith
<1>7. ASSUME NEW i \in DOMAIN u, NEW j \in DOMAIN u, IsAsked(u[i]), u[i] = u[j]
      PROVE  i = j
  <2>1. CASE i \in DOMAIN s /\ u[i] = s[i]
    <3>1. j \in DOMAIN s /\ u[j] = s[j]
      BY <1>4, <1>7, <2>1 DEF AskedIn
    <3> QED BY <1>7, <2>1, <3>1 DEF OpensWith
  <2>2. CASE i - n \in DOMAIN t /\ i > n /\ u[i] = t[i - n]
    <3>1. j - n \in DOMAIN t /\ u[j] = t[j - n]
      BY <1>4, <1>7, <2>2 DEF AskedIn
    <3>2. i - n = j - n
      BY <1>7, <2>2, <3>1
    <3>3. i \in Int /\ j \in Int
      BY <1>3
    <3> QED BY <1>1, <3>2, <3>3
  <2> QED BY <1>4, <2>1, <2>2
<1>8. OpensWith(u, c)
  BY <1>2, <1>5, <1>6, <1>7 DEF OpensWith, M
<1>9. AskedIn(u, xs)
  BY <1>4 DEF AskedIn
<1> QED BY <1>8, <1>9 DEF u

LEMMA AttachesKeeps ==
    ASSUME ViewsAssumption, HubInv, NEW c \in Cast, Attaches(c)
    PROVE  HubInv' /\ ClaimsLeft
<1> DEFINE begun == {r \in Rite : lines[r] # Idle}
           ended == {r \in Rite : lines[r] = Over}
           s0 == <<Hello(c, "running"), Plain("begin", c)>>
           s1 == s0 \o SetToSeq(SaidOf("started", c, begun))
           s2 == s1 \o SetToSeq(SaidOf("finished", c, ended))
           s3 == s2 \o SetToSeq(SaidOf("asked", c, open))
           s4 == s3 \o SetToSeq(SaidOf("awaits", c, awaiting))
           s5 == s4 \o <<Plain("end", c)>>
<1>1. /\ IsFiniteSet(begun) /\ IsFiniteSet(ended) /\ IsFiniteSet(open) /\ IsFiniteSet(awaiting)
      /\ open \subseteq asked \cap Prompt /\ awaiting \subseteq Await
  BY FS_Subset DEF ViewsAssumption, HubInv, CastTypes
<1>2. /\ SaidOf("started", c, begun) \subseteq Opening(c)
      /\ SaidOf("finished", c, ended) \subseteq Opening(c)
      /\ SaidOf("asked", c, open) \subseteq Opening(c)
      /\ SaidOf("awaits", c, awaiting) \subseteq Opening(c)
  BY <1>1 DEF SaidOf, Opening
(* Any of what is said of something but a prompt.                          *)
<1>3. ASSUME NEW s, OpensWith(s, c), NEW xs, AskedIn(s, xs), NEW kind, NEW ys, IsFiniteSet(ys),
             kind \notin {"hello", "begin", "asked"}, SaidOf(kind, c, ys) \subseteq Opening(c)
      PROVE  LET t == s \o SetToSeq(SaidOf(kind, c, ys)) IN OpensWith(t, c) /\ AskedIn(t, xs)
  <2> DEFINE t == SetToSeq(SaidOf(kind, c, ys))
  <2>1. /\ t \in Seq(SaidOf(kind, c, ys)) /\ \A i \in DOMAIN t : t[i].kind = kind
        /\ \A i, j \in DOMAIN t : t[i] = t[j] => i = j
    BY <1>3, AllSaid
  <2>2. t \in Seq(Opening(c))
    BY <1>3, <2>1, SeqMonotonic
  <2> HIDE DEF t
  <2>3. AskedIn(t, {}) /\ AskedIn(t, xs)
    BY <1>3, <2>1 DEF AskedIn, IsAsked
  <2>4. /\ \A i \in DOMAIN t : t[i].kind \notin {"hello", "begin"}
        /\ \A i, j \in DOMAIN t : IsAsked(t[i]) /\ t[i] = t[j] => i = j
    BY <1>3, <2>1
  <2>5. OpensWith(s \o t, c) /\ AskedIn(s \o t, xs)
    BY <1>3, <2>2, <2>3, <2>4, MoreSaid
  <2> QED BY <2>5 DEF t
<1>4. OpensWith(s0, c) /\ AskedIn(s0, {})
  <2> DEFINE h == Hello(c, "running")
             b == Plain("begin", c)
  <2>1. h \in Opening(c) /\ b \in Opening(c) /\ h.kind = "hello" /\ b.kind = "begin"
    BY DEF Opening, Hello, Plain, Message
  <2> HIDE DEF h, b
  <2>2. /\ <<h, b>> \in Seq(Opening(c)) /\ DOMAIN <<h, b>> = 1..2
        /\ <<h, b>>[1] = h /\ <<h, b>>[2] = b
    BY <2>1
  <2>3. \A i \in 1..2 : i <= 2 /\ (i = 1 \/ i = 2)
    OBVIOUS
  <2>4. 2 \in 1..2
    OBVIOUS
  <2>5. \A i \in DOMAIN <<h, b>> : ~IsAsked(<<h, b>>[i])
    BY <2>1, <2>2, <2>3 DEF IsAsked
  <2>6. AskedIn(<<h, b>>, {})
    BY <2>5 DEF AskedIn
  <2>7. OpensWith(<<h, b>>, c)
    BY <2>2, <2>3, <2>4, <2>5 DEF OpensWith, h, b
  <2> QED BY <2>6, <2>7 DEF h, b
<1>5. OpensWith(s1, c) /\ AskedIn(s1, {})
  <2> HIDE DEF s0, begun
  <2> QED BY <1>1, <1>2, <1>3, <1>4
<1>6. OpensWith(s2, c) /\ AskedIn(s2, {})
  <2> HIDE DEF s1, ended
  <2> QED BY <1>1, <1>2, <1>3, <1>5
<1>7. OpensWith(s3, c) /\ AskedIn(s3, open)
  <2> DEFINE t == SetToSeq(SaidOf("asked", c, open))
  <2>1. /\ t \in Seq(SaidOf("asked", c, open))
        /\ \A i \in DOMAIN t : t[i] \in SaidOf("asked", c, open) /\ t[i].kind = "asked"
        /\ \A i, j \in DOMAIN t : t[i] = t[j] => i = j
    BY <1>1, AllSaid
  <2>2. t \in Seq(Opening(c))
    BY <1>2, <2>1, SeqMonotonic
  <2> HIDE DEF t
  <2>3. \A m \in SaidOf("asked", c, open) : m.what \in open
    BY DEF SaidOf, Message
  <2>4. AskedIn(t, open)
    BY <2>1, <2>3 DEF AskedIn
  <2> HIDE DEF s2
  <2>5. AskedIn(s2, open) /\ AskedIn(s2, {})
    BY <1>6 DEF AskedIn
  <2>6. \A i \in DOMAIN t : t[i].kind \notin {"hello", "begin"}
    BY <2>1
  <2>7. OpensWith(s2 \o t, c) /\ AskedIn(s2 \o t, open)
    BY <1>6, <2>1, <2>2, <2>4, <2>5, <2>6, MoreSaid
  <2> QED BY <2>7 DEF t
<1>8. OpensWith(s4, c) /\ AskedIn(s4, open)
  <2> HIDE DEF s3
  <2> QED BY <1>1, <1>2, <1>3, <1>7
<1>9. OpensWith(s5, c) /\ AskedIn(s5, open)
  <2> DEFINE e == Plain("end", c)
  <2>1. e \in Opening(c) /\ e.kind = "end"
    BY DEF Opening, Plain, Message
  <2> HIDE DEF e
  <2>2. <<e>> \in Seq(Opening(c)) /\ DOMAIN <<e>> = 1..1 /\ \A i \in 1..1 : <<e>>[i] = e /\ i = 1
    BY <2>1
  <2>3. /\ \A i \in DOMAIN <<e>> : <<e>>[i].kind \notin {"hello", "begin"} /\ ~IsAsked(<<e>>[i])
        /\ \A i, j \in DOMAIN <<e>> : i = j
    BY <2>1, <2>2 DEF IsAsked
  <2>4. AskedIn(<<e>>, open) /\ AskedIn(<<e>>, {})
    BY <2>3 DEF AskedIn
  <2> HIDE DEF s4
  <2>5. OpensWith(s4 \o <<e>>, c) /\ AskedIn(s4 \o <<e>>, open)
    BY <1>8, <2>2, <2>3, <2>4, MoreSaid
  <2> QED BY <2>5 DEF e
<1>10. /\ c \notin link /\ link' = link \cup {c}
       /\ saying' = [saying EXCEPT ![c] = s5]
       /\ UNCHANGED <<views, claims, surfaces, peer, stale, open, told, awaiting, asked, windowVars>>
  BY DEF Attaches, SaidOf
<1> HIDE DEF s5
<1>11. saying'[c] = s5 /\ \A d \in Cast : d # c => saying'[d] = saying[d]
  BY <1>10 DEF HubInv, CastTypes
<1>12. peer[c] # "live"
  BY <1>10 DEF HubInv, LiveLinked
<1>13. ASSUME NEW d \in Cast PROVE OpensInOrder(d)'
  <2>1. CASE d = c
    <3> DEFINE s == s5
    <3>1. s \in Seq(Opening(c)) /\ Opening(c)' = Opening(c)
      BY <1>9 DEF OpensWith, Opening, Hello, Plain, Message
    <3>2. s[1].kind = "hello" /\ s[2].kind = "begin"
      BY <1>9 DEF OpensWith, Hello, Plain, Message
    <3>3. DOMAIN s = 1..Len(s) /\ Len(s) \in Nat
      BY <3>1, LenProperties
    <3>4. \A i \in DOMAIN s : s[i].kind \in {"hello", "begin"} => i = 1 \/ i = 2
      <4> TAKE i \in DOMAIN s
      <4> HAVE s[i].kind \in {"hello", "begin"}
      <4>1. i <= 2
        BY <1>9 DEF OpensWith
      <4>2. i \in Nat /\ i >= 1
        BY <3>3
      <4> QED BY <4>1, <4>2
    <3>5. \A i \in DOMAIN s : s[i].kind = "asked" =>
            s[i].what \in asked /\ \A j \in DOMAIN s : s[i] = s[j] => i = j
      BY <1>1, <1>9 DEF OpensWith, AskedIn, IsAsked
    <3>6. c \in link' /\ peer'[c] # "live" /\ asked' = asked /\ saying'[c] = s
      BY <1>10, <1>11, <1>12
    <3> HIDE DEF s
    <3> QED BY <2>1, <3>1, <3>2, <3>4, <3>5, <3>6 DEF OpensInOrder
  <2>2. CASE d # c
    BY <1>10, <1>11, <2>2, OrderKept DEF HubInv
  <2> QED BY <2>1, <2>2
<1>14. WindowTypes' /\ CastTypes' /\ HubSide' /\ ToldLive' /\ LiveLinked'
  <2>1. WindowTypes'
    BY <1>10 DEF HubInv, WindowTypes, windowVars
  <2>2. CastTypes'
    BY <1>10 DEF HubInv, CastTypes
  <2>3. HubSide'
    BY <1>10 DEF HubInv, HubSide, HeldOpen, ClaimsTold, windowVars
  <2> QED BY <1>10, <2>1, <2>2, <2>3 DEF HubInv, ToldLive, LiveLinked
<1>15. ClaimsLeft
  BY <1>10 DEF ClaimsLeft
<1> QED BY <1>13, <1>14, <1>15 DEF HubInv

LEMMA DropsKeeps ==
    ASSUME ViewsAssumption, HubInv, NEW c \in Cast, Drops(c)
    PROVE  HubInv' /\ ClaimsLeft
<1>1. /\ link' = link \ {c} /\ told' = {p \in told : Of[p] # c}
      /\ saying' = [saying EXCEPT ![c] = <<>>]
      /\ stale' = [stale EXCEPT ![c] = IF peer[c] = "live" THEN @ + 1 ELSE @]
      /\ peer' = [peer EXCEPT ![c] = IF @ = "live" THEN "lost" ELSE @]
      /\ UNCHANGED <<views, claims, surfaces, open, awaiting, asked, windowVars>>
  BY DEF Drops
<1>2. CastTypes
  BY DEF HubInv
<1>3. /\ saying'[c] = <<>> /\ \A d \in Cast : d # c => saying'[d] = saying[d]
      /\ peer'[c] # "live" /\ \A d \in Cast : d # c => peer'[d] = peer[d]
      /\ DOMAIN saying' = Cast /\ DOMAIN stale' = Cast /\ DOMAIN peer' = Cast
  BY <1>1, <1>2 DEF CastTypes
<1>4. CastTypes'
  BY <1>1, <1>2, <1>3 DEF CastTypes
<1>5. ToldLive' /\ LiveLinked'
  BY <1>1, <1>3, ToldOpen DEF HubInv, ToldLive, LiveLinked, ViewsAssumption
<1>6. ClaimsTold'
  <2> SUFFICES ASSUME NEW p \in open, peer'[Of[p]] = "live", views[Of[p]].status = "running"
               PROVE  p \in told' <=> claims[p] # Nobody
    BY <1>1 DEF ClaimsTold
  <2>1. Of[p] \in Cast /\ Of[p] # c
    BY <1>2, <1>3 DEF CastTypes, ViewsAssumption
  <2>2. p \in told <=> claims[p] # Nobody
    BY <1>3, <2>1 DEF HubInv, HubSide, ClaimsTold
  <2> QED BY <1>1, <2>1, <2>2
<1>7. HubSide'
  BY <1>1, <1>6 DEF HubInv, HubSide, HeldOpen, windowVars
<1>8. WindowTypes'
  BY <1>1 DEF HubInv, WindowTypes, windowVars
<1>9. ASSUME NEW d \in Cast PROVE OpensInOrder(d)'
  <2>1. CASE d = c
    BY <1>3, <2>1, NoneSaid
  <2>2. CASE d # c
    BY <1>1, <1>3, <2>2, OrderKept DEF HubInv
  <2> QED BY <2>1, <2>2
<1>10. ClaimsLeft
  BY <1>1 DEF ClaimsLeft
<1> QED BY <1>4, <1>5, <1>7, <1>8, <1>9, <1>10 DEF HubInv

(* Each frame that opens a connection is one the hub may apply.            *)
LEMMA OpeningSaid ==
    ASSUME ViewsAssumption, NEW c \in Cast, NEW m \in Opening(c),
           m.kind = "asked" => m.what \in asked
    PROVE  /\ WellSaid(m, asked) /\ m.cast = c /\ m.kind # "claimed"
           /\ m.kind = "asked" => m = Message("asked", c, m.what, Nobody) /\ Of[m.what] = c
                                  /\ m.what \in Prompt
<1>1. CASE m = Hello(c, "running")
  BY <1>1, NotPrompts DEF Hello, Message, WellSaid, Kinds, OnPrompts
<1>2. CASE m = Plain("begin", c)
  BY <1>2, NotPrompts DEF Plain, Message, WellSaid, Kinds, OnPrompts
<1>3. CASE m = Plain("end", c)
  BY <1>3, NotPrompts DEF Plain, Message, WellSaid, Kinds, OnPrompts
<1>4. CASE m \in {Message(kind, c, r, Nobody) : kind \in {"started", "finished"}, r \in Rite}
  BY <1>4, NotPrompts DEF Message, WellSaid, Kinds, OnPrompts
<1>5. CASE m \in {Message("asked", c, p, Nobody) : p \in {q \in Prompt : Of[q] = c}}
  BY <1>5, NotPrompts DEF Message, WellSaid, Kinds, OnPrompts
<1>6. CASE m \in {Message("awaits", c, k, Nobody) : k \in Await}
  BY <1>6, NotPrompts DEF Message, WellSaid, Kinds, OnPrompts
<1> QED BY <1>1, <1>2, <1>3, <1>4, <1>5, <1>6 DEF Opening

(* The frames of a connection read one by one.                             *)
LEMMA ReadsKeeps ==
    ASSUME ViewsAssumption, HubInv, NEW c \in Cast, Reads(c)
    PROVE  HubInv' /\ ClaimsLeft
<1> DEFINE s == saying[c]
           m == s[1]
<1>1. OpensInOrder(c) /\ CastTypes /\ s # <<>>
  BY DEF HubInv, Reads
<1>2. /\ s \in Seq(Opening(c)) /\ Len(s) \in Nat \ {0} /\ DOMAIN s = 1..Len(s) /\ 1 \in DOMAIN s
      /\ Tail(s) \in Seq(Opening(c)) /\ Len(Tail(s)) = Len(s) - 1
      /\ \A i \in 1..Len(Tail(s)) : Tail(s)[i] = s[i + 1]
      /\ DOMAIN Tail(s) = 1..Len(Tail(s)) /\ Head(s) = m
  <2>1. s \in Seq(Opening(c))
    BY <1>1 DEF OpensInOrder
  <2>2. Len(s) \in Nat \ {0} /\ DOMAIN s = 1..Len(s)
    BY <1>1, <2>1, LenProperties, EmptySeq
  <2>3. /\ Tail(s) \in Seq(Opening(c)) /\ Len(Tail(s)) = Len(s) - 1
        /\ \A i \in 1..Len(Tail(s)) : Tail(s)[i] = s[i + 1]
    BY <1>1, <2>1, HeadTailProperties
  <2>4. DOMAIN Tail(s) = 1..Len(Tail(s))
    BY <2>3, LenProperties
  <2>5. Head(s) = m
    BY <2>1
  <2> QED BY <2>1, <2>2, <2>3, <2>4, <2>5
<1>3. m \in Opening(c)
  BY <1>2, ElementOfSeq
<1>4. /\ WellSaid(m, asked) /\ m.cast = c /\ m.kind # "claimed"
      /\ m.kind = "asked" => m = Message("asked", c, m.what, Nobody) /\ Of[m.what] = c
                             /\ m.what \in Prompt
  BY <1>1, <1>2, <1>3, OpeningSaid DEF OpensInOrder
<1>5. /\ Apply(m) /\ saying' = [saying EXCEPT ![c] = Tail(@)] /\ peer' = [peer EXCEPT ![c] = "live"]
      /\ UNCHANGED <<link, stale, open, awaiting, asked, windowVars>>
  BY <1>2 DEF Reads
<1>6. m.kind = "asked" => claims[m.what] = Nobody
  <2> HAVE m.kind = "asked"
  <2>1. m.what \notin Waited(views, Of[m.what])
    BY <1>1, <1>2, <1>4 DEF OpensInOrder
  <2> QED BY <1>4, <2>1, UnseenUnclaimed
<1>7. m.kind = "begin" => Waited(views, c) = {} /\ peer[c] = "live"
  BY <1>1, <1>2 DEF OpensInOrder
<1>8. m.kind = "hello" => peer[c] # "live"
  BY <1>1, <1>2 DEF OpensInOrder
<1>9. m.kind = "hello" \/ (m.kind = "begin" /\ views[m.cast].status = "running")
        => \A p \in told : Of[p] # m.cast
  <2>1. CASE m.kind = "hello"
    BY <1>4, <1>8, <2>1, ToldOpen
  <2>2. ASSUME m.kind = "begin", views[c].status = "running", NEW p \in told, Of[p] = c
        PROVE  FALSE
    <3>1. p \in open /\ p \in Prompt
      BY ToldOpen
    <3>2. claims[p] # Nobody
      BY <1>7, <2>2, <3>1 DEF HubInv, HubSide, ClaimsTold
    <3>3. claims[p] = Nobody
      BY <1>7, <2>2, <3>1, UnseenUnclaimed
    <3> QED BY <3>2, <3>3
  <2> QED BY <1>4, <2>1, <2>2
<1>10. /\ IsViews(views, asked) /\ claims \in [Prompt -> Holder]
       /\ surfaces \subseteq Window /\ Match(views, claims)
  BY DEF HubInv, HubSide
<1> HIDE DEF m
<1>11. /\ claims' \in [Prompt -> Holder] /\ surfaces' \subseteq Window
       /\ IsViews(views', asked) /\ Match(views', claims')
       /\ told' \subseteq told \ {m.what}
       /\ \A p \in Prompt : claims'[p] \in {claims[p], Nobody}
       /\ \A p \in Prompt : claims[p] # Nobody /\ claims'[p] = Nobody
             => window[claims[p]] = "dead" \/ \A w : ~ShowsIn(views', p, w)
       /\ \A p \in Prompt : views'[Of[p]].status = "running" =>
             IF m.kind = "hello" /\ Of[p] = m.cast THEN p \notin told' /\ claims'[p] = Nobody
             ELSE /\ views[Of[p]].status = "running"
                  /\ (p \in told <=> claims[p] # Nobody) => (p \in told' <=> claims'[p] # Nobody)
       /\ \A d \in Cast : Waited(views', d) \subseteq Waited(views, d)
                             \cup {q \in {m.what} : m.kind = "asked" /\ d = m.cast}
       /\ m.kind \in {"hello", "begin"} => Waited(views', m.cast) = {}
  BY <1>4, <1>5, <1>6, <1>9, <1>10, Applies
<1>12. /\ peer'[c] = "live" /\ \A d \in Cast : d # c => peer'[d] = peer[d]
       /\ saying'[c] = Tail(s) /\ \A d \in Cast : d # c => saying'[d] = saying[d]
       /\ DOMAIN peer' = Cast /\ DOMAIN saying' = Cast /\ DOMAIN stale' = Cast
  BY <1>1, <1>5 DEF CastTypes
<1>13. c \in link /\ (m.kind = "hello" \/ peer[c] = "live")
  BY <1>1 DEF OpensInOrder, m
<1>14. ClaimsTold'
  <2> SUFFICES ASSUME NEW p \in open, peer'[Of[p]] = "live", views'[Of[p]].status = "running"
               PROVE  p \in told' <=> claims'[p] # Nobody
    BY <1>5 DEF ClaimsTold
  <2>1. p \in Prompt /\ Of[p] \in Cast
    BY <1>1 DEF CastTypes, ViewsAssumption
  <2>2. CASE m.kind = "hello" /\ Of[p] = m.cast
    BY <1>11, <2>1, <2>2
  <2>3. CASE ~(m.kind = "hello" /\ Of[p] = m.cast)
    <3>1. peer[Of[p]] = "live"
      BY <1>4, <1>12, <1>13, <2>1, <2>3
    <3>2. /\ views[Of[p]].status = "running"
          /\ (p \in told <=> claims[p] # Nobody) => (p \in told' <=> claims'[p] # Nobody)
      BY <1>11, <2>1, <2>3
    <3>3. p \in told <=> claims[p] # Nobody
      BY <3>1, <3>2 DEF HubInv, HubSide, ClaimsTold
    <3> QED BY <3>2, <3>3
  <2> QED BY <2>2, <2>3
<1>15. HubSide'
  <2>1. HeldOpen'
    BY <1>5, <1>11 DEF HubInv, HubSide, HeldOpen, windowVars
  <2> QED BY <1>5, <1>11, <1>14, <2>1 DEF HubSide
<1>16. CastTypes' /\ ToldLive' /\ LiveLinked'
  <2>1. CastTypes'
    BY <1>1, <1>5, <1>11, <1>12 DEF CastTypes
  <2>2. \A p \in told' : p \in told /\ peer[Of[p]] = "live" /\ Of[p] \in Cast
    BY <1>11, ToldOpen DEF ViewsAssumption
  <2>3. ToldLive'
    BY <1>12, <2>2 DEF ToldLive
  <2>4. LiveLinked'
    BY <1>5, <1>12, <1>13 DEF HubInv, LiveLinked
  <2> QED BY <2>1, <2>3, <2>4
<1>17. WindowTypes'
  BY <1>5 DEF HubInv, WindowTypes, windowVars
<1>18. OpensInOrder(c)'
  <2> DEFINE t == Tail(s)
  <2>1. \A i \in DOMAIN t : i + 1 \in DOMAIN s /\ i + 1 # 1 /\ (i + 1 = 2 => i = 1) /\ t[i] = s[i + 1]
    BY <1>2
  <2>2. \A i, j \in DOMAIN t : i + 1 = j + 1 => i = j
    BY <1>2
  <2>3. t \in Seq(Opening(c)) /\ Opening(c)' = Opening(c)
    BY <1>2 DEF Opening, Hello, Plain, Message
  <2> HIDE DEF t, s
  <2>4. \A i \in DOMAIN t : t[i].kind # "hello"
    BY <1>1, <2>1 DEF OpensInOrder, s
  <2>5. \A i \in DOMAIN t : t[i].kind = "begin" => i = 1 /\ m.kind = "hello"
    BY <1>1, <2>1 DEF OpensInOrder, s, m
  <2>6. ASSUME NEW i \in DOMAIN t, t[i].kind = "asked"
        PROVE  /\ t[i].what \in asked
               /\ t[1].kind = "begin" \/ t[i].what \notin Waited(views', c)
               /\ \A j \in DOMAIN t : t[i] = t[j] => i = j
    <3>1. /\ s[i + 1].what \in asked
          /\ \/ m.kind \in {"hello", "begin"}
             \/ s[i + 1].what \notin Waited(views, c)
          /\ \A j \in DOMAIN s : s[i + 1] = s[j] => i + 1 = j
      BY <1>1, <2>1, <2>6 DEF OpensInOrder, s, m
    <3>2. \A j \in DOMAIN t : t[i] = t[j] => i = j
      BY <2>1, <2>2, <3>1
    <3>3. CASE m.kind \in {"hello", "begin"}
      BY <1>4, <1>11, <2>1, <3>1, <3>2, <3>3
    <3>4. CASE m.kind \notin {"hello", "begin"}
      <4>1. s[i + 1].what \notin Waited(views, c)
        BY <3>1, <3>4
      <4>2. ~(m.kind = "asked" /\ m.what = s[i + 1].what)
        <5> SUFFICES ASSUME m.kind = "asked", m.what = s[i + 1].what PROVE FALSE
          OBVIOUS
        <5>1. s[i + 1] \in Opening(c) /\ s[i + 1].kind = "asked"
          BY <1>2, <2>1, <2>6, ElementOfSeq DEF s
        <5>2. s[i + 1] = Message("asked", c, m.what, Nobody)
          BY <3>1, <5>1, OpeningSaid
        <5>3. s[i + 1] = s[1] /\ 1 \in DOMAIN s
          BY <1>2, <1>4, <5>2 DEF s, m
        <5> QED BY <2>1, <3>1, <5>3
      <4>3. Waited(views', c) \subseteq Waited(views, c) \cup {q \in {m.what} : m.kind = "asked"}
        BY <1>4, <1>11
      <4> QED BY <2>1, <3>1, <3>2, <4>1, <4>2, <4>3
    <3> QED BY <3>3, <3>4
  <2>7. \A i \in DOMAIN t : t[i].kind = "begin" => Waited(views', c) = {}
    BY <1>4, <1>11, <2>5
  <2>8. saying'[c] = t /\ c \in link' /\ peer'[c] = "live" /\ asked' = asked
    BY <1>5, <1>12, <1>13 DEF t, s
  <2> QED BY <2>3, <2>4, <2>5, <2>6, <2>7, <2>8 DEF OpensInOrder
<1>19. ASSUME NEW d \in Cast, d # c PROVE OpensInOrder(d)'
  <2>1. Waited(views', d) \subseteq Waited(views, d)
    BY <1>4, <1>11, <1>19
  <2> QED BY <1>5, <1>12, <1>19, <2>1, OrderKept DEF HubInv
<1>20. ClaimsLeft
  BY <1>11 DEF ClaimsLeft
<1> QED BY <1>15, <1>16, <1>17, <1>18, <1>19, <1>20 DEF HubInv

-----------------------------------------------------------------------------
(* The windows.                                                            *)

LEMMA WindowsKeep ==
    ASSUME ViewsAssumption, HubInv, WindowTypes', surfaces' \subseteq Window,
           UNCHANGED <<views, claims, peer, castVars>>,
           \A w \in Window : window'[w] = "shut" => window[w] = "shut"
    PROVE  HubInv' /\ ClaimsLeft
<1>1. /\ UNCHANGED <<views, claims, peer, link, saying, stale, open, told, awaiting, asked>>
  BY DEF castVars
<1>2. CastTypes' /\ ToldLive' /\ LiveLinked'
  BY <1>1 DEF HubInv, CastTypes, ToldLive, LiveLinked
<1>3. HeldOpen'
  BY <1>1 DEF HubInv, HubSide, HeldOpen, Holder
<1>4. HubSide'
  BY <1>1, <1>3 DEF HubInv, HubSide, ClaimsTold
<1>5. \A c \in Cast : OpensInOrder(c)'
  BY <1>1, OrderKept DEF HubInv
<1>6. ClaimsLeft
  BY <1>1 DEF ClaimsLeft
<1> QED BY <1>2, <1>4, <1>5, <1>6 DEF HubInv

LEMMA WritesTyped ==
    ASSUME HubInv, NEW w \in Window, window[w] = "up",
           NEW kind \in {"answer", "claim", "release"}, NEW p \in Prompt, Writes(w, kind, p)
    PROVE  /\ DOMAIN outbox' = Window
           /\ \A v \in Window :
                /\ outbox'[v] \in Seq([kind : {"answer", "claim", "release"}, prompt : Prompt])
                /\ outbox'[v] # <<>> => window[v] \in {"up", "dead"}
<1> DEFINE said == [kind |-> kind, prompt |-> p]
           S == [kind : {"answer", "claim", "release"}, prompt : Prompt]
<1>1. WindowTypes
  BY DEF HubInv
<1>2. said \in S
  OBVIOUS
<1>3. outbox[w] \in Seq(S)
  BY <1>1 DEF WindowTypes
<1>4. Append(outbox[w], said) \in Seq(S)
  <2> HIDE DEF S, said
  <2> QED BY <1>2, <1>3, AppendProperties
<1>5. outbox' = [outbox EXCEPT ![w] = Append(outbox[w], said)]
  BY DEF Writes
<1> HIDE DEF said
<1>6. /\ DOMAIN outbox' = Window /\ outbox'[w] = Append(outbox[w], said)
      /\ \A v \in Window : v # w => outbox'[v] = outbox[v]
  BY <1>1, <1>5 DEF WindowTypes
<1> QED BY <1>1, <1>4, <1>6 DEF WindowTypes

LEMMA WindowStepsKeep ==
    ASSUME ViewsAssumption, HubInv, NEW w \in Window,
           \/ Opens(w) \/ Takes(w) \/ Dismisses(w) \/ Types(w) \/ Repaints(w) \/ Closes(w)
    PROVE  HubInv' /\ ClaimsLeft
<1>1. WindowTypes /\ surfaces \subseteq Window
  BY DEF HubInv, HubSide
<1>2. CASE Opens(w)
  <2>1. /\ window' = [window EXCEPT ![w] = "up"] /\ UNCHANGED <<outbox, dialog>>
        /\ window[w] = "unopened"
    BY <1>2 DEF Opens
  <2>2. WindowTypes'
    BY <1>1, <2>1 DEF WindowTypes
  <2>3. surfaces' \subseteq Window /\ UNCHANGED <<views, claims, peer, castVars>>
    BY <1>1, <1>2 DEF Opens
  <2>4. \A v \in Window : window'[v] = "shut" => window[v] = "shut"
    BY <1>1, <2>1 DEF WindowTypes
  <2> QED BY <2>2, <2>3, <2>4, WindowsKeep
<1>3. CASE Takes(w)
  <2>1. PICK p \in Prompt : Writes(w, "claim", p) /\ dialog' = [dialog EXCEPT ![w] = p]
    BY <1>3 DEF Takes
  <2>2. window[w] = "up" /\ UNCHANGED <<views, claims, surfaces, peer, castVars, window>>
    BY <1>3 DEF Takes, hub
  <2>3. WindowTypes'
    BY <1>1, <2>1, <2>2, WritesTyped DEF WindowTypes
  <2> QED BY <1>1, <2>2, <2>3, WindowsKeep
<1>4. CASE Dismisses(w)
  <2>1. /\ dialog[w] # Nobody /\ window[w] = "up"
        /\ dialog' = [dialog EXCEPT ![w] = Nobody]
        /\ UNCHANGED <<views, claims, surfaces, peer, castVars, window>>
    BY <1>4 DEF Dismisses, hub
  <2>2. PICK kind \in {"answer", "release"} : Writes(w, kind, dialog[w])
    BY <1>4 DEF Dismisses
  <2>3. dialog[w] \in Prompt
    BY <1>1, <2>1 DEF WindowTypes
  <2>4. WindowTypes'
    <3>1. /\ DOMAIN outbox' = Window
          /\ \A v \in Window :
                /\ outbox'[v] \in Seq([kind : {"answer", "claim", "release"}, prompt : Prompt])
                /\ outbox'[v] # <<>> => window[v] \in {"up", "dead"}
      BY <2>1, <2>2, <2>3, WritesTyped
    <3> QED BY <1>1, <2>1, <3>1 DEF WindowTypes
  <2> QED BY <1>1, <2>1, <2>4, WindowsKeep
<1>5. CASE Types(w)
  <2>1. PICK p \in Prompt : Writes(w, "answer", p)
    BY <1>5 DEF Types
  <2>2. window[w] = "up" /\ UNCHANGED <<views, claims, surfaces, peer, castVars, window, dialog>>
    BY <1>5 DEF Types, hub
  <2>3. WindowTypes'
    BY <1>1, <2>1, <2>2, WritesTyped DEF WindowTypes
  <2> QED BY <1>1, <2>2, <2>3, WindowsKeep
<1>6. CASE Repaints(w)
  <2>1. /\ dialog' = [dialog EXCEPT ![w] = Nobody]
        /\ UNCHANGED <<views, claims, surfaces, peer, castVars, window, outbox>>
    BY <1>6 DEF Repaints, hub
  <2>2. WindowTypes'
    BY <1>1, <2>1 DEF WindowTypes
  <2> QED BY <1>1, <2>1, <2>2, WindowsKeep
<1>7. CASE Closes(w)
  <2>1. /\ dialog' = [dialog EXCEPT ![w] = Nobody] /\ window' = [window EXCEPT ![w] = "dead"]
        /\ UNCHANGED <<views, claims, surfaces, peer, castVars, outbox>>
    BY <1>7 DEF Closes, hub
  <2>2. WindowTypes' /\ \A v \in Window : window'[v] = "shut" => window[v] = "shut"
    BY <1>1, <2>1 DEF WindowTypes
  <2> QED BY <1>1, <2>1, <2>2, WindowsKeep
<1> QED BY <1>2, <1>3, <1>4, <1>5, <1>6, <1>7

(* A claim made or let go of by a window, the cast told of it.             *)
LEMMA ClaimedKeeps ==
    ASSUME ViewsAssumption, HubInv, NEW p \in Prompt, NEW v \in Holder, Asking(p), NEW isTold,
           FanOut([claims EXCEPT ![p] = v], Claimed(p, v), isTold, surfaces),
           v = Nobody => isTold = told \ {p},
           v # Nobody => /\ window[v] # "shut"
                         /\ isTold = IF peer[Of[p]] = "live" /\ p \in open THEN told \cup {p} ELSE told,
           WindowTypes', window' = window,
           UNCHANGED <<peer, link, saying, stale, open, awaiting, asked>>
    PROVE  /\ HubInv'
           /\ \A q \in Prompt : claims[q] # Nobody /\ claims'[q] = Nobody
                => \/ window[claims[q]] = "dead"
                   \/ q = p /\ (v # Nobody => window[v] = "dead")
<1> DEFINE m == Claimed(p, v)
           held == [claims EXCEPT ![p] = v]
<1>1. m.kind = "claimed" /\ m.cast = Of[p] /\ m.what = p /\ m.with = v
  BY DEF Claimed, Message
<1>2. /\ Of[p] \in Cast /\ views[Of[p]] # NoView /\ p \in Prompts(views[Of[p]])
      /\ IsViews(views, asked) /\ claims \in [Prompt -> Holder]
      /\ surfaces \subseteq Window /\ Match(views, claims) /\ CastTypes
      /\ \A q \in Prompt : Of[q] \in Cast
  BY DEF Asking, HubInv, HubSide, ViewsAssumption
<1>3. WellSaid(m, asked)
  BY <1>1, <1>2 DEF WellSaid, Kinds, OnPrompts, IsViews
<1>4. Accepts(views, m)
  BY <1>1, <1>2 DEF Accepts, Refused
<1> HIDE DEF m
<1>5. held \in [Prompt -> Holder] /\ \A q \in Prompt : held[q] = IF q = p THEN v ELSE claims[q]
  BY <1>2
<1>6. Match(Applied(views, m), held)
  BY <1>1, <1>2, <1>3, <1>4, ClaimedMatch
<1> DEFINE new == Applied(views, m)
<1>7. /\ IsViews(new, asked)
      /\ \A d \in Cast : d # Of[p] => new[d] = views[d]
      /\ new[Of[p]] # NoView
      /\ new[Of[p]].status = StatusAfter(views[Of[p]].status, m)
      /\ \A q, w : Shows(new[Of[p]].waiting, q, w) <=> ShowsAfter(views[Of[p]].waiting, m, q, w)
  BY <1>1, <1>2, <1>3, <1>4, AppliedViews
<1>8. FanOut(held, m, isTold, surfaces)
  BY DEF m
<1> HIDE DEF held, new
<1>9. PICK lost \in SUBSET Prompt :
             /\ \A q \in lost : held[q] \in Window /\ window[held[q]] = "dead"
             /\ told' = isTold \ lost
             /\ claims' = [q \in Prompt |-> IF q \in lost THEN Nobody ELSE held[q]]
             /\ claims' \in [Prompt -> Holder]
             /\ IsViews(views', asked) /\ Match(views', claims')
             /\ Alike(views', new)
             /\ surfaces' \subseteq Window
  BY <1>2, <1>5, <1>6, <1>7, <1>8, FannedOut DEF new
<1>10. \A q \in Prompt : claims'[q] = IF q \in lost THEN Nobody ELSE held[q]
  BY <1>9
<1>11. HeldOpen'
  BY <1>2, <1>5, <1>10 DEF HubInv, HubSide, HeldOpen
<1>12. \A d \in Cast : views'[d].status = views[d].status
  BY <1>1, <1>2, <1>7, <1>9 DEF Alike, StatusAfter
<1>13. ClaimsTold'
  <2> SUFFICES ASSUME NEW q \in open, peer[Of[q]] = "live", views'[Of[q]].status = "running"
               PROVE  q \in told' <=> claims'[q] # Nobody
    BY DEF ClaimsTold
  <2>1. q \in Prompt
    BY <1>2 DEF CastTypes
  <2>2. q \in told <=> claims[q] # Nobody
    BY <1>2, <1>12, <2>1 DEF HubInv, HubSide, ClaimsTold
  <2>3. q \in isTold <=> held[q] # Nobody
    <3>1. CASE q = p
      BY <1>5, <2>1, <3>1
    <3>2. CASE q # p
      <4>1. q \in isTold <=> q \in told
        BY <3>2
      <4> QED BY <1>5, <2>1, <2>2, <3>2, <4>1
    <3> QED BY <3>1, <3>2
  <2> QED BY <1>9, <1>10, <2>1, <2>3
<1>14. HubSide'
  BY <1>9, <1>11, <1>13 DEF HubSide
<1>15. \A d \in Cast : Waited(views', d) \subseteq Waited(views, d)
  <2>1. \A d \in Cast : Waited(views', d) = Waited(new, d)
    BY <1>9 DEF Alike, Waited
  <2>2. ASSUME NEW d \in Cast, NEW q \in Waited(new, d) PROVE q \in Waited(views, d)
    <3>1. CASE d # Of[p]
      BY <1>7, <2>2, <3>1 DEF Waited
    <3>2. CASE d = Of[p] /\ q = p
      BY <1>2, <3>2 DEF Waited
    <3>3. CASE d = Of[p] /\ q # p
      <4>1. PICK w \in Holder : Shows(new[d].waiting, q, w)
        BY <1>7, <2>2, WaitedShown
      <4>2. Shows(views[d].waiting, q, w)
        BY <1>1, <1>7, <3>3, <4>1 DEF ShowsAfter
      <4> QED BY <1>2, <3>3, <4>2, WaitedShown
    <3> QED BY <3>1, <3>2, <3>3
  <2> QED BY <2>1, <2>2
<1>16. \A d \in Cast : OpensInOrder(d)'
  BY <1>15, OrderKept DEF HubInv
<1>17. isTold \subseteq open /\ \A q \in isTold : peer[Of[q]] = "live"
  BY ToldOpen
<1>18. CastTypes'
  BY <1>2, <1>9, <1>17 DEF CastTypes
<1>19. ToldLive' /\ LiveLinked'
  BY <1>9, <1>17 DEF HubInv, ToldLive, LiveLinked
<1>20. ASSUME NEW q \in Prompt, claims[q] # Nobody, claims'[q] = Nobody
       PROVE  \/ window[claims[q]] = "dead"
              \/ q = p /\ (v # Nobody => window[v] = "dead")
  BY <1>5, <1>9, <1>10, <1>20
<1> QED BY <1>14, <1>16, <1>18, <1>19, <1>20 DEF HubInv

(* What is read of a window is one of the three words.                     *)
LEMMA WordRead ==
    ASSUME HubInv, NEW w \in Window, ReadsWindow(w)
    PROVE  /\ Head(outbox[w]).prompt \in Prompt
           /\ Head(outbox[w]) = [kind |-> Head(outbox[w]).kind, prompt |-> Head(outbox[w]).prompt]
           /\ outbox[w] # <<>> /\ outbox'[w] = Tail(outbox[w])
           /\ window[w] \in {"up", "dead"}
           /\ WindowTypes' /\ window' = window
<1> DEFINE S == [kind : {"answer", "claim", "release"}, prompt : Prompt]
<1>1. /\ outbox[w] \in Seq(S) /\ outbox[w] # <<>> /\ DOMAIN outbox = Window
      /\ outbox' = [outbox EXCEPT ![w] = Tail(outbox[w])] /\ UNCHANGED <<window, dialog>>
      /\ window[w] \in {"up", "dead"}
  BY DEF ReadsWindow, HubInv, WindowTypes
<1>2. Head(outbox[w]) \in S /\ Tail(outbox[w]) \in Seq(S)
  <2> HIDE DEF S
  <2> QED BY <1>1, HeadTailProperties
<1>3. /\ outbox'[w] = Tail(outbox[w]) /\ DOMAIN outbox' = Window
      /\ \A v \in Window : v # w => outbox'[v] = outbox[v]
  BY <1>1
<1>4. WindowTypes'
  BY <1>1, <1>2, <1>3 DEF HubInv, WindowTypes
<1> QED BY <1>1, <1>2, <1>3, <1>4

LEMMA ReadsWindowKeeps ==
    ASSUME ViewsAssumption, HubInv, NEW w \in Window, ReadsWindow(w)
    PROVE  HubInv' /\ ClaimsEnd
<1> DEFINE said == Head(outbox[w])
           p == said.prompt
<1>1. /\ p \in Prompt /\ window[w] \in {"up", "dead"} /\ WindowTypes' /\ window' = window
      /\ UNCHANGED <<peer, link, saying, stale, awaiting, asked>>
  BY WordRead DEF ReadsWindow
<1>2. \/ Answer(w, p)
      \/ Claim(w, p) /\ Read(w, [kind |-> "claim", prompt |-> p])
      \/ Release(w, p) /\ Read(w, [kind |-> "release", prompt |-> p])
  BY WordRead DEF ReadsWindow, Read
<1> HIDE DEF p
<1>3. LiveLinked /\ CastTypes
  BY DEF HubInv
<1>4. CASE UNCHANGED <<open, hubVars>>
  <2>1. UNCHANGED <<views, claims, surfaces, told, open>>
    BY <1>4 DEF hubVars
  <2>2. CastTypes' /\ ToldLive' /\ LiveLinked'
    BY <1>1, <1>3, <2>1 DEF HubInv, CastTypes, ToldLive, LiveLinked
  <2>3. HubSide'
    BY <1>1, <2>1 DEF HubInv, HubSide, HeldOpen, ClaimsTold
  <2>4. \A c \in Cast : OpensInOrder(c)'
    BY <1>1, <2>1, OrderKept DEF HubInv
  <2>5. ClaimsEnd
    BY <2>1 DEF ClaimsEnd
  <2> QED BY <1>1, <2>2, <2>3, <2>4, <2>5 DEF HubInv
<1>5. CASE p \in open /\ open' = open \ {p} /\ Apply(Message("resolved", Of[p], p, Nobody))
  <2> DEFINE m == Message("resolved", Of[p], p, Nobody)
  <2>1. m.kind = "resolved" /\ m.cast = Of[p] /\ m.what = p
    BY DEF Message
  <2>2. WellSaid(m, asked')
    BY <1>1, <1>3, <1>5, NotPrompts, SpokenOf DEF Kinds, OnPrompts, CastTypes
  <2>3. Apply(m)
    BY <1>5
  <2> HIDE DEF m
  <2>4. HubInv' /\ ClaimsLeft
    BY <1>1, <1>3, <1>5, <2>1, <2>2, <2>3, ToldOpen, AppliedKeeps DEF CastTypes, LiveLinked
  <2> QED BY <2>4 DEF ClaimsLeft, ClaimsEnd
<1>6. ASSUME NEW v \in Holder, Asking(p), NEW isTold,
             FanOut([claims EXCEPT ![p] = v], Claimed(p, v), isTold, surfaces),
             v = Nobody => isTold = told \ {p},
             v # Nobody => v = w /\ isTold = IF peer[Of[p]] = "live" /\ p \in open
                                             THEN told \cup {p} ELSE told,
             open' = open
      PROVE  /\ HubInv'
             /\ \A q \in Prompt : claims[q] # Nobody /\ claims'[q] = Nobody
                  => \/ window[claims[q]] = "dead"
                     \/ q = p /\ (v # Nobody => window[v] = "dead")
  BY <1>1, <1>6, ClaimedKeeps
<1>7. CASE Answer(w, p)
  BY <1>4, <1>5, <1>7 DEF Answer
<1>8. CASE Claim(w, p) /\ Read(w, [kind |-> "claim", prompt |-> p])
  <2>1. w \in Holder /\ w # Nobody
    BY DEF Holder, ViewsAssumption
  <2>2. CASE Asking(p)
    <3>1. /\ HubInv'
          /\ \A q \in Prompt : claims[q] # Nobody /\ claims'[q] = Nobody
               => window[claims[q]] = "dead" \/ (q = p /\ window[w] = "dead")
      BY <1>6, <1>8, <2>1, <2>2 DEF Claim
    <3>2. ASSUME NEW q \in Prompt, claims[q] # Nobody, claims'[q] = Nobody,
                 window[claims[q]] # "dead"
          PROVE  \E v \in Window \ {claims[q]} : Read(v, [kind |-> "claim", prompt |-> q])
      <4>1. q = p /\ window[w] = "dead"
        BY <3>1, <3>2
      <4>2. w \in Window \ {claims[q]}
        BY <3>2, <4>1
      <4> QED BY <1>8, <4>1, <4>2
    <3> QED BY <3>1, <3>2 DEF ClaimsEnd
  <2>3. CASE ~Asking(p)
    BY <1>4, <1>8, <2>3 DEF Claim
  <2> QED BY <2>2, <2>3
<1>9. CASE Release(w, p) /\ Read(w, [kind |-> "release", prompt |-> p])
  <2>1. Nobody \in Holder
    BY DEF Holder
  <2>2. CASE Asking(p) /\ claims[p] = w
    <3>1. /\ HubInv'
          /\ \A q \in Prompt : claims[q] # Nobody /\ claims'[q] = Nobody
               => window[claims[q]] = "dead" \/ q = p
      BY <1>6, <1>9, <2>1, <2>2 DEF Release
    <3> QED BY <1>9, <2>2, <3>1 DEF ClaimsEnd
  <2>3. CASE ~(Asking(p) /\ claims[p] = w)
    BY <1>4, <1>9, <2>3 DEF Release
  <2> QED BY <2>2, <2>3
<1> QED BY <1>2, <1>7, <1>8, <1>9

LEMMA DetachesKeeps ==
    ASSUME ViewsAssumption, HubInv, NEW w \in Window, Detaches(w)
    PROVE  /\ HubInv'
           /\ \A p \in Prompt : claims[p] # Nobody /\ claims'[p] = Nobody
                => window[claims[p]] = "dead"
<1>1. /\ window[w] = "dead" /\ window' = [window EXCEPT ![w] = "shut"]
      /\ outbox' = [outbox EXCEPT ![w] = <<>>] /\ UNCHANGED dialog
      /\ UNCHANGED <<peer, link, saying, stale, open, awaiting, asked>>
  BY DEF Detaches, CastsOnly
<1>2. PICK more \in SUBSET {v \in surfaces \ {w} : window[v] = "dead"} :
        /\ views' = Unheld(views, LetGo(claims, more \cup {w}))
        /\ claims' = [p \in Prompt |-> IF claims[p] \in more \cup {w} THEN Nobody ELSE claims[p]]
        /\ surfaces' = surfaces \ (more \cup {w})
        /\ told' = told \ LetGo(claims, more \cup {w})
  BY DEF Detaches, Spreads
<1> DEFINE gone == more \cup {w}
<1>3. /\ IsViews(views, asked) /\ claims \in [Prompt -> Holder]
      /\ surfaces \subseteq Window /\ Match(views, claims) /\ CastTypes /\ WindowTypes
      /\ \A q \in Prompt : Of[q] \in Cast
  BY DEF HubInv, HubSide, ViewsAssumption
<1>4. gone \in SUBSET Window /\ \A v \in gone : window[v] = "dead"
  BY <1>1, <1>3
<1> HIDE DEF gone
<1>5. /\ views' = Unheld(views, LetGo(claims, gone))
      /\ claims' = [p \in Prompt |-> IF claims[p] \in gone THEN Nobody ELSE claims[p]]
      /\ surfaces' = surfaces \ gone
      /\ told' = told \ LetGo(claims, gone)
      /\ w \in gone
  BY <1>2 DEF gone
<1>6. IsViews(views', asked) /\ Alike(views', views)
  BY <1>3, <1>5, UnheldViews
<1>7. Match(views', claims')
  BY <1>3, <1>4, <1>5, UnheldMatch
<1>8. claims' \in [Prompt -> Holder]
  BY <1>3, <1>5 DEF Holder
<1>9. \A p \in Prompt : claims'[p] = IF claims[p] \in gone THEN Nobody ELSE claims[p]
  BY <1>5
<1>10. HeldOpen'
  <2> SUFFICES ASSUME NEW p \in Prompt, claims'[p] # Nobody PROVE window'[claims'[p]] # "shut"
    BY DEF HeldOpen
  <2>1. claims'[p] = claims[p] /\ claims[p] # w /\ claims[p] \in Window
    BY <1>3, <1>5, <1>9 DEF Holder
  <2>2. window[claims[p]] # "shut"
    BY <2>1 DEF HubInv, HubSide, HeldOpen
  <2> QED BY <1>1, <1>3, <2>1, <2>2 DEF WindowTypes
<1>11. ClaimsTold'
  <2> SUFFICES ASSUME NEW p \in open, peer[Of[p]] = "live", views'[Of[p]].status = "running"
               PROVE  p \in told' <=> claims'[p] # Nobody
    BY <1>1 DEF ClaimsTold
  <2>1. p \in Prompt /\ views[Of[p]].status = "running"
    BY <1>3, <1>6 DEF CastTypes, Alike
  <2>2. p \in told <=> claims[p] # Nobody
    BY <2>1 DEF HubInv, HubSide, ClaimsTold
  <2>3. p \in LetGo(claims, gone) <=> claims[p] \in gone
    BY <2>1 DEF LetGo
  <2> QED BY <1>5, <1>9, <2>1, <2>2, <2>3
<1>12. HubSide'
  BY <1>1, <1>3, <1>5, <1>6, <1>7, <1>8, <1>10, <1>11 DEF HubSide
<1>13. CastTypes' /\ ToldLive' /\ LiveLinked'
  BY <1>1, <1>3, <1>5 DEF HubInv, CastTypes, ToldLive, LiveLinked
<1>14. WindowTypes'
  <2>1. <<>> \in Seq([kind : {"answer", "claim", "release"}, prompt : Prompt])
    OBVIOUS
  <2>2. outbox'[w] = <<>> /\ \A v \in Window : v # w => outbox'[v] = outbox[v] /\ window'[v] = window[v]
    BY <1>1, <1>3 DEF WindowTypes
  <2> QED BY <1>1, <1>3, <2>1, <2>2 DEF WindowTypes
<1>15. \A c \in Cast : Waited(views', c) = Waited(views, c)
  BY <1>6 DEF Alike, Waited
<1>16. \A c \in Cast : OpensInOrder(c)'
  BY <1>1, <1>15, OrderKept DEF HubInv
<1>17. ASSUME NEW p \in Prompt, claims[p] # Nobody, claims'[p] = Nobody
       PROVE  window[claims[p]] = "dead"
  BY <1>4, <1>9, <1>17
<1> QED BY <1>12, <1>13, <1>14, <1>16, <1>17 DEF HubInv

-----------------------------------------------------------------------------
(* The theorems.                                                           *)

LEMMA HubInit ==
    ASSUME ViewsAssumption, Init
    PROVE  HubInv
<1>1. WindowTypes
  <2>1. <<>> \in Seq([kind : {"answer", "claim", "release"}, prompt : Prompt])
    OBVIOUS
  <2> QED BY <2>1 DEF Init, WindowTypes
<1>2. CastTypes /\ ToldLive /\ LiveLinked
  BY DEF Init, CastTypes, ToldLive, LiveLinked
<1>3. HubSide
  <2>1. IsViews(views, asked)
    BY DEF Init, IsViews
  <2>2. Match(views, claims)
    BY NotPrompts DEF Init, Match, ShowsIn
  <2> QED BY <2>1, <2>2 DEF Init, HubSide, HeldOpen, ClaimsTold, Holder
<1>4. ASSUME NEW c \in Cast PROVE OpensInOrder(c)
  <2>1. saying[c] = <<>> /\ <<>> \in Seq(Opening(c)) /\ DOMAIN <<>> = {}
    BY DEF Init
  <2> QED BY <2>1 DEF OpensInOrder
<1> QED BY <1>1, <1>2, <1>3, <1>4 DEF HubInv

LEMMA HubNext ==
    ASSUME ViewsAssumption, HubInv, [Next]_vars
    PROVE  HubInv' /\ ClaimsEnd
<1>1. ClaimsLeft => ClaimsEnd
  BY DEF ClaimsLeft, ClaimsEnd
<1>2. CASE UNCHANGED vars
  <2>1. WindowTypes' /\ surfaces' \subseteq Window
    BY <1>2 DEF HubInv, HubSide, WindowTypes, vars
  <2>2. UNCHANGED <<views, claims, peer, castVars, window>>
    BY <1>2 DEF vars, castVars
  <2> QED BY <1>1, <2>1, <2>2, WindowsKeep
<1>3. ASSUME NEW c \in Cast,
             \/ Queues(c) \/ Attaches(c) \/ Drops(c) \/ Disconnects(c) \/ Reads(c)
             \/ Ends(c) \/ TreeChanges(c)
      PROVE  HubInv' /\ ClaimsEnd
  BY <1>1, <1>3, QueuesKeeps, AttachesKeeps, DropsKeeps, DisconnectsKeeps, ReadsKeeps,
     EndsKeeps, TreeChangesKeeps
<1>4. ASSUME NEW p \in Prompt, Asks(p) \/ Settles(p)
      PROVE  HubInv' /\ ClaimsEnd
  BY <1>1, <1>4, AsksKeeps, SettlesKeeps
<1>5. ASSUME NEW k \in Await, Awaits(k) \/ AwaitEnds(k)
      PROVE  HubInv' /\ ClaimsEnd
  BY <1>1, <1>5, AwaitsKeeps
<1>6. ASSUME NEW r \in Rite, Streams(r)
      PROVE  HubInv' /\ ClaimsEnd
  BY <1>1, <1>6, StreamsKeeps
<1>7. ASSUME NEW w \in Window,
             \/ Opens(w) \/ Takes(w) \/ Dismisses(w) \/ Types(w)
             \/ Repaints(w) \/ Closes(w) \/ ReadsWindow(w) \/ Detaches(w)
      PROVE  HubInv' /\ ClaimsEnd
  <2>1. CASE Detaches(w)
    BY <2>1, DetachesKeeps DEF ClaimsEnd
  <2>2. CASE ~Detaches(w)
    BY <1>1, <1>7, <2>2, WindowStepsKeep, ReadsWindowKeeps
  <2> QED BY <2>1, <2>2
<1> QED BY <1>2, <1>3, <1>4, <1>5, <1>6, <1>7 DEF Next

(* The inductive invariant, in every state reached: views, claims and the  *)
(* words still on their way agree.                                         *)
THEOREM HubInvHolds == Spec => []HubInv
<1>1. Init => HubInv
  BY ViewsAssumption, HubInit
<1>2. HubInv /\ [Next]_vars => HubInv'
  BY ViewsAssumption, HubNext
<1> QED BY <1>1, <1>2, PTL DEF Spec

(* The claims and the views agree, in every state the hub reaches.         *)
THEOREM ClaimsMatchCorrect == Spec => []ClaimsMatch
<1>1. HubInv => ClaimsMatch
  <2> SUFFICES ASSUME HubInv, NEW p \in Prompt
               PROVE  /\ claims[p] = IF Asking(p) THEN ClaimOn(views[Of[p]], p) ELSE Nobody
                      /\ claims[p] # Nobody => window[claims[p]] # "shut"
    BY DEF ClaimsMatch
  <2>1. Of[p] \in Cast /\ claims[p] \in Holder
    BY ViewsAssumption DEF ViewsAssumption, HubInv, HubSide
  <2>2. views[Of[p]] # NoView => IsWaiting(views[Of[p]].waiting)
    BY <2>1 DEF HubInv, HubSide, IsViews, IsView
  <2>3. Asking(p) <=> \E w \in Holder : ShowsIn(views, p, w)
    BY <2>2, PromptsShown DEF Asking, ShowsIn
  <2>4. CASE ShowsIn(views, p, claims[p])
    <3>1. ClaimOn(views[Of[p]], p) = claims[p]
      BY <2>2, <2>4, ClaimShown DEF ShowsIn
    <3> QED BY <2>1, <2>3, <2>4, <3>1 DEF HubInv, HubSide, HeldOpen
  <2>5. CASE claims[p] = Nobody /\ \A w \in Holder : ~ShowsIn(views, p, w)
    BY <2>3, <2>5
  <2> QED BY <2>4, <2>5 DEF HubInv, HubSide, Match
<1> QED BY <1>1, HubInvHolds, PTL

(* A cast with a view that runs has been told of the claims there are on   *)
(* its open prompts, and of no other.                                      *)
THEOREM ClaimsToldCorrect == Spec => []ClaimsTold
<1>1. HubInv => ClaimsTold
  BY DEF HubInv, HubSide
<1> QED BY <1>1, HubInvHolds, PTL

(* No window lets go of another's claim.                                   *)
THEOREM ClaimKeptCorrect == Spec => ClaimKept
<1> DEFINE KeptNow ==
        \A p \in Prompt, w \in Window :
            (claims[p] = w /\ Asking(p) /\ Asking(p)' /\ claims'[p] = Nobody)
                => \/ window[w] = "dead"
                   \/ Read(w, [kind |-> "release", prompt |-> p])
                   \/ \E v \in Window \ {w} : Read(v, [kind |-> "claim", prompt |-> p])
<1>1. HubInv /\ [Next]_vars => KeptNow
  <2> SUFFICES ASSUME HubInv, [Next]_vars, NEW p \in Prompt, NEW w \in Window,
                      claims[p] = w, Asking(p)', claims'[p] = Nobody
               PROVE  \/ window[w] = "dead"
                      \/ Read(w, [kind |-> "release", prompt |-> p])
                      \/ \E v \in Window \ {w} : Read(v, [kind |-> "claim", prompt |-> p])
    OBVIOUS
  <2>1. HubInv' /\ ClaimsEnd
    BY ViewsAssumption, HubNext
  <2>2. w # Nobody /\ Of[p] \in Cast
    BY ViewsAssumption DEF ViewsAssumption
  <2>3. views'[Of[p]] # NoView /\ p \in Prompts(views'[Of[p]])
    BY DEF Asking
  <2>4. IsWaiting(views'[Of[p]].waiting)
    BY <2>1, <2>2, <2>3 DEF HubInv, HubSide, IsViews, IsView
  <2>5. \E v : ShowsIn(views', p, v)
    BY <2>3, <2>4, PromptsShown DEF ShowsIn
  <2> QED BY <2>1, <2>2, <2>5 DEF ClaimsEnd
<1>2. HubInv /\ [Next]_vars => [KeptNow]_vars
  BY <1>1
<1> QED BY <1>2, HubInvHolds, PTL DEF Spec, ClaimKept

-----------------------------------------------------------------------------
(* What a window is sent, one message after the other.                     *)

LEMMA LeastIn ==
    ASSUME NEW S \in SUBSET Nat, S # {}
    PROVE  \E i \in S : \A j \in S : i <= j
<1>1. PICK i \in S : \A j \in S : ~(<<j, i>> \in OpToRel(<, Nat))
  BY NatLessThanWellFounded, WFMin
<1>2. \A j \in S : ~(j < i)
  BY <1>1 DEF OpToRel
<1>3. i \in Nat /\ S \subseteq Nat
  OBVIOUS
<1> QED BY <1>2, <1>3

AppliedNext(vs, s, f, n) == IF n = 0 THEN vs ELSE Applied(f[n - 1], s[n])

LEMMA AppliedThere ==
    ASSUME NEW vs, NEW s, NEW m \in Nat
    PROVE  \E f : f = [n \in 0..m |-> AppliedNext(vs, s, f, n)]
<1> DEFINE Goes(f, k) == f = [n \in 0..k |-> AppliedNext(vs, s, f, n)]
           S == {k \in Nat : ~\E f : Goes(f, k)}
<1> SUFFICES ASSUME S # {} PROVE FALSE
  OBVIOUS
<1>1. PICK k \in S : \A j \in S : k <= j
  <2>1. S \in SUBSET Nat
    OBVIOUS
  <2> HIDE DEF S
  <2> QED BY <2>1, LeastIn
<1>2. k \in Nat /\ ~\E f : Goes(f, k)
  OBVIOUS
<1>3. k # 0
  <2>1. Goes([n \in 0..0 |-> vs], 0)
    BY DEF AppliedNext
  <2> QED BY <2>1, <1>2
<1>4. PICK f : Goes(f, k - 1)
  <2>1. k - 1 \in Nat /\ ~(k <= k - 1)
    BY <1>2, <1>3
  <2>2. k - 1 \notin S
    BY <2>1, <1>1
  <2> QED BY <2>1, <2>2
<1> DEFINE g == [n \in 0..k |-> IF n < k THEN f[n] ELSE AppliedNext(vs, s, f, k)]
<1>5. Goes(g, k)
  <2> SUFFICES ASSUME NEW n \in 0..k PROVE g[n] = AppliedNext(vs, s, g, n)
    OBVIOUS
  <2>1. n # 0 => n - 1 \in 0..k - 1 /\ g[n - 1] = f[n - 1]
    BY <1>2
  <2>2. CASE n < k
    <3>1. n \in 0..k - 1
      BY <2>2, <1>2
    <3>2. f[n] = AppliedNext(vs, s, f, n)
      BY <3>1, <1>4
    <3> QED BY <3>1, <3>2, <2>1 DEF AppliedNext
  <2>3. CASE n = k
    BY <2>3, <2>1, <1>2, <1>3 DEF AppliedNext
  <2> QED BY <2>2, <2>3, <1>2
<1> QED BY <1>2, <1>5

(* The views after each message, up to the last.                           *)
Steps(vs, s, f) == f[0] = vs /\ \A n \in 1..Len(s) : f[n] = Applied(f[n - 1], s[n])

LEMMA AllAppliedSteps ==
    ASSUME NEW vs, NEW s, Len(s) \in Nat
    PROVE  \E f : Steps(vs, s, f) /\ AllApplied(vs, s) = f[Len(s)]
<1> DEFINE F == CHOOSE f : f = [n \in 0..Len(s) |-> IF n = 0 THEN vs ELSE Applied(f[n - 1], s[n])]
<1>1. \E f : f = [n \in 0..Len(s) |-> IF n = 0 THEN vs ELSE Applied(f[n - 1], s[n])]
  <2>1. PICK f : f = [n \in 0..Len(s) |-> AppliedNext(vs, s, f, n)]
    BY AppliedThere
  <2> QED BY <2>1 DEF AppliedNext
<1>2. F = [n \in 0..Len(s) |-> IF n = 0 THEN vs ELSE Applied(F[n - 1], s[n])]
  BY <1>1
<1>3. AllApplied(vs, s) = F[Len(s)]
  BY DEF AllApplied
<1> HIDE DEF F
<1>4. Steps(vs, s, F)
  BY <1>2 DEF Steps
<1> QED BY <1>3, <1>4

LEMMA StepsAlone ==
    ASSUME NEW vs, NEW s, Len(s) \in Nat, NEW f, Steps(vs, s, f)
    PROVE  AllApplied(vs, s) = f[Len(s)]
<1>1. PICK g : Steps(vs, s, g) /\ AllApplied(vs, s) = g[Len(s)]
  BY AllAppliedSteps
<1> DEFINE S == {n \in 0..Len(s) : f[n] # g[n]}
<1>2. S = {}
  <2> SUFFICES ASSUME S # {} PROVE FALSE
    OBVIOUS
  <2>1. PICK k \in S : \A j \in S : k <= j
    <3>1. S \in SUBSET Nat
      OBVIOUS
    <3> HIDE DEF S
    <3> QED BY <3>1, LeastIn
  <2>2. k \in 0..Len(s) /\ f[k] # g[k]
    OBVIOUS
  <2>3. k # 0
    BY <2>2, <1>1 DEF Steps
  <2>4. k \in 1..Len(s) /\ k - 1 \in 0..Len(s) /\ ~(k <= k - 1)
    BY <2>2, <2>3
  <2>5. f[k - 1] = g[k - 1]
    BY <2>1, <2>4
  <2> QED BY <2>2, <2>4, <2>5, <1>1 DEF Steps
<1> QED BY <1>1, <1>2

LEMMA AllOfNone ==
    ASSUME NEW vs
    PROVE  AllApplied(vs, <<>>) = vs
<1> DEFINE f == [n \in {0} |-> vs]
<1>1. Len(<<>>) = 0 /\ Steps(vs, <<>>, f)
  BY DEF Steps
<1> QED BY <1>1, StepsAlone

LEMMA AllOfOne ==
    ASSUME NEW vs, NEW m
    PROVE  AllApplied(vs, <<m>>) = Applied(vs, m)
<1> DEFINE f == [n \in 0..1 |-> IF n = 0 THEN vs ELSE Applied(vs, m)]
<1>1. Len(<<m>>) = 1 /\ <<m>>[1] = m
  OBVIOUS
<1>2. Steps(vs, <<m>>, f) /\ f[1] = Applied(vs, m)
  BY <1>1 DEF Steps
<1> HIDE DEF f
<1> QED BY <1>1, <1>2, StepsAlone

LEMMA AllOfBoth ==
    ASSUME NEW vs, NEW M, NEW s \in Seq(M), NEW t \in Seq(M)
    PROVE  AllApplied(vs, s \o t) = AllApplied(AllApplied(vs, s), t)
<1>1. Len(s) \in Nat /\ Len(t) \in Nat
  BY LenProperties
<1>2. PICK f : Steps(vs, s, f) /\ AllApplied(vs, s) = f[Len(s)]
  BY <1>1, AllAppliedSteps
<1>3. PICK g : Steps(f[Len(s)], t, g) /\ AllApplied(f[Len(s)], t) = g[Len(t)]
  BY <1>1, AllAppliedSteps
<1>4. PICK u : u = s \o t
  OBVIOUS
<1>5. /\ Len(u) = Len(s) + Len(t)
      /\ \A i \in 1..Len(s) + Len(t) : u[i] = IF i <= Len(s) THEN s[i] ELSE t[i - Len(s)]
  BY <1>4, ConcatProperties
<1>6. PICK k \in Nat, l \in Nat : k = Len(s) /\ l = Len(t)
  BY <1>1
<1> DEFINE h == [n \in 0..k + l |-> IF n <= k THEN f[n] ELSE g[n - k]]
<1>7. /\ f[0] = vs /\ (\A n \in 1..k : f[n] = Applied(f[n - 1], s[n]))
      /\ g[0] = f[k] /\ (\A n \in 1..l : g[n] = Applied(g[n - 1], t[n]))
  BY <1>2, <1>3, <1>6 DEF Steps
<1>8. ASSUME NEW n \in 1..k + l PROVE h[n] = Applied(h[n - 1], u[n])
  <2>1. CASE n <= k
    <3>1. n \in 1..k /\ n - 1 <= k /\ n - 1 \in 0..k + l /\ u[n] = s[n]
      BY <2>1, <1>5, <1>6
    <3> QED BY <3>1, <2>1, <1>7
  <2>2. CASE ~(n <= k)
    <3>1. n - k \in 1..l /\ n - 1 \in 0..k + l /\ u[n] = t[n - k] /\ n - k - 1 = n - 1 - k
      BY <2>2, <1>5, <1>6
    <3>2. h[n - 1] = g[n - k - 1]
      <4>1. CASE n - 1 <= k
        <5>1. n - 1 = k /\ n - k - 1 = 0
          BY <4>1, <2>2
        <5> QED BY <5>1, <3>1, <1>7
      <4>2. CASE ~(n - 1 <= k)
        BY <4>2, <3>1
      <4> QED BY <4>1, <4>2
    <3> QED BY <3>1, <3>2, <2>2, <1>7
  <2> QED BY <2>1, <2>2
<1>9. Steps(vs, u, h) /\ h[k + l] = g[l]
  <2>1. h[0] = vs
    BY <1>7
  <2>2. Len(u) = k + l
    BY <1>5, <1>6
  <2>3. h[k + l] = g[l]
    <3>1. CASE l = 0
      BY <3>1, <1>7
    <3>2. CASE l # 0
      <4>1. ~(k + l <= k) /\ k + l - k = l
        BY <3>2
      <4> QED BY <4>1
    <3> QED BY <3>1, <3>2
  <2> HIDE DEF h
  <2> QED BY <2>1, <2>2, <2>3, <1>8 DEF Steps
<1> HIDE DEF h
<1>10. Len(u) \in Nat
  BY <1>5, <1>6
<1>11. AllApplied(vs, u) = h[Len(u)]
  BY ONLY <1>9, <1>10, StepsAlone
<1> QED BY <1>2, <1>3, <1>4, <1>5, <1>6, <1>9, <1>11

(* Sequences in a sequence, joined from the first on.                      *)
JoinedNext(ss, f, n) == IF n = 1 THEN ss[n] ELSE f[n - 1] \o ss[n]

LEMMA JoinedThere ==
    ASSUME NEW ss, NEW m \in Nat
    PROVE  \E f : f = [n \in 1..m |-> JoinedNext(ss, f, n)]
<1> DEFINE Goes(f, k) == f = [n \in 1..k |-> JoinedNext(ss, f, n)]
           S == {k \in Nat : ~\E f : Goes(f, k)}
<1> SUFFICES ASSUME S # {} PROVE FALSE
  OBVIOUS
<1>1. PICK k \in S : \A j \in S : k <= j
  <2>1. S \in SUBSET Nat
    OBVIOUS
  <2> HIDE DEF S
  <2> QED BY <2>1, LeastIn
<1>2. k \in Nat /\ ~\E f : Goes(f, k)
  OBVIOUS
<1>3. k # 0
  <2>1. Goes([n \in 1..0 |-> ss], 0)
    OBVIOUS
  <2> QED BY <2>1, <1>2
<1>4. PICK f : Goes(f, k - 1)
  <2>1. k - 1 \in Nat /\ ~(k <= k - 1)
    BY <1>2, <1>3
  <2>2. k - 1 \notin S
    BY <2>1, <1>1
  <2> QED BY <2>1, <2>2
<1> DEFINE g == [n \in 1..k |-> IF n < k THEN f[n] ELSE JoinedNext(ss, f, k)]
<1>5. Goes(g, k)
  <2> SUFFICES ASSUME NEW n \in 1..k PROVE g[n] = JoinedNext(ss, g, n)
    OBVIOUS
  <2>1. n # 1 => n - 1 \in 1..k - 1 /\ g[n - 1] = f[n - 1]
    BY <1>2
  <2>2. CASE n < k
    <3>1. n \in 1..k - 1
      BY <2>2, <1>2
    <3>2. f[n] = JoinedNext(ss, f, n)
      BY <3>1, <1>4
    <3> QED BY <3>1, <3>2, <2>1 DEF JoinedNext
  <2>3. CASE n = k
    BY <2>3, <2>1, <1>2, <1>3 DEF JoinedNext
  <2> QED BY <2>2, <2>3, <1>2
<1> QED BY <1>2, <1>5

(* The views after each of the sequences, up to the last.                  *)
LEMMA InStages ==
    ASSUME NEW M, NEW ss \in Seq(Seq(M)), NEW f,
           \A k \in 1..Len(ss) : AllApplied(f[k - 1], ss[k]) = f[k]
    PROVE  FlattenSeq(ss) \in Seq(M) /\ AllApplied(f[0], FlattenSeq(ss)) = f[Len(ss)]
<1>1. Len(ss) \in Nat /\ \A i \in 1..Len(ss) : ss[i] \in Seq(M)
  BY LenProperties, ElementOfSeq
<1>2. CASE Len(ss) = 0
  <2>1. ss = <<>>
    BY <1>2, EmptySeq
  <2>2. FlattenSeq(ss) = <<>> /\ <<>> \in Seq(M)
    BY <1>2, <2>1 DEF FlattenSeq
  <2> QED BY <2>2, <1>2, AllOfNone
<1>3. CASE Len(ss) # 0
  <2> DEFINE F == CHOOSE g : g = [i \in 1..Len(ss) |-> IF i = 1 THEN ss[i] ELSE g[i - 1] \o ss[i]]
  <2>1. \E g : g = [i \in 1..Len(ss) |-> IF i = 1 THEN ss[i] ELSE g[i - 1] \o ss[i]]
    BY <1>1, JoinedThere DEF JoinedNext
  <2>2. F = [i \in 1..Len(ss) |-> IF i = 1 THEN ss[i] ELSE F[i - 1] \o ss[i]]
    BY <2>1
  <2>3. FlattenSeq(ss) = F[Len(ss)]
    BY <1>3 DEF FlattenSeq
  <2> HIDE DEF F
  <2> DEFINE S == {n \in 1..Len(ss) : ~(F[n] \in Seq(M) /\ AllApplied(f[0], F[n]) = f[n])}
  <2>4. S = {}
    <3> SUFFICES ASSUME S # {} PROVE FALSE
      OBVIOUS
    <3>1. PICK k \in S : \A j \in S : k <= j
      <4>1. S \in SUBSET Nat
        OBVIOUS
      <4> HIDE DEF S
      <4> QED BY <4>1, LeastIn
    <3>2. k \in 1..Len(ss) /\ ~(F[k] \in Seq(M) /\ AllApplied(f[0], F[k]) = f[k])
      OBVIOUS
    <3>3. ss[k] \in Seq(M) /\ AllApplied(f[k - 1], ss[k]) = f[k]
      BY <3>2, <1>1
    <3>4. CASE k = 1
      <4>1. F[k] = ss[k] /\ f[k - 1] = f[0]
        BY <3>2, <3>4, <2>2
      <4> QED BY <4>1, <3>2, <3>3
    <3>5. CASE k # 1
      <4>1. k - 1 \in 1..Len(ss) /\ ~(k <= k - 1)
        BY <3>2, <3>5, <1>1
      <4>2. F[k - 1] \in Seq(M) /\ AllApplied(f[0], F[k - 1]) = f[k - 1]
        BY <3>1, <4>1
      <4>3. F[k] = F[k - 1] \o ss[k]
        BY <3>2, <3>5, <2>2
      <4>4. PICK a, b : a = F[k - 1] /\ b = ss[k]
        OBVIOUS
      <4>5. a \in Seq(M) /\ b \in Seq(M) /\ F[k] = a \o b
        BY <4>2, <4>3, <4>4, <3>3
      <4>6. a \o b \in Seq(M) /\ AllApplied(f[0], a \o b) = AllApplied(AllApplied(f[0], a), b)
        BY ONLY <4>5, AllOfBoth, ConcatProperties
      <4> QED BY <4>2, <4>4, <4>5, <4>6, <3>2, <3>3
    <3> QED BY <3>4, <3>5
  <2>5. Len(ss) \in 1..Len(ss)
    BY <1>1, <1>3
  <2> QED BY <2>3, <2>4, <2>5
<1> QED BY <1>2, <1>3

-----------------------------------------------------------------------------
(* A window that attaches: what it is sent for one cast.                   *)

FullView == [status : Status, rites : [Rite -> RiteView], waiting : Seq(PromptView),
             onChildren : SUBSET Await, blocked : BOOLEAN]

Said == [kind : Kinds, cast : Cast, what : Prompt \cup Rite \cup Await \cup {Nobody},
         with : Window \cup {Nobody} \cup Status \cup Nat]

(* The view of a cast in the place of the one there was.                   *)
Put(vs, c, view) == [vs EXCEPT ![c] = view]

Running(rites, waiting, awaited) ==
    [status |-> "running", rites |-> rites, waiting |-> waiting,
     onChildren |-> awaited, blocked |-> FALSE]

NoRites == [r \in Rite |-> Nobody]

LEMMA FullViewIs ==
    ASSUME NEW view \in FullView
    PROVE  /\ view # NoView
           /\ DOMAIN view = {"status", "rites", "waiting", "onChildren", "blocked"}
           /\ view.status \in Status /\ view.rites \in [Rite -> RiteView]
           /\ view.waiting \in Seq(PromptView) /\ view.onChildren \subseteq Await
           /\ view.blocked \in BOOLEAN
           /\ view = [status |-> view.status, rites |-> view.rites, waiting |-> view.waiting,
                      onChildren |-> view.onChildren, blocked |-> view.blocked]
<1>1. /\ DOMAIN view = {"status", "rites", "waiting", "onChildren", "blocked"}
      /\ view = [status |-> view.status, rites |-> view.rites, waiting |-> view.waiting,
                 onChildren |-> view.onChildren, blocked |-> view.blocked]
      /\ view.status \in Status /\ view.rites \in [Rite -> RiteView]
      /\ view.waiting \in Seq(PromptView) /\ view.onChildren \subseteq Await
      /\ view.blocked \in BOOLEAN
  BY DEF FullView
<1>2. "rites" \in DOMAIN view /\ "rites" \notin DOMAIN NoView
  BY <1>1 DEF NoView
<1> QED BY <1>1, <1>2

LEMMA RunningIs ==
    ASSUME NEW ri \in [Rite -> RiteView], NEW wa \in Seq(PromptView), NEW aw \in SUBSET Await
    PROVE  LET new == Running(ri, wa, aw)
           IN  /\ new \in FullView /\ new # NoView
               /\ new.status = "running" /\ new.rites = ri /\ new.waiting = wa
               /\ new.onChildren = aw /\ new.blocked = FALSE
<1>1. Running(ri, wa, aw) \in FullView
  BY DEF Running, FullView, Status
<1> QED BY <1>1, FullViewIs DEF Running

LEMMA BareIs ==
    ASSUME NEW ri \in [Rite -> RiteView]
    PROVE  Running(ri, <<>>, {}) # NoView /\ Running(ri, <<>>, {}).rites = ri
<1>1. PICK wa, aw : wa = <<>> /\ aw = {}
  OBVIOUS
<1>2. wa \in Seq(PromptView) /\ aw \in SUBSET Await
  BY <1>1
<1>3. Running(ri, wa, aw) # NoView /\ Running(ri, wa, aw).rites = ri
  BY ONLY <1>2, RunningIs, ri \in [Rite -> RiteView]
<1> QED BY <1>1, <1>3

LEMMA PutIs ==
    ASSUME NEW vs, DOMAIN vs = Cast, NEW c \in Cast, NEW view
    PROVE  /\ DOMAIN Put(vs, c, view) = Cast /\ Put(vs, c, view)[c] = view
           /\ \A d \in Cast : d # c => Put(vs, c, view)[d] = vs[d]
           /\ \A more : Put(Put(vs, c, view), c, more) = Put(vs, c, more)
  BY DEF Put

(* A message to the view put there.                                        *)
LEMMA SaidAt ==
    ASSUME NEW vs, DOMAIN vs = Cast, NEW c \in Cast, NEW view, view # NoView,
           NEW m, m.cast = c, m.kind # "hello", ~Refused(view, m)
    PROVE  Applied(Put(vs, c, view), m) = Put(vs, c, Updated(view, m))
<1> DEFINE old == Put(vs, c, view)
<1>1. DOMAIN old = Cast /\ old[c] = view /\ \A more : Put(old, c, more) = Put(vs, c, more)
  BY PutIs
<1> HIDE DEF old
<1>2. Accepts(old, m)
  BY <1>1 DEF Accepts
<1>3. Applied(old, m) = [old EXCEPT ![c] = Updated(old[c], m)]
  BY <1>2 DEF Applied
<1>4. Applied(old, m) = Put(old, c, Updated(view, m))
  BY <1>1, <1>3 DEF Put
<1> QED BY <1>1, <1>4 DEF old

LEMMA HelloAt ==
    ASSUME NEW vs, DOMAIN vs = Cast, NEW c \in Cast
    PROVE  Applied(vs, Hello(c, "running")) = Put(vs, c, Running(NoRites, <<>>, {}))
<1> DEFINE m == Hello(c, "running")
<1>1. m.kind = "hello" /\ m.cast = c /\ m.with = "running"
  BY DEF Hello, Message
<1> HIDE DEF m
<1>2. Accepts(vs, m)
  BY <1>1 DEF Accepts
<1>3. [Fresh EXCEPT !.status = "running"] = Running(NoRites, <<>>, {})
  <2>1. PICK ri : ri = NoRites
    OBVIOUS
  <2>2. Fresh = Running(ri, <<>>, {})
    BY <2>1 DEF Fresh, NoRites, Running
  <2>3. PICK old \in FullView : old = Fresh /\ old.status = "running"
    <3>1. PICK wa, aw : wa = <<>> /\ aw = {}
      OBVIOUS
    <3>2. wa \in Seq(PromptView) /\ aw \in SUBSET Await /\ ri \in [Rite -> RiteView]
      BY <2>1, <3>1 DEF NoRites, RiteView
    <3>3. Running(ri, wa, aw) \in FullView /\ Running(ri, wa, aw).status = "running"
      BY <3>2 DEF Running, FullView, Status
    <3> QED BY <2>2, <3>1, <3>3
  <2>4. [old EXCEPT !.status = "running"] = old
    BY <2>3 DEF FullView
  <2> QED BY <2>1, <2>2, <2>3, <2>4
<1>4. Applied(vs, m) = [vs EXCEPT ![c] = [Fresh EXCEPT !.status = "running"]]
  BY <1>1, <1>2 DEF Applied
<1> QED BY <1>3, <1>4 DEF Put, m

(* One rite's messages.                                                    *)
LEMMA RiteSaid ==
    ASSUME NEW vs, DOMAIN vs = Cast, NEW c \in Cast, NEW view \in FullView,
           NEW r \in Rite, NEW ri \in [Rite -> RiteView], ri[r] = Nobody,
           NEW with, with = [ri EXCEPT ![r] = view.rites[r]]
    PROVE  /\ ReplayRite(c, view, r) \in Seq(Said)
           /\ AllApplied(Put(vs, c, Running(ri, <<>>, {})), ReplayRite(c, view, r))
              = Put(vs, c, Running(with, <<>>, {}))
<1>1. view.rites[r] \in RiteView
  BY FullViewIs
<1>2. CASE view.rites[r] = Nobody
  <2>1. ReplayRite(c, view, r) = <<>> /\ <<>> \in Seq(Said)
    BY <1>2 DEF ReplayRite
  <2>2. with = ri
    BY <1>2
  <2> QED BY <2>1, <2>2, AllOfNone
<1>3. CASE view.rites[r] # Nobody
  <2> DEFINE n == view.rites[r].lines
             done == view.rites[r].finished
             With(l, e) == Running([ri EXCEPT ![r] = [lines |-> l, finished |-> e]], <<>>, {})
             a == Message("started", c, r, Nobody)
             b == Message("delta", c, r, n)
             e == Message("finished", c, r, Nobody)
             more == IF n > 0 THEN <<b>> ELSE <<>>
             last == IF done THEN <<e>> ELSE <<>>
  <2>1. /\ n \in 0..DeltaLines /\ done \in BOOLEAN /\ DeltaLines \in Nat \ {0}
        /\ view.rites[r] = [lines |-> n, finished |-> done]
    BY <1>1, <1>3, ViewsAssumption DEF RiteView
  <2>2. ReplayRite(c, view, r) = (<<a>> \o more) \o last
    BY <1>3 DEF ReplayRite
  <2>3. /\ a \in Said /\ a.kind = "started" /\ a.what = r /\ a.cast = c
        /\ b \in Said /\ b.kind = "delta" /\ b.what = r /\ b.cast = c /\ b.with = n
        /\ e \in Said /\ e.kind = "finished" /\ e.what = r /\ e.cast = c
    BY <2>1 DEF Message, Said, Kinds
  <2> HIDE DEF n, done, a, b, e
  <2>4. /\ <<a>> \in Seq(Said) /\ more \in Seq(Said) /\ last \in Seq(Said)
        /\ <<a>> \o more \in Seq(Said)
    <3>1. <<a>> \in Seq(Said) /\ more \in Seq(Said) /\ last \in Seq(Said)
      BY <2>3
    <3> HIDE DEF more, last
    <3> QED BY <3>1, ConcatProperties
  <2>5. ASSUME NEW l \in 0..DeltaLines, NEW f \in BOOLEAN
        PROVE  /\ [ri EXCEPT ![r] = [lines |-> l, finished |-> f]] \in [Rite -> RiteView]
               /\ [ri EXCEPT ![r] = [lines |-> l, finished |-> f]][r] = [lines |-> l, finished |-> f]
               /\ [lines |-> l, finished |-> f] # Nobody
    <3>1. [lines |-> l, finished |-> f] \in [lines : 0..DeltaLines, finished : BOOLEAN]
      OBVIOUS
    <3> QED BY <3>1, ViewsAssumption DEF RiteView
  <2>6. ASSUME NEW l \in 0..DeltaLines, NEW f \in BOOLEAN
        PROVE  /\ With(l, f) # NoView /\ With(l, f).rites[r] = [lines |-> l, finished |-> f]
               /\ With(l, f).rites[r] # Nobody
    <3>1. PICK rj \in [Rite -> RiteView] :
            rj = [ri EXCEPT ![r] = [lines |-> l, finished |-> f]] /\ rj[r] = [lines |-> l, finished |-> f]
      BY <2>5
    <3>2. Running(rj, <<>>, {}) # NoView /\ Running(rj, <<>>, {}).rites = rj
      BY BareIs
    <3> QED BY <2>5, <3>1, <3>2
  <2>7. Applied(Put(vs, c, Running(ri, <<>>, {})), a) = Put(vs, c, With(0, FALSE))
    <3> DEFINE old == Running(ri, <<>>, {})
    <3>1. old # NoView /\ old.rites = ri
      BY BareIs
    <3>2. ~Refused(old, a)
      BY <2>3 DEF Refused
    <3>3. Updated(old, a) = With(0, FALSE)
      BY <2>3 DEF Updated, Running
    <3> HIDE DEF old
    <3> QED BY <2>3, <3>1, <3>2, <3>3, SaidAt DEF old
  <2>8. n > 0 => Applied(Put(vs, c, With(0, FALSE)), b) = Put(vs, c, With(n, FALSE))
    <3> SUFFICES ASSUME n > 0 PROVE Applied(Put(vs, c, With(0, FALSE)), b) = Put(vs, c, With(n, FALSE))
      OBVIOUS
    <3> DEFINE old == With(0, FALSE)
    <3>1. old # NoView /\ old.rites[r] = [lines |-> 0, finished |-> FALSE] /\ old.rites[r] # Nobody
      <4>1. 0 \in 0..DeltaLines /\ FALSE \in BOOLEAN
        BY <2>1
      <4> HIDE DEF With
      <4> QED BY <4>1, <2>6
    <3>2. ~Refused(old, b)
      BY <2>3, <3>1 DEF Refused
    <3>3. Kept(0 + n) = n
      BY <2>1 DEF Kept
    <3>4. Updated(old, b) = With(n, FALSE)
      BY <2>3, <2>5, <3>3 DEF Updated, Running
    <3> HIDE DEF old
    <3> QED BY <2>3, <3>1, <3>2, <3>4, SaidAt DEF old
  <2>9. done => Applied(Put(vs, c, With(n, FALSE)), e) = Put(vs, c, With(n, TRUE))
    <3> SUFFICES ASSUME done PROVE Applied(Put(vs, c, With(n, FALSE)), e) = Put(vs, c, With(n, TRUE))
      OBVIOUS
    <3> DEFINE old == With(n, FALSE)
    <3>1. old # NoView /\ old.rites[r] = [lines |-> n, finished |-> FALSE] /\ old.rites[r] # Nobody
      BY <2>1, <2>6
    <3>2. ~Refused(old, e)
      BY <2>3, <3>1 DEF Refused
    <3>3. Updated(old, e) = With(n, TRUE)
      BY <2>1, <2>3, <2>5 DEF Updated, Running
    <3> HIDE DEF old
    <3> QED BY <2>3, <3>1, <3>2, <3>3, SaidAt DEF old
  <2>10. With(n, done) = Running(with, <<>>, {})
    BY <2>1
  <2> HIDE DEF With
  <2>11. AllApplied(Put(vs, c, Running(ri, <<>>, {})), <<a>>) = Put(vs, c, With(0, FALSE))
    BY <2>7, AllOfOne
  <2>12. AllApplied(Put(vs, c, With(0, FALSE)), more) = Put(vs, c, With(n, FALSE))
    <3>1. CASE n > 0
      BY <2>8, <3>1, AllOfOne
    <3>2. CASE ~(n > 0)
      <4>1. n = 0
        BY <2>1, <3>2
      <4> QED BY <4>1, <3>2, AllOfNone
    <3> QED BY <3>1, <3>2
  <2>13. AllApplied(Put(vs, c, With(n, FALSE)), last) = Put(vs, c, With(n, done))
    <3>1. CASE done
      BY <2>1, <2>9, <3>1, AllOfOne
    <3>2. CASE ~done
      BY <2>1, <3>2, AllOfNone
    <3> QED BY <3>1, <3>2
  <2> HIDE DEF more, last
  <2>14. AllApplied(Put(vs, c, Running(ri, <<>>, {})), (<<a>> \o more) \o last)
         = Put(vs, c, With(n, done))
    <3>1. PICK s \in Seq(Said), t \in Seq(Said), u \in Seq(Said) : s = <<a>> /\ t = more /\ u = last
      BY <2>4
    <3>2. s \o t \in Seq(Said)
      BY <2>4, <3>1
    <3>3. PICK p : p = Put(vs, c, Running(ri, <<>>, {}))
      OBVIOUS
    <3>4. AllApplied(p, s \o t) = AllApplied(AllApplied(p, s), t)
      BY ONLY AllOfBoth, s \in Seq(Said), t \in Seq(Said)
    <3>5. AllApplied(p, (s \o t) \o u) = AllApplied(AllApplied(p, s \o t), u)
      <4>1. PICK st \in Seq(Said) : st = s \o t
        BY <3>2
      <4>2. AllApplied(p, st \o u) = AllApplied(AllApplied(p, st), u)
        BY ONLY AllOfBoth, st \in Seq(Said), u \in Seq(Said)
      <4> QED BY <4>1, <4>2
    <3> QED BY <2>11, <2>12, <2>13, <3>1, <3>3, <3>4, <3>5
  <2>15. (<<a>> \o more) \o last \in Seq(Said)
    BY <2>4, ConcatProperties
  <2> QED BY <2>2, <2>10, <2>14, <2>15
<1> QED BY <1>2, <1>3

(* The rites, one after the other.                                         *)
RitesSaid(c, view) ==
    FlattenSeq([i \in 1..Cardinality(Rite) |-> ReplayRite(c, view, SetToSeq(Rite)[i])])

LEMMA ListIs ==
    ASSUME NEW S, NEW n \in Nat, NEW l \in [1..n -> S]
    PROVE  l \in Seq(S) /\ Len(l) = n
<1>1. l \in Seq(S)
  BY SeqDef
<1>2. Len(l) \in Nat /\ DOMAIN l = 1..Len(l) /\ DOMAIN l = 1..n
  BY <1>1, LenProperties
<1>3. PICK m \in Nat : m = Len(l)
  BY <1>2
<1>4. 1..m = 1..n
  BY <1>2, <1>3
<1>5. m <= n
  BY <1>4
<1>6. n <= m
  BY <1>4
<1> QED BY <1>1, <1>3, <1>5, <1>6

LEMMA ListedOnce ==
    ASSUME NEW S, IsFiniteSet(S)
    PROVE  LET l == SetToSeq(S)
           IN  /\ l \in Seq(S) /\ Len(l) = Cardinality(S) /\ Cardinality(S) \in Nat
               /\ \A i \in 1..Len(l) : l[i] \in S
               /\ \A i, j \in 1..Len(l) : l[i] = l[j] => i = j
               /\ \A x \in S : \E i \in 1..Len(l) : l[i] = x
<1> DEFINE n == Cardinality(S)
           l == SetToSeq(S)
<1>1. n \in Nat /\ ExistsBijection(1..n, S)
  BY FS_CardinalityType
<1>2. \E g \in [1..n -> S] : IsInjective(g)
  BY <1>1 DEF ExistsBijection, Bijection, Injection
<1>3. l \in [1..n -> S] /\ IsInjective(l)
  BY <1>2 DEF SetToSeq
<1> HIDE DEF l, n
<1>4. l \in Seq(S) /\ Len(l) = n
  BY <1>1, <1>3, ListIs
<1>5. l \in Injection(1..n, S)
  BY <1>3 DEF Injection
<1>6. IsFiniteSet(1..n) /\ Cardinality(1..n) = n
  BY <1>1, FS_Interval
<1>7. l \in Surjection(1..n, S)
  BY <1>5, <1>6, FS_Injection DEF n
<1>8. \A x \in S : \E i \in 1..n : l[i] = x
  BY <1>7 DEF Surjection
<1> QED BY <1>1, <1>3, <1>4, <1>8 DEF IsInjective, l, n

LEMMA RitesAllSaid ==
    ASSUME NEW vs, DOMAIN vs = Cast, NEW c \in Cast, NEW view \in FullView
    PROVE  /\ RitesSaid(c, view) \in Seq(Said)
           /\ AllApplied(Put(vs, c, Running(NoRites, <<>>, {})), RitesSaid(c, view))
              = Put(vs, c, Running(view.rites, <<>>, {}))
<1> DEFINE n == Cardinality(Rite)
           l == SetToSeq(Rite)
           upTo(k) == [r \in Rite |-> IF \E i \in 1..k : l[i] = r THEN view.rites[r] ELSE Nobody]
           ss == [i \in 1..n |-> ReplayRite(c, view, l[i])]
           f == [k \in 0..n |-> Put(vs, c, Running(upTo(k), <<>>, {}))]
<1>1. /\ Len(l) = n /\ n \in Nat
      /\ \A i \in 1..n : l[i] \in Rite
      /\ \A i, j \in 1..n : l[i] = l[j] => i = j
      /\ \A r \in Rite : \E i \in 1..n : l[i] = r
  BY ListedOnce, ViewsAssumption
<1> HIDE DEF n, l
<1>2. view.rites \in [Rite -> RiteView] /\ Nobody \in RiteView
  BY FullViewIs DEF RiteView
<1>3. \A k \in 0..n : upTo(k) \in [Rite -> RiteView]
  BY <1>2
<1>4. ASSUME NEW k \in 1..n
      PROVE  /\ l[k] \in Rite /\ k - 1 \in 0..n /\ k \in 0..n
             /\ upTo(k - 1)[l[k]] = Nobody
             /\ upTo(k) = [upTo(k - 1) EXCEPT ![l[k]] = view.rites[l[k]]]
  <2>1. l[k] \in Rite /\ k - 1 \in 0..n /\ k \in 0..n /\ k \in Nat
    BY <1>1
  <2>2. \A i \in 1..k - 1 : l[i] # l[k]
    BY <1>1, <2>1
  <2>3. \A i \in 1..k : i = k \/ i \in 1..k - 1
    BY <2>1
  <2>4. \A i \in 1..k - 1 : i \in 1..k
    BY <2>1
  <2>5. ASSUME NEW r \in Rite
        PROVE  upTo(k)[r] = IF r = l[k] THEN view.rites[r] ELSE upTo(k - 1)[r]
    <3>1. CASE r = l[k]
      <4>1. k \in 1..k
        BY <2>1
      <4> QED BY <3>1, <4>1
    <3>2. CASE r # l[k]
      <4>1. (\E i \in 1..k : l[i] = r) <=> \E i \in 1..k - 1 : l[i] = r
        BY <3>2, <2>3, <2>4
      <4> QED BY <3>2, <4>1
    <3> QED BY <3>1, <3>2
  <2>6. upTo(k - 1)[l[k]] = Nobody
    BY <2>1, <2>2
  <2> QED BY <2>1, <2>5, <2>6
<1>5. ASSUME NEW k \in 1..n
      PROVE  ss[k] \in Seq(Said) /\ AllApplied(f[k - 1], ss[k]) = f[k]
  <2>1. PICK ri \in [Rite -> RiteView], r \in Rite, with \in {upTo(k)} :
          /\ ri = upTo(k - 1) /\ r = l[k] /\ ri[r] = Nobody
          /\ with = upTo(k) /\ with = [ri EXCEPT ![r] = view.rites[r]]
    <3> HIDE DEF upTo
    <3>1. k - 1 \in 0..n /\ upTo(k - 1) \in [Rite -> RiteView]
      BY <1>3, <1>4
    <3> QED BY <3>1, <1>4
  <2>2. /\ ReplayRite(c, view, r) \in Seq(Said)
        /\ AllApplied(Put(vs, c, Running(ri, <<>>, {})), ReplayRite(c, view, r))
           = Put(vs, c, Running(with, <<>>, {}))
    <3>1. ri[r] = Nobody /\ with = [ri EXCEPT ![r] = view.rites[r]]
      BY <2>1
    <3> QED BY ONLY DOMAIN vs = Cast, <3>1, RiteSaid, c \in Cast, view \in FullView,
                    r \in Rite, ri \in [Rite -> RiteView]
  <2>3. /\ f[k - 1] = Put(vs, c, Running(ri, <<>>, {})) /\ ss[k] = ReplayRite(c, view, r)
        /\ f[k] = Put(vs, c, Running(with, <<>>, {}))
    <3> HIDE DEF upTo
    <3> QED BY <1>4, <2>1
  <2> QED BY <2>2, <2>3
<1>6. f[0] = Put(vs, c, Running(NoRites, <<>>, {}))
  <2>1. upTo(0) = NoRites
    BY DEF NoRites
  <2> HIDE DEF upTo
  <2> QED BY <2>1, <1>1
<1>7. f[n] = Put(vs, c, Running(view.rites, <<>>, {}))
  <2>1. upTo(n) = view.rites
    BY <1>1, <1>2
  <2> HIDE DEF upTo
  <2> QED BY <2>1, <1>1
<1>8. ss \in Seq(Seq(Said)) /\ Len(ss) = n
  <2>1. ss \in [1..n -> Seq(Said)]
    BY <1>5
  <2> HIDE DEF ss
  <2> QED BY <2>1, <1>1, ListIs
<1>9. RitesSaid(c, view) = FlattenSeq(ss)
  BY DEF RitesSaid, n, l
<1> HIDE DEF ss, f
<1> QED BY <1>5, <1>6, <1>7, <1>8, <1>9, InStages

(* The prompts, each with its claim.                                       *)
Ahead(waiting, k) == [i \in 1..k |-> waiting[i]]

LEMMA AheadIs ==
    ASSUME NEW w \in Seq(PromptView)
    PROVE  /\ Len(w) \in Nat /\ \A i \in 1..Len(w) : w[i] \in PromptView
           /\ \A k \in 0..Len(w) : Ahead(w, k) \in Seq(PromptView) /\ Len(Ahead(w, k)) = k
           /\ Ahead(w, 0) = <<>> /\ Ahead(w, Len(w)) = w
<1>1. /\ Len(w) \in Nat /\ w \in [1..Len(w) -> PromptView]
  BY LenProperties
<1>2. ASSUME NEW k \in 0..Len(w)
      PROVE  Ahead(w, k) \in Seq(PromptView) /\ Len(Ahead(w, k)) = k
  <2>1. k \in Nat /\ Ahead(w, k) \in [1..k -> PromptView]
    BY <1>1 DEF Ahead
  <2> QED BY <2>1, ListIs
<1>3. Ahead(w, 0) = <<>>
  <2>1. 0 \in 0..Len(w)
    BY <1>1
  <2> QED BY <1>2, <2>1, EmptySeq
<1>4. Ahead(w, Len(w)) = w
  BY <1>1 DEF Ahead
<1> QED BY <1>1, <1>2, <1>3, <1>4

LEMMA PromptSaid ==
    ASSUME NEW vs, DOMAIN vs = Cast, NEW c \in Cast, NEW ri \in [Rite -> RiteView],
           NEW w \in Seq(PromptView), Apart(w), NEW k \in 1..Len(w), Of[w[k].prompt] = c
    PROVE  /\ ReplayPrompt(w[k]) \in Seq(Said)
           /\ AllApplied(Put(vs, c, Running(ri, Ahead(w, k - 1), {})), ReplayPrompt(w[k]))
              = Put(vs, c, Running(ri, Ahead(w, k), {}))
<1> DEFINE p == w[k].prompt
           held == w[k].claim
           old == Ahead(w, k - 1)
           bare == [prompt |-> p, claim |-> Nobody]
           more == Append(old, bare)
           a == Message("asked", Of[p], p, Nobody)
           b == Claimed(p, held)
           last == IF held # Nobody THEN <<b>> ELSE <<>>
<1>1. /\ Len(w) \in Nat /\ k \in Nat /\ k - 1 \in 0..Len(w) /\ k \in 0..Len(w)
      /\ w[k] \in PromptView /\ old \in Seq(PromptView) /\ Len(old) = k - 1
      /\ DOMAIN w = 1..Len(w)
  <2>1. Len(w) \in Nat /\ DOMAIN w = 1..Len(w)
    BY LenProperties
  <2>2. k \in Nat /\ k - 1 \in 0..Len(w) /\ k \in 0..Len(w)
    BY <2>1
  <2> QED BY <2>1, <2>2, AheadIs
<1>2. p \in Prompt /\ held \in Window \cup {Nobody} /\ w[k] = [prompt |-> p, claim |-> held]
  BY <1>1 DEF PromptView
<1>3. ReplayPrompt(w[k]) = <<a>> \o last
  BY <1>2 DEF ReplayPrompt
<1>4. /\ a \in Said /\ a.kind = "asked" /\ a.what = p /\ a.cast = c
      /\ b \in Said /\ b.kind = "claimed" /\ b.what = p /\ b.cast = c /\ b.with = held
  BY <1>2 DEF Message, Claimed, Said, Kinds
<1> HIDE DEF a, b
<1>5. <<a>> \in Seq(Said) /\ last \in Seq(Said)
  BY <1>4
<1>6. /\ \A i \in 1..k - 1 : old[i] = w[i] /\ old[i].prompt # p
      /\ DOMAIN old = 1..k - 1
  <2>1. DOMAIN old = 1..k - 1 /\ \A i \in 1..k - 1 : old[i] = w[i]
    BY DEF Ahead
  <2>2. ASSUME NEW i \in 1..k - 1 PROVE w[i].prompt # p
    <3>1. i \in 1..Len(w) /\ k \in 1..Len(w) /\ i # k
      BY <1>1
    <3> QED BY <1>1, <3>1 DEF Apart
  <2> QED BY <2>1, <2>2
<1>7. /\ more \in Seq(PromptView) /\ Len(more) = k /\ DOMAIN more = 1..k
      /\ \A i \in 1..k : more[i] = IF i = k THEN bare ELSE w[i]
  <2>1. bare \in PromptView
    BY <1>2 DEF PromptView
  <2> HIDE DEF old, bare
  <2>2. /\ more \in Seq(PromptView) /\ Len(more) = Len(old) + 1
        /\ \A i \in 1..Len(old) : more[i] = old[i]
        /\ more[Len(old) + 1] = bare
    BY <1>1, <2>1, AppendProperties
  <2> HIDE DEF more
  <2>3. DOMAIN more = 1..k /\ Len(more) = k
    BY <1>1, <2>2, LenProperties
  <2>4. ASSUME NEW i \in 1..k PROVE more[i] = IF i = k THEN bare ELSE w[i]
    <3>1. CASE i = k
      BY <1>1, <2>2, <3>1
    <3>2. CASE i # k
      <4>1. i \in 1..k - 1 /\ i \in 1..Len(old)
        BY <1>1, <3>2
      <4> QED BY <1>6, <2>2, <3>2, <4>1
    <3> QED BY <3>1, <3>2
  <2> QED BY <2>2, <2>3, <2>4
<1>8. WithPrompt(old, p) = more
  BY <1>6 DEF WithPrompt
<1> HIDE DEF old, more
<1>9. PICK none \in SUBSET Await : none = {}
  OBVIOUS
<1>10. Applied(Put(vs, c, Running(ri, old, none)), a) = Put(vs, c, Running(ri, more, none))
  <2> DEFINE view == Running(ri, old, none)
  <2>1. view # NoView /\ view.waiting = old
    BY <1>1, RunningIs
  <2>2. ~Refused(view, a)
    BY <1>4 DEF Refused
  <2>3. Updated(view, a) = Running(ri, more, none)
    BY <1>4, <1>8 DEF Updated, Running
  <2> HIDE DEF view
  <2> QED BY <1>4, <2>1, <2>2, <2>3, SaidAt DEF view
<1>11. AllApplied(Put(vs, c, Running(ri, more, none)), last) = Put(vs, c, Running(ri, Ahead(w, k), none))
  <2>1. CASE held = Nobody
    <3>1. more = Ahead(w, k)
      <4>1. DOMAIN more = DOMAIN Ahead(w, k) /\ \A i \in 1..k : Ahead(w, k)[i] = w[i]
        BY <1>7 DEF Ahead
      <4>2. more \in Seq(PromptView) /\ Ahead(w, k) \in Seq(PromptView) /\ Len(Ahead(w, k)) = k
        BY <1>1, <1>7, AheadIs
      <4>3. \A i \in 1..k : more[i] = Ahead(w, k)[i]
        BY <1>2, <1>7, <2>1, <4>1
      <4> QED BY <1>7, <4>2, <4>3, SeqEqual
    <3> QED BY <2>1, <3>1, AllOfNone
  <2>2. CASE held # Nobody
    <3> DEFINE view == Running(ri, more, none)
    <3>1. view # NoView /\ view.waiting = more
      <4>1. more \in Seq(PromptView)
        BY <1>7
      <4> QED BY <4>1, RunningIs
    <3>2. k \in DOMAIN more /\ more[k].prompt = p
      BY <1>1, <1>7
    <3>3. ~Refused(view, b)
      <4>1. p \in Prompts(view)
        BY <3>1, <3>2 DEF Prompts
      <4> QED BY <1>4, <4>1 DEF Refused
    <3>4. WithClaim(more, p, held) = Ahead(w, k)
      <4>1. \A i \in 1..k : (IF more[i].prompt = p THEN [more[i] EXCEPT !.claim = held] ELSE more[i]) = w[i]
        <5> SUFFICES ASSUME NEW i \in 1..k
                     PROVE  (IF more[i].prompt = p THEN [more[i] EXCEPT !.claim = held] ELSE more[i]) = w[i]
          OBVIOUS
        <5>1. CASE i = k
          <6>1. more[i] = bare /\ [bare EXCEPT !.claim = held] = [prompt |-> p, claim |-> held]
            BY <1>7, <5>1
          <6>2. more[i].prompt = p
            BY <6>1
          <6> QED BY <1>2, <5>1, <6>1, <6>2
        <5>2. CASE i # k
          <6>1. i \in 1..k - 1
            BY <1>1, <5>2
          <6>2. more[i] = w[i] /\ w[i].prompt # p
            BY <1>6, <1>7, <5>2, <6>1
          <6> QED BY <6>2
        <5> QED BY <5>1, <5>2
      <4> QED BY <1>7, <4>1 DEF WithClaim, Ahead
    <3>5. Updated(view, b) = Running(ri, Ahead(w, k), none)
      <4>1. Updated(view, b) = [view EXCEPT !.waiting = WithClaim(@, p, held)]
        BY <1>4 DEF Updated
      <4> QED BY <3>4, <4>1 DEF Running
    <3> HIDE DEF view
    <3>6. Applied(Put(vs, c, view), b) = Put(vs, c, Running(ri, Ahead(w, k), none))
      BY <1>4, <3>1, <3>3, <3>5, SaidAt
    <3> QED BY <2>2, <3>6, AllOfOne DEF view
  <2> QED BY <2>1, <2>2
<1> HIDE DEF last
<1>12. PICK s \in Seq(Said), t \in Seq(Said) : s = <<a>> /\ t = last
  BY <1>5
<1> DEFINE q == Put(vs, c, Running(ri, old, none))
<1> HIDE DEF q
<1>13. /\ AllApplied(q, s \o t) = AllApplied(AllApplied(q, s), t) /\ s \o t \in Seq(Said)
  BY ONLY AllOfBoth, ConcatProperties, s \in Seq(Said), t \in Seq(Said)
<1>14. AllApplied(q, s) = Put(vs, c, Running(ri, more, none))
  BY <1>10, <1>12, AllOfOne DEF q
<1> QED BY <1>3, <1>9, <1>11, <1>12, <1>13, <1>14 DEF old, q

LEMMA PromptsAllSaid ==
    ASSUME NEW vs, DOMAIN vs = Cast, NEW c \in Cast, NEW ri \in [Rite -> RiteView],
           NEW w \in Seq(PromptView), Apart(w), \A i \in 1..Len(w) : Of[w[i].prompt] = c
    PROVE  LET all == FlattenSeq([i \in DOMAIN w |-> ReplayPrompt(w[i])])
           IN  /\ all \in Seq(Said)
               /\ AllApplied(Put(vs, c, Running(ri, <<>>, {})), all)
                  = Put(vs, c, Running(ri, w, {}))
<1> DEFINE n == Len(w)
           ss == [i \in DOMAIN w |-> ReplayPrompt(w[i])]
           f == [k \in 0..n |-> Put(vs, c, Running(ri, Ahead(w, k), {}))]
<1>1. n \in Nat /\ DOMAIN w = 1..n
  BY LenProperties
<1>2. ASSUME NEW k \in 1..n
      PROVE  ss[k] \in Seq(Said) /\ AllApplied(f[k - 1], ss[k]) = f[k]
  <2>1. k - 1 \in 0..n /\ k \in 0..n
    BY <1>1
  <2>2. /\ ReplayPrompt(w[k]) \in Seq(Said)
        /\ AllApplied(Put(vs, c, Running(ri, Ahead(w, k - 1), {})), ReplayPrompt(w[k]))
              = Put(vs, c, Running(ri, Ahead(w, k), {}))
    BY PromptSaid
  <2> QED BY <1>1, <2>1, <2>2
<1>3. 0 \in 0..n /\ n \in 0..n
  BY <1>1
<1>4. f[0] = Put(vs, c, Running(ri, <<>>, {})) /\ f[n] = Put(vs, c, Running(ri, w, {}))
  BY <1>3, AheadIs
<1>5. ss \in Seq(Seq(Said)) /\ Len(ss) = n
  <2>1. ss \in [1..n -> Seq(Said)]
    BY <1>1, <1>2
  <2> HIDE DEF ss, n
  <2> QED BY <1>1, <2>1, ListIs
<1> HIDE DEF f, ss
<1>6. FlattenSeq(ss) \in Seq(Said) /\ AllApplied(f[0], FlattenSeq(ss)) = f[Len(ss)]
  BY <1>2, <1>5, InStages
<1> QED BY <1>4, <1>5, <1>6 DEF ss

(* The awaits, in whichever order.                                         *)
LEMMA AwaitsAllSaid ==
    ASSUME NEW vs, DOMAIN vs = Cast, NEW c \in Cast, NEW ri \in [Rite -> RiteView],
           NEW w \in Seq(PromptView), NEW ks \in SUBSET Await
    PROVE  LET all == SetToSeq({Message("awaits", c, k, Nobody) : k \in ks})
           IN  /\ all \in Seq(Said)
               /\ AllApplied(Put(vs, c, Running(ri, w, {})), all)
                  = Put(vs, c, Running(ri, w, ks))
<1> DEFINE S == {Message("awaits", c, k, Nobody) : k \in ks}
           l == SetToSeq(S)
           n == Len(l)
           upTo(j) == {l[i].what : i \in 1..j}
           f == [j \in 0..n |-> Put(vs, c, Running(ri, w, upTo(j)))]
<1>1. /\ IsFiniteSet(S) /\ S \subseteq Said
      /\ \A m \in S : m.kind = "awaits" /\ m.cast = c /\ m.what \in ks
      /\ \A k \in ks : \E m \in S : m.what = k
  <2>1. IsFiniteSet(ks)
    BY FS_Subset, ViewsAssumption
  <2>2. [k \in ks |-> Message("awaits", c, k, Nobody)] \in Surjection(ks, S)
    BY DEF Surjection
  <2>3. IsFiniteSet(S)
    <3> HIDE DEF S
    <3> QED BY <2>1, <2>2, FS_Surjection
  <2>4. \A m \in S : m.kind = "awaits" /\ m.cast = c /\ m.what \in ks
    BY DEF Message
  <2>5. S \subseteq Said
    BY DEF Message, Said, Kinds
  <2>6. ASSUME NEW k \in ks PROVE \E m \in S : m.what = k
    <3>1. Message("awaits", c, k, Nobody).what = k
      BY DEF Message
    <3> QED BY <3>1
  <2> QED BY <2>3, <2>4, <2>5, <2>6
<1> HIDE DEF S
<1>2. /\ n \in Nat /\ l \in Seq(S)
      /\ \A i \in 1..n : l[i] \in S
      /\ \A m \in S : \E i \in 1..n : l[i] = m
  BY <1>1, ListedOnce
<1>3. l \in Seq(Said)
  BY <1>1, <1>2, SeqMonotonic
<1> HIDE DEF l, n
<1>4. \A j \in 0..n : upTo(j) \subseteq Await
  <2> SUFFICES ASSUME NEW j \in 0..n, NEW i \in 1..j PROVE l[i].what \in Await
    OBVIOUS
  <2>1. i \in 1..n
    BY <1>2
  <2> QED BY <1>1, <1>2, <2>1
<1>5. ASSUME NEW j \in 1..n PROVE f[j] = Applied(f[j - 1], l[j])
  <2>1. j - 1 \in 0..n /\ j \in 0..n /\ l[j] \in S
    BY <1>2
  <2>2. PICK m \in S, before \in SUBSET Await :
          m = l[j] /\ before = upTo(j - 1) /\ upTo(j) = before \cup {m.what}
    <3>1. upTo(j) = upTo(j - 1) \cup {l[j].what}
      <4>1. 1..j = 1..j - 1 \cup {j}
        BY <2>1
      <4> QED BY <4>1
    <3>2. upTo(j - 1) \subseteq Await
      BY <1>4, <2>1
    <3> HIDE DEF upTo
    <3> QED BY <2>1, <3>1, <3>2
  <2> DEFINE view == Running(ri, w, before)
  <2>3. view # NoView /\ view.onChildren = before
    BY ONLY RunningIs, ri \in [Rite -> RiteView], w \in Seq(PromptView), before \in SUBSET Await
  <2>4. m.kind = "awaits" /\ m.cast = c
    BY <1>1
  <2>5. ~Refused(view, m)
    BY <2>4 DEF Refused
  <2>6. Updated(view, m) = Running(ri, w, before \cup {m.what})
    BY <2>4 DEF Updated, Running
  <2> HIDE DEF view
  <2>7. Applied(Put(vs, c, view), m) = Put(vs, c, Running(ri, w, before \cup {m.what}))
    BY <2>3, <2>4, <2>5, <2>6, SaidAt
  <2> HIDE DEF upTo
  <2> QED BY <2>1, <2>2, <2>7 DEF view
<1>6. f[0] = Put(vs, c, Running(ri, w, {})) /\ f[n] = Put(vs, c, Running(ri, w, ks))
  <2>1. 0 \in 0..n /\ n \in 0..n
    BY <1>2
  <2>2. upTo(0) = {}
    OBVIOUS
  <2>3. upTo(n) = ks
    BY <1>1, <1>2
  <2> HIDE DEF upTo
  <2> QED BY <2>1, <2>2, <2>3
<1> HIDE DEF f
<1>7. Len(l) = n /\ Steps(f[0], l, f)
  BY <1>5 DEF Steps, n
<1>8. AllApplied(f[0], l) = f[n]
  BY <1>2, <1>7, StepsAlone
<1> QED BY <1>3, <1>6, <1>8 DEF l, S

(* The end of a replay: how the cast stands.                               *)
LEMMA AllOfTwo ==
    ASSUME NEW vs, NEW m, NEW n
    PROVE  AllApplied(vs, <<m, n>>) = Applied(Applied(vs, m), n)
<1> DEFINE f == [k \in 0..2 |-> IF k = 0 THEN vs ELSE IF k = 1 THEN Applied(vs, m)
                                ELSE Applied(Applied(vs, m), n)]
<1>1. Len(<<m, n>>) = 2 /\ <<m, n>>[1] = m /\ <<m, n>>[2] = n
  OBVIOUS
<1>2. Steps(vs, <<m, n>>, f) /\ f[2] = Applied(Applied(vs, m), n)
  <2>1. f[0] = vs /\ f[1] = Applied(vs, m) /\ f[2] = Applied(Applied(vs, m), n)
    OBVIOUS
  <2> HIDE DEF f
  <2>2. ASSUME NEW k \in 1..2 PROVE f[k] = Applied(f[k - 1], <<m, n>>[k])
    <3>1. k = 1 \/ k = 2
      OBVIOUS
    <3>2. CASE k = 1
      BY <3>2, <2>1, <1>1
    <3>3. CASE k = 2
      BY <3>3, <2>1, <1>1
    <3> QED BY <3>1, <3>2, <3>3
  <2> QED BY <1>1, <2>1, <2>2 DEF Steps
<1> HIDE DEF f
<1> QED BY <1>1, <1>2, StepsAlone

Joined(s, t) == s \o t

LEMMA Chained ==
    ASSUME NEW M, NEW s \in Seq(M), NEW t \in Seq(M), NEW u
    PROVE  Joined(s, t) \in Seq(M) /\ AllApplied(u, Joined(s, t)) = AllApplied(AllApplied(u, s), t)
<1>1. AllApplied(u, s \o t) = AllApplied(AllApplied(u, s), t)
  BY ONLY AllOfBoth, s \in Seq(M), t \in Seq(M)
<1>2. s \o t \in Seq(M)
  BY ConcatProperties
<1> QED BY <1>1, <1>2 DEF Joined

(* How a cast stands before its tree is known blocked.                     *)
Standing(view) ==
    [status |-> Shown(view).status, rites |-> Shown(view).rites, waiting |-> Shown(view).waiting,
     onChildren |-> Shown(view).onChildren, blocked |-> FALSE]

LEMMA StandsSaid ==
    ASSUME NEW vs, DOMAIN vs = Cast, NEW c \in Cast, NEW view \in FullView
    PROVE  LET begun == Running(view.rites, view.waiting, view.onChildren)
               ended == Standing(view)
               line == IF view.status = "queued" THEN <<Plain("queued", c)>> ELSE <<>>
               tree == IF view.blocked THEN <<Plain("blocked", c)>> ELSE <<>>
               waits == IF view.status = "queued" THEN [begun EXCEPT !.status = "queued"] ELSE begun
           IN  /\ <<Plain("end", c)>> \in Seq(Said) /\ line \in Seq(Said)
               /\ ReplayGoodbye(c, view) \in Seq(Said) /\ tree \in Seq(Said)
               /\ AllApplied(Put(vs, c, begun), <<Plain("end", c)>>) = Put(vs, c, begun)
               /\ AllApplied(Put(vs, c, begun), line) = Put(vs, c, waits)
               /\ AllApplied(Put(vs, c, waits), ReplayGoodbye(c, view)) = Put(vs, c, ended)
               /\ AllApplied(Put(vs, c, ended), tree) = Put(vs, c, Shown(view))
<1> DEFINE begun == Running(view.rites, view.waiting, view.onChildren)
           ended == Standing(view)
           line == IF view.status = "queued" THEN <<Plain("queued", c)>> ELSE <<>>
           tree == IF view.blocked THEN <<Plain("blocked", c)>> ELSE <<>>
           waits == IF view.status = "queued" THEN [begun EXCEPT !.status = "queued"] ELSE begun
           e == Plain("end", c)
           q == Plain("queued", c)
           g == Goodbye(c, view.status)
           b == Plain("blocked", c)
<1>1. /\ view # NoView /\ view.status \in Status /\ view.rites \in [Rite -> RiteView]
      /\ view.waiting \in Seq(PromptView) /\ view.onChildren \subseteq Await
      /\ view.blocked \in BOOLEAN
      /\ view = [status |-> view.status, rites |-> view.rites, waiting |-> view.waiting,
                 onChildren |-> view.onChildren, blocked |-> view.blocked]
  BY FullViewIs
<1>2. /\ e \in Said /\ e.kind = "end" /\ e.cast = c
      /\ q \in Said /\ q.kind = "queued" /\ q.cast = c
      /\ g \in Said /\ g.kind = "goodbye" /\ g.cast = c /\ g.with = view.status
      /\ b \in Said /\ b.kind = "blocked" /\ b.cast = c
  BY <1>1 DEF Plain, Goodbye, Message, Said, Kinds
<1>3. begun # NoView
  <2>1. "rites" \in DOMAIN begun
    BY DEF Running
  <2>2. "rites" \notin DOMAIN NoView
    BY DEF NoView
  <2> QED BY <2>1, <2>2
<1>4. waits # NoView /\ (view.status \notin {"running", "queued"} => waits = begun)
  <2>1. "rites" \in DOMAIN [begun EXCEPT !.status = "queued"]
    BY DEF Running
  <2>2. "rites" \notin DOMAIN NoView
    BY DEF NoView
  <2> QED BY <1>3, <2>1, <2>2
<1>5. ended # NoView /\ Shown(view) # NoView
  <2>1. "rites" \in DOMAIN ended /\ "rites" \in DOMAIN Shown(view)
    BY <1>1 DEF Shown, Standing
  <2>2. "rites" \notin DOMAIN NoView
    BY DEF NoView
  <2> QED BY <2>1, <2>2
<1>6. AllApplied(Put(vs, c, begun), <<e>>) = Put(vs, c, begun)
  <2>1. ~Refused(begun, e) /\ Updated(begun, e) = begun
    BY <1>2 DEF Refused, Updated
  <2> HIDE DEF begun, e
  <2> QED BY <1>2, <1>3, <2>1, SaidAt, AllOfOne
<1>7. AllApplied(Put(vs, c, begun), line) = Put(vs, c, waits)
  <2>1. ~Refused(begun, q) /\ Updated(begun, q) = [begun EXCEPT !.status = "queued"]
    BY <1>2 DEF Refused, Updated
  <2> HIDE DEF begun, q
  <2>2. Applied(Put(vs, c, begun), q) = Put(vs, c, Updated(begun, q))
    BY <1>2, <1>3, <2>1, SaidAt
  <2>3. CASE view.status = "queued"
    BY <2>1, <2>2, <2>3, AllOfOne DEF q
  <2>4. CASE view.status # "queued"
    BY <2>4, AllOfNone
  <2> QED BY <2>3, <2>4
<1>8. AllApplied(Put(vs, c, waits), ReplayGoodbye(c, view)) = Put(vs, c, ended)
  <2>1. CASE view.status \in Ended
    <3>1. waits = begun
      BY <2>1 DEF Ended
    <3>2. ~Refused(begun, g)
      BY <1>2 DEF Refused
    <3>3. Updated(begun, g) = ended
      <4>1. Updated(begun, g) = [begun EXCEPT !.status = view.status, !.waiting = <<>>, !.onChildren = {}]
        BY <1>2 DEF Updated
      <4>2. Updated(begun, g) = [status |-> view.status, rites |-> view.rites, waiting |-> <<>>,
                                 onChildren |-> {}, blocked |-> FALSE]
        BY <4>1 DEF Running
      <4>3. Shown(view) = [view EXCEPT !.waiting = <<>>, !.onChildren = {}]
        BY <1>1, <2>1 DEF Shown
      <4>4. Shown(view) = [status |-> view.status, rites |-> view.rites, waiting |-> <<>>,
                           onChildren |-> {}, blocked |-> view.blocked]
        BY <1>1, <4>3
      <4>5. ended = [status |-> view.status, rites |-> view.rites, waiting |-> <<>>,
                     onChildren |-> {}, blocked |-> FALSE]
        BY <4>4 DEF Standing
      <4> QED BY <4>2, <4>5
    <3>4. ReplayGoodbye(c, view) = <<g>>
      BY <2>1 DEF ReplayGoodbye
    <3> HIDE DEF begun, g, ended, waits
    <3> QED BY <1>2, <1>3, <3>1, <3>2, <3>3, <3>4, SaidAt, AllOfOne
  <2>2. CASE view.status \notin Ended
    <3>1. ReplayGoodbye(c, view) = <<>>
      BY <2>2 DEF ReplayGoodbye
    <3>2. waits = ended
      <4>1. view.status \in {"queued", "running"}
        BY <1>1, <2>2 DEF Status
      <4>2. Shown(view) = view
        BY <2>2 DEF Shown
      <4>3. ended = [status |-> view.status, rites |-> view.rites, waiting |-> view.waiting,
                     onChildren |-> view.onChildren, blocked |-> FALSE]
        BY <4>2 DEF Standing
      <4>4. waits = [status |-> view.status, rites |-> view.rites, waiting |-> view.waiting,
                     onChildren |-> view.onChildren, blocked |-> FALSE]
        BY <4>1 DEF Running
      <4> QED BY <4>3, <4>4
    <3> QED BY <3>1, <3>2, AllOfNone
  <2> QED BY <2>1, <2>2
<1>9. AllApplied(Put(vs, c, ended), tree) = Put(vs, c, Shown(view))
  <2>1. Shown(view).blocked = view.blocked
    BY <1>1 DEF Shown
  <2>4. Shown(view) = [status |-> Shown(view).status, rites |-> Shown(view).rites,
                       waiting |-> Shown(view).waiting, onChildren |-> Shown(view).onChildren,
                       blocked |-> Shown(view).blocked]
    BY <1>1 DEF Shown
  <2>2. CASE view.blocked
    <3>1. ~Refused(ended, b)
      BY <1>2 DEF Refused
    <3>2. Updated(ended, b) = Shown(view)
      <4>1. Updated(ended, b) = [ended EXCEPT !.blocked = TRUE]
        BY <1>2 DEF Updated
      <4>2. [ended EXCEPT !.blocked = TRUE]
            = [status |-> Shown(view).status, rites |-> Shown(view).rites,
               waiting |-> Shown(view).waiting, onChildren |-> Shown(view).onChildren,
               blocked |-> TRUE]
        <5>1. PICK new : new = [ended EXCEPT !.blocked = TRUE]
          OBVIOUS
        <5>2. /\ DOMAIN new = {"status", "rites", "waiting", "onChildren", "blocked"}
              /\ new.status = Shown(view).status /\ new.rites = Shown(view).rites
              /\ new.waiting = Shown(view).waiting /\ new.onChildren = Shown(view).onChildren
              /\ new.blocked = TRUE
          BY <5>1 DEF Standing
        <5>3. new = [status |-> new.status, rites |-> new.rites, waiting |-> new.waiting,
                     onChildren |-> new.onChildren, blocked |-> new.blocked]
          BY <5>1, <5>2 DEF Standing
        <5> QED BY <5>1, <5>2, <5>3
      <4> QED BY <2>1, <2>2, <2>4, <4>1, <4>2
    <3> HIDE DEF b, ended
    <3>3. Applied(Put(vs, c, ended), b) = Put(vs, c, Shown(view))
      BY <1>2, <1>5, <3>1, <3>2, SaidAt
    <3> QED BY <2>2, <3>3, AllOfOne DEF b
  <2>3. CASE ~view.blocked
    <3>1. ended = Shown(view)
      BY <2>1, <2>3, <2>4 DEF Standing
    <3> QED BY <2>3, <3>1, AllOfNone
  <2> QED BY <2>2, <2>3
<1>10. /\ <<e>> \in Seq(Said) /\ line \in Seq(Said)
       /\ ReplayGoodbye(c, view) \in Seq(Said) /\ tree \in Seq(Said)
  <2>1. ReplayGoodbye(c, view) = <<>> \/ ReplayGoodbye(c, view) = <<g>>
    BY DEF ReplayGoodbye
  <2>2. /\ line = <<>> \/ line = <<q>>
        /\ tree = <<>> \/ tree = <<b>>
    OBVIOUS
  <2> HIDE DEF e, q, g, b, line, tree
  <2>3. \A m \in Said : <<m>> \in Seq(Said)
    OBVIOUS
  <2>4. <<>> \in Seq(Said)
    OBVIOUS
  <2> QED BY <1>2, <2>1, <2>2, <2>3, <2>4
<1> QED BY <1>6, <1>7, <1>8, <1>9, <1>10

(* The whole of it: the view comes to show what the hub's does.            *)
LEMMA CastSaid ==
    ASSUME NEW vs, DOMAIN vs = Cast, NEW c \in Cast, NEW view \in FullView,
           Apart(view.waiting), \A p \in Prompts(view) : Of[p] = c
    PROVE  /\ ReplayCast(c, view) \in Seq(Said)
           /\ AllApplied(vs, ReplayCast(c, view)) = Put(vs, c, Shown(view))
<1> DEFINE ri == view.rites
           wa == view.waiting
           aw == view.onChildren
           bare == Put(vs, c, Running(NoRites, <<>>, {}))
           begun == Running(ri, wa, aw)
           waits == IF view.status = "queued" THEN [begun EXCEPT !.status = "queued"] ELSE begun
           ended == Standing(view)
<1>1. ri \in [Rite -> RiteView] /\ wa \in Seq(PromptView) /\ aw \in SUBSET Await
  BY FullViewIs
<1>2. PICK s1, s2, s3, s4, s5, s6, s7, s8 :
        /\ s1 = <<Hello(c, "running"), Plain("begin", c)>> /\ s2 = RitesSaid(c, view)
        /\ s3 = FlattenSeq([i \in DOMAIN wa |-> ReplayPrompt(wa[i])])
        /\ s4 = SetToSeq({Message("awaits", c, k, Nobody) : k \in aw})
        /\ s5 = <<Plain("end", c)>>
        /\ s6 = (IF view.status = "queued" THEN <<Plain("queued", c)>> ELSE <<>>)
        /\ s7 = ReplayGoodbye(c, view)
        /\ s8 = (IF view.blocked THEN <<Plain("blocked", c)>> ELSE <<>>)
  OBVIOUS
<1>3. ReplayCast(c, view) = s1 \o s2 \o s3 \o s4 \o s5 \o s6 \o s7 \o s8
  BY <1>2 DEF ReplayCast, RitesSaid
<1>4. s1 \in Seq(Said) /\ AllApplied(vs, s1) = bare
  <2> DEFINE h == Hello(c, "running")
             b == Plain("begin", c)
             none == Running(NoRites, <<>>, {})
  <2>1. /\ h \in Said /\ b \in Said /\ b.kind = "begin" /\ b.cast = c
    BY DEF Hello, Plain, Message, Said, Kinds, Status
  <2>2. none # NoView
    <3>1. NoRites \in [Rite -> RiteView]
      BY DEF NoRites, RiteView
    <3> QED BY <3>1, BareIs
  <2>3. ~Refused(none, b)
    BY <2>1 DEF Refused
  <2>4. Updated(none, b) = none
    BY <2>1 DEF Updated, Running, NoRites
  <2>5. Applied(vs, h) = Put(vs, c, none)
    BY HelloAt
  <2> HIDE DEF h, b, none
  <2>6. Applied(Put(vs, c, none), b) = Put(vs, c, none)
    BY <2>1, <2>2, <2>3, <2>4, SaidAt
  <2>7. AllApplied(vs, <<h, b>>) = Put(vs, c, none)
    BY <2>5, <2>6, AllOfTwo
  <2>8. <<h, b>> \in Seq(Said)
    BY <2>1
  <2> QED BY <1>2, <2>7, <2>8 DEF h, b, none
<1>5. s2 \in Seq(Said) /\ AllApplied(bare, s2) = Put(vs, c, Running(ri, <<>>, {}))
  BY <1>2, RitesAllSaid
<1>6. s3 \in Seq(Said) /\ AllApplied(Put(vs, c, Running(ri, <<>>, {})), s3) = Put(vs, c, Running(ri, wa, {}))
  <2>1. \A i \in 1..Len(wa) : Of[wa[i].prompt] = c
    <3>1. DOMAIN wa = 1..Len(wa)
      BY <1>1, LenProperties
    <3> QED BY <3>1 DEF Prompts
  <2> HIDE DEF ri, wa
  <2> QED BY <1>1, <1>2, <2>1, PromptsAllSaid DEF wa
<1>7. s4 \in Seq(Said) /\ AllApplied(Put(vs, c, Running(ri, wa, {})), s4) = Put(vs, c, begun)
  <2>1. PICK all : all = SetToSeq({Message("awaits", c, k, Nobody) : k \in aw})
    OBVIOUS
  <2>2. all \in Seq(Said) /\ AllApplied(Put(vs, c, Running(ri, wa, {})), all) = Put(vs, c, Running(ri, wa, aw))
    <3> HIDE DEF aw, ri, wa
    <3> QED BY ONLY <1>1, <2>1, DOMAIN vs = Cast, AwaitsAllSaid, c \in Cast
  <2> QED BY <1>2, <2>1, <2>2
<1>8. /\ s5 \in Seq(Said) /\ s6 \in Seq(Said) /\ s7 \in Seq(Said) /\ s8 \in Seq(Said)
      /\ AllApplied(Put(vs, c, begun), s5) = Put(vs, c, begun)
      /\ AllApplied(Put(vs, c, begun), s6) = Put(vs, c, waits)
      /\ AllApplied(Put(vs, c, waits), s7) = Put(vs, c, ended)
      /\ AllApplied(Put(vs, c, ended), s8) = Put(vs, c, Shown(view))
  BY <1>2, StandsSaid
<1> HIDE DEF bare, begun, waits, ended, ri, wa, aw
<1>9. PICK t2, t3, t4, t5, t6, t7, t8 :
        /\ t2 = Joined(s1, s2) /\ t3 = Joined(t2, s3) /\ t4 = Joined(t3, s4) /\ t5 = Joined(t4, s5)
        /\ t6 = Joined(t5, s6) /\ t7 = Joined(t6, s7) /\ t8 = Joined(t7, s8)
  OBVIOUS
<1>10. t2 \in Seq(Said) /\ AllApplied(vs, t2) = Put(vs, c, Running(ri, <<>>, {}))
  BY ONLY <1>4, <1>5, <1>9, Chained
<1>11. t3 \in Seq(Said) /\ AllApplied(vs, t3) = Put(vs, c, Running(ri, wa, {}))
  BY ONLY <1>6, <1>9, <1>10, Chained
<1>12. t4 \in Seq(Said) /\ AllApplied(vs, t4) = Put(vs, c, begun)
  BY ONLY <1>7, <1>9, <1>11, Chained
<1>13. t5 \in Seq(Said) /\ AllApplied(vs, t5) = Put(vs, c, begun)
  BY ONLY <1>8, <1>9, <1>12, Chained
<1>14. t6 \in Seq(Said) /\ AllApplied(vs, t6) = Put(vs, c, waits)
  BY ONLY <1>8, <1>9, <1>13, Chained
<1>15. t7 \in Seq(Said) /\ AllApplied(vs, t7) = Put(vs, c, ended)
  BY ONLY <1>8, <1>9, <1>14, Chained
<1>16. t8 \in Seq(Said) /\ AllApplied(vs, t8) = Put(vs, c, Shown(view))
  BY ONLY <1>8, <1>9, <1>15, Chained
<1>17. ReplayCast(c, view) = t8
  BY <1>3, <1>9 DEF Joined
<1> QED BY <1>16, <1>17

(* Views that are whole, each of a cast's own prompts.                     *)
Whole(vs) ==
    /\ DOMAIN vs = Cast
    /\ \A c \in Cast : vs[c] # NoView => vs[c] \in FullView /\ Apart(vs[c].waiting)

NoViews == [c \in Cast |-> NoView]

ShownOf(vs) == [c \in Cast |-> Shown(vs[c])]

LEMMA ReplaySaid ==
    ASSUME NEW vs, Whole(vs),
           \A c \in Cast : vs[c] # NoView => \A p \in Prompts(vs[c]) : Of[p] = c
    PROVE  AllApplied(NoViews, Replay(vs)) = ShownOf(vs)
<1> DEFINE S == {c \in Cast : vs[c] # NoView}
           l == SetToSeq(S)
           n == Len(l)
           upTo(k) == [c \in Cast |-> IF \E i \in 1..k : l[i] = c THEN Shown(vs[c]) ELSE NoView]
           ss == [i \in 1..n |-> ReplayCast(l[i], vs[l[i]])]
           f == [k \in 0..n |-> upTo(k)]
<1>1. /\ n \in Nat /\ l \in Seq(S)
      /\ \A i \in 1..n : l[i] \in Cast /\ vs[l[i]] # NoView
      /\ \A c \in Cast : vs[c] # NoView => \E i \in 1..n : l[i] = c
  <2>1. IsFiniteSet(S)
    <3>1. S \subseteq Cast /\ IsFiniteSet(Cast)
      BY ViewsAssumption
    <3> HIDE DEF S
    <3> QED BY <3>1, FS_Subset
  <2>2. \A c \in S : c \in Cast /\ vs[c] # NoView
    OBVIOUS
  <2>3. \A c \in Cast : vs[c] # NoView => c \in S
    OBVIOUS
  <2> HIDE DEF S
  <2> QED BY <2>1, <2>2, <2>3, ListedOnce
<1>2. Replay(vs) = FlattenSeq(ss)
  <2>1. DOMAIN l = 1..n
    BY <1>1, LenProperties
  <2> QED BY <2>1 DEF Replay
<1> HIDE DEF l, n
<1>3. ASSUME NEW k \in 1..n
      PROVE  ss[k] \in Seq(Said) /\ AllApplied(f[k - 1], ss[k]) = f[k]
  <2>1. k - 1 \in 0..n /\ k \in 0..n /\ k \in Nat /\ k \in 1..k
    BY <1>1
  <2>2. PICK c \in Cast : c = l[k] /\ vs[c] # NoView
    BY <1>1
  <2>3. PICK view \in FullView : view = vs[c] /\ Apart(view.waiting) /\ \A p \in Prompts(view) : Of[p] = c
    BY <2>2 DEF Whole
  <2>4. PICK old, new : old = upTo(k - 1) /\ new = upTo(k)
    OBVIOUS
  <2>5. DOMAIN old = Cast
    BY <2>4
  <2>6. ReplayCast(c, view) \in Seq(Said) /\ AllApplied(old, ReplayCast(c, view)) = Put(old, c, Shown(view))
    BY ONLY <2>3, <2>5, CastSaid, c \in Cast, view \in FullView
  <2>7. Put(old, c, Shown(view)) = new
    <3>1. \A i \in 1..k : i = k \/ i \in 1..k - 1
      BY <2>1
    <3>2. \A i \in 1..k - 1 : i \in 1..k
      BY <2>1
    <3>3. ASSUME NEW d \in Cast PROVE new[d] = IF d = c THEN Shown(view) ELSE old[d]
      <4>1. CASE d = c
        BY <2>1, <2>2, <2>3, <2>4, <4>1
      <4>2. CASE d # c
        <5>1. (\E i \in 1..k : l[i] = d) <=> \E i \in 1..k - 1 : l[i] = d
          BY <2>2, <3>1, <3>2, <4>2
        <5> QED BY <2>4, <4>2, <5>1
      <4> QED BY <4>1, <4>2
    <3>4. new = [d \in Cast |-> new[d]]
      BY <2>4
    <3> QED BY <2>5, <3>3, <3>4 DEF Put
  <2>8. ss[k] = ReplayCast(c, view) /\ f[k - 1] = old /\ f[k] = new
    <3> HIDE DEF upTo
    <3> QED BY <2>1, <2>2, <2>3, <2>4
  <2> QED BY <2>6, <2>7, <2>8
<1>4. f[0] = NoViews
  <2>1. upTo(0) = NoViews
    BY DEF NoViews
  <2> HIDE DEF upTo
  <2> QED BY <1>1, <2>1
<1>5. f[n] = ShownOf(vs)
  <2>1. upTo(n) = ShownOf(vs)
    BY <1>1 DEF ShownOf, Shown
  <2> HIDE DEF upTo
  <2> QED BY <1>1, <2>1
<1>6. ss \in Seq(Seq(Said)) /\ Len(ss) = n
  <2>1. ss \in [1..n -> Seq(Said)]
    BY <1>3
  <2> HIDE DEF ss
  <2> QED BY <2>1, <1>1, ListIs
<1> HIDE DEF ss, f
<1> QED BY <1>2, <1>3, <1>4, <1>5, <1>6, InStages

-----------------------------------------------------------------------------
(* What a message does to a window's view and to the hub's.                *)

(* A message of what its kind is about; that a cast is in line is said     *)
(* with its hello.                                                         *)
Fits(m) ==
    /\ m.cast \in Cast /\ m.kind \in Kinds \ {"queued"}
    /\ m.kind \in {"started", "delta", "finished"} => m.what \in Rite
    /\ m.kind = "delta" => m.with \in Nat
    /\ m.kind \in OnPrompts => m.what \in Prompt
    /\ m.kind = "claimed" => m.with \in Holder
    /\ m.kind \in {"awaits", "awaitEnded", "awaitWithdrawn"} => m.what \in Await
    /\ m.kind = "hello" => m.with \in {"running", "queued"}
    /\ m.kind = "goodbye" => m.with \in Ended

RitesAfter(rites, m) ==
    CASE m.kind = "begin" -> NoRites
      [] m.kind = "started" -> [rites EXCEPT ![m.what] = [lines |-> 0, finished |-> FALSE]]
      [] m.kind = "delta" -> [rites EXCEPT ![m.what].lines = Kept(@ + m.with)]
      [] m.kind = "finished" -> [rites EXCEPT ![m.what].finished = TRUE]
      [] OTHER -> rites

WaitingAfter(waiting, m) ==
    CASE m.kind \in {"begin", "goodbye"} -> <<>>
      [] m.kind = "asked" -> WithPrompt(waiting, m.what)
      [] m.kind \in {"resolved", "withdrawn"} -> Without(waiting, m.what)
      [] m.kind = "claimed" -> WithClaim(waiting, m.what, m.with)
      [] OTHER -> waiting

AwaitedAfter(awaited, m) ==
    CASE m.kind \in {"begin", "goodbye"} -> {}
      [] m.kind = "awaits" -> awaited \cup {m.what}
      [] m.kind \in {"awaitEnded", "awaitWithdrawn"} -> awaited \ {m.what}
      [] OTHER -> awaited

BlockedAfter(blocked, m) ==
    CASE m.kind = "blocked" -> TRUE
      [] m.kind = "freed" -> FALSE
      [] OTHER -> blocked

LEMMA UpdatedIs ==
    ASSUME NEW view \in FullView, NEW m, Fits(m), m.kind # "hello"
    PROVE  LET new == Updated(view, m)
           IN  /\ DOMAIN new = DOMAIN view
               /\ new.status = StatusAfter(view.status, m)
               /\ new.rites = RitesAfter(view.rites, m)
               /\ new.waiting = WaitingAfter(view.waiting, m)
               /\ new.onChildren = AwaitedAfter(view.onChildren, m)
               /\ new.blocked = BlockedAfter(view.blocked, m)
<1> DEFINE new == Updated(view, m)
<1>1. DOMAIN view = {"status", "rites", "waiting", "onChildren", "blocked"}
  BY FullViewIs
<1>2. CASE m.kind = "begin"
  BY <1>1, <1>2 DEF Updated, StatusAfter, RitesAfter, WaitingAfter, AwaitedAfter, BlockedAfter, NoRites
<1>3. CASE m.kind = "goodbye"
  BY <1>1, <1>3 DEF Updated, StatusAfter, RitesAfter, WaitingAfter, AwaitedAfter, BlockedAfter
<1>4. CASE m.kind = "asked"
  BY <1>1, <1>4 DEF Updated, StatusAfter, RitesAfter, WaitingAfter, AwaitedAfter, BlockedAfter
<1>5. CASE m.kind \in {"resolved", "withdrawn"}
  BY <1>1, <1>5 DEF Updated, StatusAfter, RitesAfter, WaitingAfter, AwaitedAfter, BlockedAfter
<1>6. CASE m.kind = "claimed"
  BY <1>1, <1>6 DEF Updated, StatusAfter, RitesAfter, WaitingAfter, AwaitedAfter, BlockedAfter
<1>7. CASE m.kind = "started"
  BY <1>1, <1>7 DEF Updated, StatusAfter, RitesAfter, WaitingAfter, AwaitedAfter, BlockedAfter
<1>8. CASE m.kind = "delta"
  BY <1>1, <1>8 DEF Updated, StatusAfter, RitesAfter, WaitingAfter, AwaitedAfter, BlockedAfter
<1>9. CASE m.kind = "finished"
  BY <1>1, <1>9 DEF Updated, StatusAfter, RitesAfter, WaitingAfter, AwaitedAfter, BlockedAfter
<1>10. CASE m.kind = "awaits"
  BY <1>1, <1>10 DEF Updated, StatusAfter, RitesAfter, WaitingAfter, AwaitedAfter, BlockedAfter
<1>11. CASE m.kind \in {"awaitEnded", "awaitWithdrawn"}
  BY <1>1, <1>11 DEF Updated, StatusAfter, RitesAfter, WaitingAfter, AwaitedAfter, BlockedAfter
<1>12. CASE m.kind = "blocked"
  BY <1>1, <1>12 DEF Updated, StatusAfter, RitesAfter, WaitingAfter, AwaitedAfter, BlockedAfter
<1>13. CASE m.kind = "freed"
  BY <1>1, <1>13 DEF Updated, StatusAfter, RitesAfter, WaitingAfter, AwaitedAfter, BlockedAfter
<1>14. CASE m.kind = "end"
  BY <1>1, <1>14 DEF Updated, StatusAfter, RitesAfter, WaitingAfter, AwaitedAfter, BlockedAfter
<1>15. m.kind \in Kinds \ {"queued", "hello"}
  BY DEF Fits
<1> QED BY <1>2, <1>3, <1>4, <1>5, <1>6, <1>7, <1>8, <1>9, <1>10, <1>11, <1>12, <1>13, <1>14, <1>15
  DEF Kinds

(* An EXCEPT of a view is the record of its fields.                        *)
LEMMA UpdatedRecord ==
    ASSUME NEW view \in FullView, NEW m, Fits(m), m.kind # "hello",
           NEW new, new = Updated(view, m)
    PROVE  new = [status |-> new.status, rites |-> new.rites, waiting |-> new.waiting,
                  onChildren |-> new.onChildren, blocked |-> new.blocked]
<1>1. DOMAIN new = {"status", "rites", "waiting", "onChildren", "blocked"}
  BY UpdatedIs, FullViewIs
<1>2. new = [f \in DOMAIN new |-> new[f]]
  <2>1. new = [f \in DOMAIN view |-> new[f]]
    BY DEF FullView, Updated
  <2> QED BY <2>1, <1>1, FullViewIs
<1> QED BY <1>1, <1>2

LEMMA UpdatedFull ==
    ASSUME NEW view \in FullView, Apart(view.waiting),
           NEW m, Fits(m), m.kind # "hello", ~Refused(view, m),
           NEW new, new = Updated(view, m)
    PROVE  new \in FullView /\ Apart(new.waiting)
<1>1. /\ view.status \in Status /\ view.rites \in [Rite -> RiteView]
      /\ view.waiting \in Seq(PromptView) /\ view.onChildren \subseteq Await
      /\ view.blocked \in BOOLEAN
  BY FullViewIs
<1>2. /\ new.status = StatusAfter(view.status, m) /\ new.rites = RitesAfter(view.rites, m)
      /\ new.waiting = WaitingAfter(view.waiting, m)
      /\ new.onChildren = AwaitedAfter(view.onChildren, m)
      /\ new.blocked = BlockedAfter(view.blocked, m)
      /\ m.kind \in Kinds \ {"queued", "hello"}
  BY UpdatedIs DEF Fits
<1>3. new.status \in Status
  BY <1>1, <1>2 DEF StatusAfter, Status, Fits
<1>4. new.rites \in [Rite -> RiteView]
  <2> DEFINE old == view.rites
             r == m.what
  <2>1. CASE m.kind = "begin"
    BY <1>2, <2>1 DEF RitesAfter, NoRites, RiteView
  <2>2. CASE m.kind \in {"started", "delta", "finished"}
    <3>1. r \in Rite
      BY <2>2 DEF Fits
    <3>2. DeltaLines \in Nat \ {0}
      BY ViewsAssumption
    <3>3. CASE m.kind = "started"
      <4>1. [lines |-> 0, finished |-> FALSE] \in RiteView
        BY <3>2 DEF RiteView
      <4>2. new.rites = [old EXCEPT ![r] = [lines |-> 0, finished |-> FALSE]]
        BY <1>2, <3>3 DEF RitesAfter
      <4> HIDE DEF old, r
      <4> QED BY <1>1, <3>1, <4>1, <4>2 DEF old
    <3>4. CASE m.kind \in {"delta", "finished"}
      <4>1. old[r] # Nobody
        BY <3>4 DEF Refused
      <4>2. old[r] \in [lines : 0..DeltaLines, finished : BOOLEAN]
        BY <1>1, <3>1, <4>1 DEF RiteView
      <4>3. CASE m.kind = "delta"
        <5>1. old[r].lines + m.with \in Nat
          BY <4>2, <4>3 DEF Fits
        <5>2. Kept(old[r].lines + m.with) \in 0..DeltaLines
          BY <3>2, <5>1 DEF Kept
        <5>3. [old[r] EXCEPT !.lines = Kept(old[r].lines + m.with)] \in RiteView
          BY <4>2, <5>2 DEF RiteView
        <5>4. new.rites = [old EXCEPT ![r] = [old[r] EXCEPT !.lines = Kept(old[r].lines + m.with)]]
          BY <1>2, <4>3 DEF RitesAfter
        <5> HIDE DEF old, r
        <5> QED BY <1>1, <3>1, <5>3, <5>4 DEF old
      <4>4. CASE m.kind = "finished"
        <5>1. [old[r] EXCEPT !.finished = TRUE] \in RiteView
          BY <4>2 DEF RiteView
        <5>2. new.rites = [old EXCEPT ![r] = [old[r] EXCEPT !.finished = TRUE]]
          BY <1>2, <4>4 DEF RitesAfter
        <5> HIDE DEF old, r
        <5> QED BY <1>1, <3>1, <5>1, <5>2 DEF old
      <4> QED BY <3>4, <4>3, <4>4
    <3> QED BY <2>2, <3>3, <3>4
  <2>3. CASE m.kind \notin {"begin", "started", "delta", "finished"}
    BY <1>1, <1>2, <2>3 DEF RitesAfter
  <2> QED BY <2>1, <2>2, <2>3
<1>5. IsWaiting(view.waiting)
  BY <1>1 DEF IsWaiting
<1>6. IsWaiting(new.waiting)
  <2>1. CASE m.kind \in {"begin", "goodbye"}
    BY <1>2, <2>1, NoneWait DEF WaitingAfter
  <2>2. CASE m.kind = "asked"
    BY <1>2, <1>5, <2>2, WithPromptShows, ViewsAssumption DEF WaitingAfter, Fits, OnPrompts
  <2>3. CASE m.kind \in {"resolved", "withdrawn"}
    <3>1. \E i \in DOMAIN view.waiting : view.waiting[i].prompt = m.what
      BY <2>3 DEF Refused, Prompts
    <3> QED BY <1>2, <1>5, <2>3, <3>1, WithoutShows DEF WaitingAfter
  <2>4. CASE m.kind = "claimed"
    <3>1. \E i \in DOMAIN view.waiting : view.waiting[i].prompt = m.what
      BY <2>4 DEF Refused, Prompts
    <3>2. m.what \in Prompt /\ m.with \in Holder
      BY <2>4 DEF Fits, OnPrompts
    <3> QED BY <1>2, <1>5, <2>4, <3>1, <3>2, WithClaimShows DEF WaitingAfter
  <2>5. CASE m.kind \notin {"begin", "goodbye", "asked", "resolved", "withdrawn", "claimed"}
    BY <1>2, <1>5, <2>5 DEF WaitingAfter
  <2> QED BY <2>1, <2>2, <2>3, <2>4, <2>5
<1>7. new.onChildren \subseteq Await
  BY <1>1, <1>2 DEF AwaitedAfter, Fits
<1>8. new.blocked \in BOOLEAN
  BY <1>1, <1>2 DEF BlockedAfter
<1>9. new = [status |-> new.status, rites |-> new.rites, waiting |-> new.waiting,
             onChildren |-> new.onChildren, blocked |-> new.blocked]
  BY UpdatedRecord
<1>10. new.waiting \in Seq(PromptView) /\ Apart(new.waiting)
  BY <1>6 DEF IsWaiting
<1>11. new \in FullView
  BY <1>3, <1>4, <1>7, <1>8, <1>9, <1>10 DEF FullView
<1> QED BY <1>10, <1>11

(* The same view, but for what its end settles.                            *)
Agree(a, b) ==
    \/ a = b
    \/ /\ a # NoView /\ b # NoView
       /\ b.status \in Ended /\ a.status = b.status
       /\ a.rites = b.rites /\ a.blocked = b.blocked

AgreeAll(ps, vs) == \A c \in Cast : Agree(ps[c], vs[c])

LEMMA AgreeShown ==
    ASSUME NEW a, NEW b, Agree(a, b), a # NoView => a \in FullView, b # NoView => b \in FullView
    PROVE  Shown(a) = Shown(b)
<1>1. CASE a = b
  BY <1>1
<1>2. CASE a # b
  <2>1. /\ a # NoView /\ b # NoView /\ a \in FullView /\ b \in FullView
        /\ a.status \in Ended /\ b.status \in Ended /\ a.status = b.status
        /\ a.rites = b.rites /\ a.blocked = b.blocked
    BY <1>2 DEF Agree
  <2>2. ASSUME NEW v \in FullView, v.status \in Ended
        PROVE  Shown(v) = [status |-> v.status, rites |-> v.rites, waiting |-> <<>>,
                           onChildren |-> {}, blocked |-> v.blocked]
    <3>1. /\ v # NoView
          /\ v = [status |-> v.status, rites |-> v.rites, waiting |-> v.waiting,
                  onChildren |-> v.onChildren, blocked |-> v.blocked]
      BY FullViewIs
    <3>2. Shown(v) = [v EXCEPT !.waiting = <<>>, !.onChildren = {}]
      BY <2>2, <3>1 DEF Shown
    <3> QED BY <3>1, <3>2
  <2> QED BY <2>1, <2>2
<1> QED BY <1>1, <1>2

LEMMA ShownAgrees ==
    ASSUME NEW v, v # NoView => v \in FullView
    PROVE  /\ Agree(Shown(v), v)
           /\ Shown(v) = NoView <=> v = NoView
           /\ v # NoView => Shown(v) \in FullView /\ (Apart(v.waiting) => Apart(Shown(v).waiting))
<1>1. CASE v = NoView \/ v.status \notin Ended
  <2>1. Shown(v) = v
    BY <1>1 DEF Shown
  <2> QED BY <2>1 DEF Agree
<1>2. CASE v # NoView /\ v.status \in Ended
  <2>1. /\ v \in FullView /\ v.rites \in [Rite -> RiteView] /\ v.blocked \in BOOLEAN
        /\ v = [status |-> v.status, rites |-> v.rites, waiting |-> v.waiting,
                onChildren |-> v.onChildren, blocked |-> v.blocked]
        /\ v.status \in Status
    BY <1>2, FullViewIs
  <2>2. Shown(v) = [v EXCEPT !.waiting = <<>>, !.onChildren = {}]
    BY <1>2 DEF Shown
  <2>3. Shown(v) = [status |-> v.status, rites |-> v.rites, waiting |-> <<>>,
                    onChildren |-> {}, blocked |-> v.blocked]
    BY <2>1, <2>2
  <2>4. PICK wa, aw : wa = <<>> /\ aw = {}
    OBVIOUS
  <2>5. wa \in Seq(PromptView) /\ aw \in SUBSET Await
    BY <2>4
  <2>6. Shown(v) \in FullView
    <3>1. [status |-> v.status, rites |-> v.rites, waiting |-> wa,
           onChildren |-> aw, blocked |-> v.blocked] \in FullView
      BY <2>1, <2>5 DEF FullView
    <3> QED BY <2>3, <2>4, <3>1
  <2>7. /\ Shown(v) # NoView
        /\ Shown(v).status = v.status /\ Shown(v).rites = v.rites
        /\ Shown(v).blocked = v.blocked /\ Shown(v).waiting = <<>>
    BY <2>3, <2>6, FullViewIs
  <2>8. Apart(<<>>)
    BY NoneWait DEF IsWaiting
  <2> QED BY <1>2, <2>6, <2>7, <2>8 DEF Agree
<1> QED BY <1>1, <1>2

LEMMA AppliedWhole ==
    ASSUME NEW vs, Whole(vs), NEW m, Fits(m)
    PROVE  /\ Whole(Applied(vs, m))
           /\ \A d \in Cast : d # m.cast => Applied(vs, m)[d] = vs[d]
           /\ ~Accepts(vs, m) => Applied(vs, m)[m.cast] = vs[m.cast]
           /\ Accepts(vs, m) => Applied(vs, m)[m.cast]
                = IF m.kind = "hello" THEN [Fresh EXCEPT !.status = m.with] ELSE Updated(vs[m.cast], m)
<1> DEFINE c == m.cast
           new == Applied(vs, m)
           view == IF m.kind = "hello" THEN [Fresh EXCEPT !.status = m.with] ELSE Updated(vs[c], m)
<1>1. c \in Cast /\ DOMAIN vs = Cast
  BY DEF Fits, Whole
<1>2. CASE ~Accepts(vs, m)
  BY <1>2 DEF Applied
<1>3. CASE Accepts(vs, m)
  <2>1. /\ DOMAIN new = Cast
        /\ \A d \in Cast : d # c => new[d] = vs[d]
        /\ new[c] = view
    BY <1>1, <1>3 DEF Applied
  <2>2. view \in FullView /\ Apart(view.waiting)
    <3>1. CASE m.kind = "hello"
      <4>1. m.with \in Status
        BY <3>1 DEF Fits, Status
      <4>2. PICK ri : ri = NoRites
        OBVIOUS
      <4>3. ri \in [Rite -> RiteView]
        BY <4>2 DEF NoRites, RiteView
      <4>4. Fresh = [status |-> "running", rites |-> ri, waiting |-> <<>>,
                     onChildren |-> {}, blocked |-> FALSE]
        BY <4>2 DEF Fresh, NoRites
      <4>5. view = [status |-> m.with, rites |-> ri, waiting |-> <<>>,
                    onChildren |-> {}, blocked |-> FALSE]
        BY <3>1, <4>4
      <4>6. PICK wa, aw : wa = <<>> /\ aw = {}
        OBVIOUS
      <4>7. wa \in Seq(PromptView) /\ aw \in SUBSET Await
        BY <4>6
      <4>8. [status |-> m.with, rites |-> ri, waiting |-> wa,
             onChildren |-> aw, blocked |-> FALSE] \in FullView
        BY <4>1, <4>3, <4>7 DEF FullView
      <4>9. Apart(<<>>)
        BY NoneWait DEF IsWaiting
      <4> QED BY <4>5, <4>6, <4>8, <4>9
    <3>2. CASE m.kind # "hello"
      <4>1. vs[c] # NoView /\ ~Refused(vs[c], m)
        BY <1>3, <3>2 DEF Accepts
      <4>2. PICK old \in FullView : old = vs[c] /\ Apart(old.waiting)
        BY <1>1, <4>1 DEF Whole
      <4>3. PICK next : next = Updated(old, m)
        OBVIOUS
      <4>4. next \in FullView /\ Apart(next.waiting)
        BY <3>2, <4>1, <4>2, <4>3, UpdatedFull
      <4> QED BY <3>2, <4>2, <4>3, <4>4
    <3> QED BY <3>1, <3>2
  <2> HIDE DEF view, new
  <2>3. Whole(new)
    BY <1>1, <2>1, <2>2 DEF Whole
  <2> QED BY <1>3, <2>1, <2>3 DEF new, view
<1> QED BY <1>2, <1>3

(* What the hub's view takes, a view that agrees with it takes alike, or   *)
(* refuses where its end has settled that already.                         *)
LEMMA UpdatedAgree ==
    ASSUME NEW a \in FullView, NEW b \in FullView, a # b, Agree(a, b),
           NEW m, Fits(m), m.kind # "hello", ~Refused(b, m),
           NEW x, x = IF Refused(a, m) THEN a ELSE Updated(a, m),
           NEW y, y = Updated(b, m), x # NoView, y # NoView
    PROVE  Agree(x, y)
<1>1. /\ b.status \in Ended /\ a.status = b.status /\ a.rites = b.rites
      /\ a.blocked = b.blocked
  BY DEF Agree
<1>2. /\ y.status = StatusAfter(b.status, m) /\ y.rites = RitesAfter(b.rites, m)
      /\ y.blocked = BlockedAfter(b.blocked, m)
  BY UpdatedIs
<1>3. m.kind \in Kinds \ {"queued", "hello"} /\ (m.kind = "goodbye" => m.with \in Ended)
  BY DEF Fits
<1>4. y.status \in Ended
  BY <1>1, <1>2, <1>3 DEF StatusAfter
<1>5. CASE Refused(a, m)
  <2>1. m.kind \in {"resolved", "withdrawn", "claimed", "awaitEnded", "awaitWithdrawn"}
    BY <1>1, <1>5 DEF Refused
  <2>2. y.status = b.status /\ y.rites = b.rites /\ y.blocked = b.blocked
    BY <1>2, <2>1 DEF StatusAfter, RitesAfter, BlockedAfter
  <2> QED BY <1>1, <1>4, <1>5, <2>2 DEF Agree
<1>6. CASE ~Refused(a, m)
  <2>1. /\ x.status = StatusAfter(a.status, m) /\ x.rites = RitesAfter(a.rites, m)
        /\ x.blocked = BlockedAfter(a.blocked, m)
    BY <1>6, UpdatedIs
  <2> QED BY <1>1, <1>2, <1>4, <2>1 DEF Agree
<1> QED BY <1>5, <1>6

LEMMA AppliedAgree ==
    ASSUME NEW vs, Whole(vs), NEW ps, Whole(ps), AgreeAll(ps, vs),
           NEW m, Fits(m), Accepts(vs, m)
    PROVE  AgreeAll(Applied(ps, m), Applied(vs, m))
<1> DEFINE c == m.cast
<1>1. c \in Cast
  BY DEF Fits
<1>2. ASSUME NEW d \in Cast, d # c PROVE Agree(Applied(ps, m)[d], Applied(vs, m)[d])
  BY <1>2, AppliedWhole DEF AgreeAll
<1>3. Agree(Applied(ps, m)[c], Applied(vs, m)[c])
  <2>1. CASE m.kind = "hello"
    <3>1. Accepts(ps, m) /\ Accepts(vs, m)
      BY <2>1 DEF Accepts
    <3>2. /\ Applied(ps, m)[c] = [Fresh EXCEPT !.status = m.with]
          /\ Applied(vs, m)[c] = [Fresh EXCEPT !.status = m.with]
      BY <2>1, <3>1, AppliedWhole
    <3> QED BY <3>2 DEF Agree
  <2>2. CASE m.kind # "hello"
    <3>1. vs[c] # NoView /\ ~Refused(vs[c], m)
      BY <2>2 DEF Accepts
    <3>2. ps[c] # NoView
      BY <1>1, <3>1 DEF AgreeAll, Agree
    <3>3. PICK a \in FullView, b \in FullView : a = ps[c] /\ b = vs[c] /\ Apart(a.waiting) /\ Apart(b.waiting)
      BY <1>1, <3>1, <3>2 DEF Whole
    <3>4. Accepts(ps, m) <=> ~Refused(a, m)
      BY <2>2, <3>2, <3>3 DEF Accepts
    <3>5. PICK x, y : x = (IF Refused(a, m) THEN a ELSE Updated(a, m)) /\ y = Updated(b, m)
      OBVIOUS
    <3>6. Applied(ps, m)[c] = x
      BY <2>2, <3>3, <3>4, <3>5, AppliedWhole
    <3>7. Applied(vs, m)[c] = y
      BY <2>2, <3>3, <3>5, AppliedWhole
    <3>8. CASE a = b
      BY <3>1, <3>3, <3>5, <3>6, <3>7, <3>8 DEF Agree
    <3>9. CASE a # b
      <4>1. x # NoView
        <5>1. CASE Refused(a, m)
          BY <3>5, <5>1, FullViewIs
        <5>2. CASE ~Refused(a, m)
          <6>1. x = Updated(a, m)
            BY <3>5, <5>2
          <6>2. x \in FullView
            BY <2>2, <3>3, <5>2, <6>1, UpdatedFull
          <6> QED BY <6>2, FullViewIs
        <5> QED BY <5>1, <5>2
      <4>2. y # NoView
        <5>1. y \in FullView
          BY <2>2, <3>1, <3>3, <3>5, UpdatedFull
        <5> QED BY <5>1, FullViewIs
      <4>3. Agree(a, b)
        BY <1>1, <3>3 DEF AgreeAll
      <4>4. ~Refused(b, m)
        BY <3>1, <3>3
      <4>5. Agree(x, y)
        BY <2>2, <3>5, <3>9, <4>1, <4>2, <4>3, <4>4, UpdatedAgree
      <4> QED BY <3>6, <3>7, <4>5
    <3> QED BY <3>8, <3>9
  <2> QED BY <2>1, <2>2
<1> QED BY <1>2, <1>3 DEF AgreeAll

(* Claims let go of change who holds what, and no more.                    *)
LEMMA UnheldFull ==
    ASSUME NEW vs, Whole(vs), NEW lost
    PROVE  /\ Whole(Unheld(vs, lost))
           /\ \A c \in Cast :
                /\ Unheld(vs, lost)[c] = NoView <=> vs[c] = NoView
                /\ vs[c] # NoView =>
                    /\ Unheld(vs, lost)[c].status = vs[c].status
                    /\ Unheld(vs, lost)[c].rites = vs[c].rites
                    /\ Unheld(vs, lost)[c].blocked = vs[c].blocked
<1>1. DOMAIN Unheld(vs, lost) = Cast
  BY DEF Unheld
<1>2. ASSUME NEW c \in Cast, vs[c] = NoView PROVE Unheld(vs, lost)[c] = NoView
  BY <1>2 DEF Unheld
<1>3. ASSUME NEW c \in Cast, vs[c] # NoView
      PROVE  LET new == Unheld(vs, lost)[c]
             IN  /\ new \in FullView /\ Apart(new.waiting) /\ new # NoView
                 /\ new.status = vs[c].status /\ new.rites = vs[c].rites
                 /\ new.blocked = vs[c].blocked
  <2>1. PICK view \in FullView : view = vs[c] /\ Apart(view.waiting)
    BY <1>3 DEF Whole
  <2>2. /\ view.status \in Status /\ view.rites \in [Rite -> RiteView]
        /\ view.waiting \in Seq(PromptView) /\ view.onChildren \subseteq Await
        /\ view.blocked \in BOOLEAN
        /\ view = [status |-> view.status, rites |-> view.rites, waiting |-> view.waiting,
                   onChildren |-> view.onChildren, blocked |-> view.blocked]
    BY FullViewIs
  <2>3. IsWaiting(view.waiting)
    BY <2>1, <2>2 DEF IsWaiting
  <2>4. PICK t : t = UnheldIn(view.waiting, lost)
    OBVIOUS
  <2>5. t \in Seq(PromptView) /\ Apart(t)
    BY <2>3, <2>4, UnheldShows DEF IsWaiting
  <2>6. Unheld(vs, lost)[c] = [view EXCEPT !.waiting = t]
    BY <1>3, <2>1, <2>4 DEF Unheld, UnheldIn
  <2>7. [view EXCEPT !.waiting = t]
        = [status |-> view.status, rites |-> view.rites, waiting |-> t,
           onChildren |-> view.onChildren, blocked |-> view.blocked]
    BY <2>2
  <2>8. PICK new : new = [status |-> view.status, rites |-> view.rites, waiting |-> t,
                          onChildren |-> view.onChildren, blocked |-> view.blocked]
    OBVIOUS
  <2>9. new \in FullView
    BY <2>2, <2>5, <2>8 DEF FullView
  <2>10. /\ new.waiting = t /\ new.status = view.status /\ new.rites = view.rites
         /\ new.blocked = view.blocked /\ new # NoView
    BY <2>8, <2>9, FullViewIs
  <2> QED BY <2>1, <2>5, <2>6, <2>7, <2>8, <2>9, <2>10
<1> QED BY <1>1, <1>2, <1>3 DEF Whole

LEMMA UnheldAgree ==
    ASSUME NEW vs, Whole(vs), NEW ps, Whole(ps), AgreeAll(ps, vs), NEW lost
    PROVE  AgreeAll(Unheld(ps, lost), Unheld(vs, lost))
<1> SUFFICES ASSUME NEW c \in Cast PROVE Agree(Unheld(ps, lost)[c], Unheld(vs, lost)[c])
  BY DEF AgreeAll
<1>1. Agree(ps[c], vs[c])
  BY DEF AgreeAll
<1>2. CASE ps[c] = vs[c]
  BY <1>2 DEF Unheld, Agree
<1>3. CASE ps[c] # vs[c]
  <2>1. /\ ps[c] # NoView /\ vs[c] # NoView /\ vs[c].status \in Ended
        /\ ps[c].status = vs[c].status /\ ps[c].rites = vs[c].rites
        /\ ps[c].blocked = vs[c].blocked
    BY <1>1, <1>3 DEF Agree
  <2> QED BY <2>1, UnheldFull DEF Agree
<1> QED BY <1>2, <1>3

(* The inductive invariant of PictureFollows, with HubInv: a window that   *)
(* is up, and is sent what is fanned out, has views that are whole and     *)
(* agree with the hub's; one that is yet to open has none.                 *)
PictureInv ==
    /\ Whole(views)
    /\ DOMAIN picture = Window
    /\ \A w \in Window : window[w] = "unopened" => picture[w] = NoViews
    /\ \A w \in surfaces : window[w] = "up" => Whole(picture[w]) /\ AgreeAll(picture[w], views)

LEMMA PicturesKept ==
    ASSUME PictureInv, UNCHANGED <<views, surfaces, picture, window>>
    PROVE  PictureInv'
BY DEF PictureInv, Whole, AgreeAll, Agree

LEMMA FanOutPictures ==
    ASSUME PictureInv, NEW held, NEW m, Fits(m), Accepts(views, m), NEW isTold,
           FanOut(held, m, isTold, surfaces), surfaces \subseteq Window, window' = window
    PROVE  PictureInv'
<1>1. PICK gone \in SUBSET {w \in surfaces : window[w] = "dead"} :
        /\ views' = Unheld(Applied(views, m), LetGo(held, gone))
        /\ surfaces' = surfaces \ gone
        /\ picture' = [w \in Window |-> IF w \in surfaces \ gone /\ window[w] = "up"
                                        THEN Unheld(Applied(picture[w], m), LetGo(held, gone))
                                        ELSE picture[w]]
  BY DEF FanOut, Spreads
<1>2. PICK lost : lost = LetGo(held, gone)
  OBVIOUS
<1>3. Whole(views) /\ Whole(Applied(views, m))
  BY AppliedWhole DEF PictureInv
<1>4. Whole(views')
  BY <1>1, <1>3, UnheldFull
<1>5. DOMAIN picture' = Window
  BY <1>1
<1>6. ASSUME NEW w \in Window, window'[w] = "unopened" PROVE picture'[w] = NoViews
  BY <1>1, <1>6 DEF PictureInv
<1>7. ASSUME NEW w \in surfaces', window'[w] = "up"
      PROVE  Whole(picture'[w]) /\ AgreeAll(picture'[w], views')
  <2>1. w \in Window /\ w \in surfaces \ gone /\ window[w] = "up"
    BY <1>1, <1>7
  <2>2. PICK ps, vs : ps = picture[w] /\ vs = views
    OBVIOUS
  <2>3. Whole(ps) /\ AgreeAll(ps, vs) /\ Whole(vs) /\ Accepts(vs, m)
    BY <2>1, <2>2 DEF PictureInv
  <2>4. Whole(Applied(ps, m)) /\ Whole(Applied(vs, m)) /\ AgreeAll(Applied(ps, m), Applied(vs, m))
    BY <2>3, AppliedWhole, AppliedAgree
  <2>5. Whole(Unheld(Applied(ps, m), lost)) /\ AgreeAll(Unheld(Applied(ps, m), lost), Unheld(Applied(vs, m), lost))
    BY <2>4, UnheldFull, UnheldAgree
  <2>6. picture'[w] = Unheld(Applied(ps, m), lost) /\ views' = Unheld(Applied(vs, m), lost)
    BY <1>1, <1>2, <2>1, <2>2
  <2> QED BY <2>5, <2>6
<1>8. Whole(views)' /\ (\A w \in surfaces' : window'[w] = "up" => Whole(picture[w])' /\ AgreeAll(picture[w], views)')
  BY <1>4, <1>7 DEF Whole, AgreeAll, Agree
<1> QED BY <1>5, <1>6, <1>8 DEF PictureInv

LEMMA ApplyPictures ==
    ASSUME HubInv, PictureInv, NEW m, Fits(m), Apply(m), window' = window
    PROVE  PictureInv'
<1>1. surfaces \subseteq Window
  BY DEF HubInv, HubSide
<1>2. CASE Accepts(views, m)
  BY <1>1, <1>2, FanOutPictures DEF Apply
<1>3. CASE ~Accepts(views, m)
  BY <1>3, PicturesKept DEF Apply
<1> QED BY <1>2, <1>3

LEMMA SaysPictures ==
    ASSUME HubInv, PictureInv, NEW c, NEW m, Fits(m), Says(c, m), window' = window
    PROVE  PictureInv'
BY ApplyPictures, PicturesKept DEF Says, hubVars

LEMMA CastPictures ==
    ASSUME HubInv, PictureInv, NEW c \in Cast,
           \/ Queues(c) \/ Attaches(c) \/ Drops(c) \/ Disconnects(c) \/ Reads(c)
           \/ Ends(c) \/ TreeChanges(c)
    PROVE  PictureInv'
<1>1. surfaces \subseteq Window
  BY DEF HubInv, HubSide
<1>2. CASE Queues(c)
  <2> DEFINE m == Hello(c, "queued")
  <2>1. m.kind = "hello" /\ m.cast = c /\ m.with = "queued"
    BY DEF Hello, Message
  <2>2. FanOut(claims, m, told, surfaces) /\ window' = window
    BY <1>2 DEF Queues, windowVars
  <2> HIDE DEF m
  <2>3. Fits(m) /\ Accepts(views, m)
    BY <2>1 DEF Fits, Kinds, OnPrompts, Accepts
  <2> QED BY <1>1, <2>2, <2>3, FanOutPictures
<1>3. CASE Attaches(c) \/ Drops(c)
  BY <1>3, PicturesKept DEF Attaches, Drops, windowVars
<1>4. CASE Disconnects(c)
  <2> DEFINE m == Goodbye(c, "disconnected")
  <2>1. m.kind = "goodbye" /\ m.cast = c /\ m.with = "disconnected"
    BY DEF Goodbye, Message
  <2>2. Apply(m) /\ window' = window
    BY <1>4 DEF Disconnects, windowVars
  <2> HIDE DEF m
  <2>3. Fits(m)
    BY <2>1 DEF Fits, Kinds, OnPrompts, Ended
  <2> QED BY <2>2, <2>3, ApplyPictures
<1>5. CASE Reads(c)
  <2>1. saying[c] # <<>> /\ saying[c] \in Seq(Opening(c))
    BY <1>5 DEF Reads, HubInv, OpensInOrder
  <2>2. PICK m : m = Head(saying[c])
    OBVIOUS
  <2>3. m \in Opening(c)
    BY <2>1, <2>2, HeadTailProperties
  <2>4. Fits(m)
    <3>1. CASE m \in {Hello(c, "running"), Plain("begin", c), Plain("end", c)}
      BY <3>1 DEF Hello, Plain, Message, Fits, Kinds, OnPrompts
    <3>2. CASE m \in {Message(kind, c, r, Nobody) : kind \in {"started", "finished"}, r \in Rite}
      BY <3>2 DEF Message, Fits, Kinds, OnPrompts
    <3>3. CASE m \in {Message("asked", c, p, Nobody) : p \in {q \in Prompt : Of[q] = c}}
      BY <3>3 DEF Message, Fits, Kinds, OnPrompts
    <3>4. CASE m \in {Message("awaits", c, k, Nobody) : k \in Await}
      BY <3>4 DEF Message, Fits, Kinds, OnPrompts
    <3> QED BY <2>3, <3>1, <3>2, <3>3, <3>4 DEF Opening
  <2>5. Apply(m) /\ window' = window
    BY <1>5, <2>2 DEF Reads, windowVars
  <2> QED BY <2>4, <2>5, ApplyPictures
<1>6. CASE Ends(c)
  <2>1. PICK status \in {"ok", "error"} : Says(c, Goodbye(c, status))
    BY <1>6 DEF Ends
  <2> DEFINE m == Goodbye(c, status)
  <2>2. m.kind = "goodbye" /\ m.cast = c /\ m.with = status
    BY DEF Goodbye, Message
  <2>3. Says(c, m) /\ window' = window
    BY <1>6, <2>1 DEF Ends, windowVars
  <2> HIDE DEF m
  <2>4. Fits(m)
    BY <2>2 DEF Fits, Kinds, OnPrompts, Ended
  <2> QED BY <2>3, <2>4, SaysPictures
<1>7. CASE TreeChanges(c)
  <2> DEFINE m == Plain(IF views[c].blocked THEN "freed" ELSE "blocked", c)
  <2>1. m.kind \in {"blocked", "freed"} /\ m.cast = c
    BY DEF Plain, Message
  <2>2. Apply(m) /\ window' = window
    BY <1>7 DEF TreeChanges, windowVars
  <2> HIDE DEF m
  <2>3. Fits(m)
    BY <2>1 DEF Fits, Kinds, OnPrompts
  <2> QED BY <2>2, <2>3, ApplyPictures
<1> QED BY <1>2, <1>3, <1>4, <1>5, <1>6, <1>7

(* Messages about a prompt, an await or a rite.                            *)
LEMMA AboutFits ==
    /\ \A p \in Prompt, kind \in {"asked", "resolved", "withdrawn"} :
        Fits(Message(kind, Of[p], p, Nobody))
    /\ \A p \in Prompt, w \in Holder : Fits(Claimed(p, w))
    /\ \A k \in Await, kind \in {"awaits", "awaitEnded", "awaitWithdrawn"} :
        Fits(Message(kind, Of[k], k, Nobody))
    /\ \A r \in Rite, kind \in {"started", "finished"} : Fits(Message(kind, Of[r], r, Nobody))
    /\ \A r \in Rite : Fits(Message("delta", Of[r], r, 1))
<1>1. \A x \in Prompt \cup Rite \cup Await : Of[x] \in Cast
  BY ViewsAssumption
<1>2. \A p \in Prompt, kind \in {"asked", "resolved", "withdrawn"} :
        Fits(Message(kind, Of[p], p, Nobody))
  BY <1>1 DEF Fits, Message, Kinds, OnPrompts
<1>3. \A p \in Prompt, w \in Holder : Fits(Claimed(p, w))
  BY <1>1 DEF Fits, Claimed, Message, Kinds, OnPrompts
<1>4. \A k \in Await, kind \in {"awaits", "awaitEnded", "awaitWithdrawn"} :
        Fits(Message(kind, Of[k], k, Nobody))
  BY <1>1 DEF Fits, Message, Kinds, OnPrompts
<1>5. \A r \in Rite, kind \in {"started", "finished"} : Fits(Message(kind, Of[r], r, Nobody))
  BY <1>1 DEF Fits, Message, Kinds, OnPrompts
<1>6. \A r \in Rite : Fits(Message("delta", Of[r], r, 1))
  BY <1>1 DEF Fits, Message, Kinds, OnPrompts
<1> QED BY <1>2, <1>3, <1>4, <1>5, <1>6

LEMMA SaidPictures ==
    ASSUME HubInv, PictureInv,
           \/ \E p \in Prompt : Asks(p) \/ Settles(p)
           \/ \E k \in Await : Awaits(k) \/ AwaitEnds(k)
           \/ \E r \in Rite : Streams(r)
    PROVE  PictureInv'
<1>1. ASSUME NEW p \in Prompt, Asks(p) PROVE PictureInv'
  <2>1. Says(Of[p], Message("asked", Of[p], p, Nobody)) /\ window' = window
    BY <1>1 DEF Asks, CastOnly, windowVars
  <2> QED BY <2>1, AboutFits, SaysPictures
<1>2. ASSUME NEW p \in Prompt, Settles(p) PROVE PictureInv'
  <2>1. PICK kind \in {"resolved", "withdrawn"} : Says(Of[p], Message(kind, Of[p], p, Nobody))
    BY <1>2 DEF Settles
  <2>2. window' = window
    BY <1>2 DEF Settles, CastOnly, windowVars
  <2> QED BY <2>1, <2>2, AboutFits, SaysPictures
<1>3. ASSUME NEW k \in Await, Awaits(k) PROVE PictureInv'
  <2>1. Says(Of[k], Message("awaits", Of[k], k, Nobody)) /\ window' = window
    BY <1>3 DEF Awaits, CastOnly, windowVars
  <2> QED BY <2>1, AboutFits, SaysPictures
<1>4. ASSUME NEW k \in Await, AwaitEnds(k) PROVE PictureInv'
  <2>1. \/ Apply(Message("awaitEnded", Of[k], k, Nobody))
        \/ Says(Of[k], Message("awaitWithdrawn", Of[k], k, Nobody))
    BY <1>4 DEF AwaitEnds
  <2>2. window' = window
    BY <1>4 DEF AwaitEnds, CastOnly, windowVars
  <2> QED BY <2>1, <2>2, AboutFits, ApplyPictures, SaysPictures
<1>5. ASSUME NEW r \in Rite, Streams(r) PROVE PictureInv'
  <2>1. \/ Says(Of[r], Message("started", Of[r], r, Nobody))
        \/ Says(Of[r], Message("delta", Of[r], r, 1))
        \/ Says(Of[r], Message("finished", Of[r], r, Nobody))
    BY <1>5 DEF Streams
  <2>2. window' = window
    BY <1>5 DEF Streams, CastOnly, windowVars
  <2> QED BY <2>1, <2>2, AboutFits, SaysPictures
<1> QED BY <1>1, <1>2, <1>3, <1>4, <1>5

(* A window that attaches: the replay brings it up to the hub's views.     *)
LEMMA OpensPictures ==
    ASSUME HubInv, PictureInv, NEW w \in Window, Opens(w)
    PROVE  PictureInv'
<1>1. /\ window[w] = "unopened" /\ window' = [window EXCEPT ![w] = "up"]
      /\ surfaces' = surfaces \cup {w} /\ views' = views
      /\ picture' = [picture EXCEPT ![w] = AllApplied(picture[w], Replay(views))]
      /\ DOMAIN window = Window /\ DOMAIN picture = Window /\ surfaces \subseteq Window
  BY DEF Opens, HubInv, HubSide, WindowTypes, PictureInv
<1>2. picture[w] = NoViews
  BY <1>1 DEF PictureInv
<1>3. PICK vs : vs = views
  OBVIOUS
<1>4. Whole(vs)
  BY <1>3 DEF PictureInv
<1>5. \A c \in Cast : vs[c] # NoView => \A p \in Prompts(vs[c]) : Of[p] = c
  BY <1>3 DEF HubInv, HubSide, IsViews
<1>6. AllApplied(NoViews, Replay(vs)) = ShownOf(vs)
  BY <1>4, <1>5, ReplaySaid
<1>7. Whole(ShownOf(vs)) /\ AgreeAll(ShownOf(vs), vs)
  <2>1. DOMAIN ShownOf(vs) = Cast /\ \A c \in Cast : ShownOf(vs)[c] = Shown(vs[c])
    BY DEF ShownOf
  <2>2. \A c \in Cast : vs[c] # NoView => vs[c] \in FullView /\ Apart(vs[c].waiting)
    BY <1>4 DEF Whole
  <2>3. ASSUME NEW c \in Cast
        PROVE  /\ Agree(ShownOf(vs)[c], vs[c])
               /\ ShownOf(vs)[c] # NoView
                    => ShownOf(vs)[c] \in FullView /\ Apart(ShownOf(vs)[c].waiting)
    BY <2>1, <2>2, ShownAgrees
  <2> QED BY <2>1, <2>3 DEF Whole, AgreeAll
<1>8. /\ picture'[w] = ShownOf(vs) /\ window'[w] = "up" /\ DOMAIN picture' = Window
      /\ \A v \in Window : v # w => picture'[v] = picture[v] /\ window'[v] = window[v]
  BY <1>1, <1>2, <1>3, <1>6
<1>9. ASSUME NEW v \in surfaces', window'[v] = "up"
      PROVE  Whole(picture'[v]) /\ AgreeAll(picture'[v], vs)
  <2>1. CASE v = w
    BY <1>7, <1>8, <2>1
  <2>2. CASE v # w
    BY <1>1, <1>3, <1>8, <1>9, <2>2 DEF PictureInv
  <2> QED BY <2>1, <2>2
<1>10. /\ Whole(views)'
       /\ \A v \in surfaces' : window'[v] = "up" => Whole(picture[v])' /\ AgreeAll(picture[v], views)'
  BY <1>1, <1>3, <1>4, <1>9 DEF Whole, AgreeAll, Agree
<1>11. \A v \in Window : window'[v] = "unopened" => picture'[v] = NoViews
  BY <1>8 DEF PictureInv
<1> QED BY <1>8, <1>10, <1>11 DEF PictureInv

LEMMA DetachesPictures ==
    ASSUME HubInv, PictureInv, NEW w \in Window, Detaches(w)
    PROVE  PictureInv'
<1>1. /\ window[w] = "dead" /\ window' = [window EXCEPT ![w] = "shut"]
      /\ DOMAIN window = Window /\ surfaces \subseteq Window
  BY DEF Detaches, HubInv, HubSide, WindowTypes
<1>2. PICK gone, lost :
        /\ views' = Unheld(views, lost)
        /\ surfaces' = surfaces \ gone
        /\ picture' = [v \in Window |-> IF v \in surfaces \ gone /\ window[v] = "up"
                                        THEN Unheld(picture[v], lost) ELSE picture[v]]
        /\ w \in gone
  <2>1. PICK more \in SUBSET {v \in surfaces \ {w} : window[v] = "dead"} :
          Spreads(LAMBDA vs : vs, claims, more \cup {w}, surfaces)
    BY DEF Detaches
  <2>2. /\ views' = Unheld(views, LetGo(claims, more \cup {w}))
        /\ surfaces' = surfaces \ (more \cup {w})
        /\ picture' = [v \in Window |->
                         IF v \in surfaces \ (more \cup {w}) /\ window[v] = "up"
                         THEN Unheld(picture[v], LetGo(claims, more \cup {w})) ELSE picture[v]]
    BY <2>1 DEF Spreads
  <2>3. w \in more \cup {w}
    OBVIOUS
  <2> QED BY <2>2, <2>3
<1>3. Whole(views) /\ Whole(views')
  BY <1>2, UnheldFull DEF PictureInv
<1>4. /\ \A v \in Window : v # w => window'[v] = window[v]
      /\ window'[w] = "shut"
  BY <1>1
<1>5. ASSUME NEW v \in surfaces', window'[v] = "up"
      PROVE  Whole(picture'[v]) /\ AgreeAll(picture'[v], views')
  <2>1. v \in Window /\ v \in surfaces \ gone /\ v # w /\ window[v] = "up"
    BY <1>1, <1>2, <1>4, <1>5
  <2>2. PICK ps, vs : ps = picture[v] /\ vs = views
    OBVIOUS
  <2>3. Whole(ps) /\ AgreeAll(ps, vs) /\ Whole(vs)
    BY <2>1, <2>2 DEF PictureInv
  <2>4. Whole(Unheld(ps, lost)) /\ AgreeAll(Unheld(ps, lost), Unheld(vs, lost))
    BY <2>3, UnheldFull, UnheldAgree
  <2>5. picture'[v] = Unheld(ps, lost) /\ views' = Unheld(vs, lost)
    BY <1>2, <2>1, <2>2
  <2> QED BY <2>4, <2>5
<1>6. /\ Whole(views)'
      /\ \A v \in surfaces' : window'[v] = "up" => Whole(picture[v])' /\ AgreeAll(picture[v], views)'
  BY <1>3, <1>5 DEF Whole, AgreeAll, Agree
<1>7. DOMAIN picture' = Window /\ \A v \in Window : window'[v] = "unopened" => picture'[v] = NoViews
  <2>1. ASSUME NEW v \in Window, window'[v] = "unopened" PROVE picture'[v] = NoViews
    <3>1. v # w /\ window[v] = "unopened"
      BY <1>4, <2>1
    <3> QED BY <1>2, <3>1 DEF PictureInv
  <2> QED BY <1>2, <2>1
<1> QED BY <1>6, <1>7 DEF PictureInv

LEMMA WindowPictures ==
    ASSUME HubInv, PictureInv, NEW w \in Window,
           \/ Takes(w) \/ Dismisses(w) \/ Types(w) \/ Repaints(w) \/ Closes(w) \/ ReadsWindow(w)
    PROVE  PictureInv'
<1>1. CASE Takes(w) \/ Dismisses(w) \/ Types(w) \/ Repaints(w)
  BY <1>1, PicturesKept DEF Takes, Dismisses, Types, Repaints, hub
<1>2. CASE Closes(w)
  <2>1. /\ window' = [window EXCEPT ![w] = "dead"] /\ views' = views /\ surfaces' = surfaces
        /\ picture' = [picture EXCEPT ![w] = NoViews]
        /\ DOMAIN window = Window /\ DOMAIN picture = Window /\ surfaces \subseteq Window
    BY <1>2 DEF Closes, hub, NoViews, HubInv, HubSide, WindowTypes, PictureInv
  <2>2. /\ \A v \in Window : v # w => window'[v] = window[v] /\ picture'[v] = picture[v]
        /\ window'[w] = "dead" /\ DOMAIN picture' = Window
    BY <2>1
  <2>3. \A v \in surfaces' : window'[v] = "up" => v # w /\ v \in Window /\ v \in surfaces
    BY <2>1, <2>2
  <2>4. Whole(views)'
    BY <2>1 DEF PictureInv, Whole
  <2>5. \A v \in surfaces' : window'[v] = "up" => Whole(picture[v])' /\ AgreeAll(picture[v], views)'
    BY <2>1, <2>2, <2>3 DEF PictureInv, Whole, AgreeAll, Agree
  <2>6. \A v \in Window : window'[v] = "unopened" => picture'[v] = NoViews
    BY <2>2 DEF PictureInv
  <2> QED BY <2>2, <2>4, <2>5, <2>6 DEF PictureInv
<1>3. CASE ReadsWindow(w)
  <2>1. PICK p : p = Head(outbox[w]).prompt
    OBVIOUS
  <2>2. p \in Prompt /\ window' = window
    BY <1>3, <2>1, WordRead
  <2>3. Answer(w, p) \/ Claim(w, p) \/ Release(w, p)
    BY <1>3, <2>1 DEF ReadsWindow
  <2>4. w \in Holder /\ Nobody \in Holder /\ surfaces \subseteq Window
    BY DEF Holder, HubInv, HubSide
  <2>5. ASSUME NEW held, NEW isTold, NEW v \in Holder, Asking(p),
               FanOut(held, Claimed(p, v), isTold, surfaces)
        PROVE  PictureInv'
    <3> DEFINE m == Claimed(p, v)
    <3>1. m.kind = "claimed" /\ m.cast = Of[p] /\ m.what = p
      BY DEF Claimed, Message
    <3>2. Fits(m)
      BY <2>2, AboutFits
    <3>3. FanOut(held, m, isTold, surfaces)
      BY <2>5
    <3> HIDE DEF m
    <3>4. Accepts(views, m)
      BY <2>5, <3>1 DEF Asking, Accepts, Refused
    <3> QED BY <2>2, <2>4, <3>2, <3>3, <3>4, FanOutPictures
  <2>6. CASE Answer(w, p)
    <3>1. Apply(Message("resolved", Of[p], p, Nobody)) \/ UNCHANGED hubVars
      BY <2>6 DEF Answer
    <3>2. UNCHANGED hubVars => PictureInv'
      BY <2>2, PicturesKept DEF hubVars
    <3> QED BY <2>2, <3>1, <3>2, AboutFits, ApplyPictures
  <2>7. CASE Claim(w, p)
    <3>1. CASE Asking(p)
      BY <2>4, <2>5, <2>7, <3>1 DEF Claim
    <3>2. CASE ~Asking(p)
      BY <2>2, <2>7, <3>2, PicturesKept DEF Claim, hubVars
    <3> QED BY <3>1, <3>2
  <2>8. CASE Release(w, p)
    <3>1. CASE Asking(p) /\ claims[p] = w
      BY <2>4, <2>5, <2>8, <3>1 DEF Release
    <3>2. CASE ~(Asking(p) /\ claims[p] = w)
      BY <2>2, <2>8, <3>2, PicturesKept DEF Release, hubVars
    <3> QED BY <3>1, <3>2
  <2> QED BY <2>3, <2>6, <2>7, <2>8
<1> QED BY <1>1, <1>2, <1>3

LEMMA PictureNext ==
    ASSUME HubInv, PictureInv, [Next]_vars
    PROVE  PictureInv'
<1>1. CASE UNCHANGED vars
  BY <1>1, PicturesKept DEF vars
<1>2. CASE Next
  BY <1>2, CastPictures, SaidPictures, OpensPictures, DetachesPictures, WindowPictures DEF Next
<1> QED BY <1>1, <1>2

(* What a window shows is what the hub holds, in every state it reaches:   *)
(* the replay a window attaches with, and the fan-out it is in from there  *)
(* on, leave it no message behind and none too many.                       *)
THEOREM PictureFollowsCorrect == Spec => []PictureFollows
<1>1. Init => PictureInv
  BY DEF Init, PictureInv, Whole, NoViews
<1>2. HubInv /\ PictureInv /\ [Next]_vars => PictureInv'
  BY PictureNext
<1>3. PictureInv => PictureFollows
  <2> SUFFICES ASSUME PictureInv, NEW w \in surfaces, NEW c \in Cast, window[w] = "up"
               PROVE  Shown(picture[w][c]) = Shown(views[c])
    BY DEF PictureFollows
  <2>1. /\ Agree(picture[w][c], views[c])
        /\ picture[w][c] # NoView => picture[w][c] \in FullView
        /\ views[c] # NoView => views[c] \in FullView
    BY DEF PictureInv, Whole, AgreeAll
  <2> QED BY <2>1, AgreeShown
<1> QED BY <1>1, <1>2, <1>3, HubInvHolds, PTL DEF Spec
=============================================================================
