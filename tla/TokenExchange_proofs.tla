------------------------ MODULE TokenExchange_proofs ------------------------
(***************************************************************************)
(* The safety of TokenExchange, for every value of its constants.          *)
(*                                                                         *)
(* What is promised of the tokens that clients hold is promised already of *)
(* those that a handler is about to sign, record or answer with (IssuingOK)*)
(* and rests on what a candidate that can settle is rooted at: a token     *)
(* that was released (SettlingOK).  A release is paid for by a record      *)
(* before it happens, and a record by an issue (Paid).                     *)
(***************************************************************************)
EXTENDS TokenExchange, FiniteSetTheorems, TLAPS

Rejecting == [IdleTask EXCEPT !.stage = "rejecting"]

Settling == [stage : {"settling"}, kid : Kid, signs : {0}, work : Candidate]

Issuing == [stage : {"signing", "recording", "answering"}, kid : Kid,
            signs : 0..Signatures, work : Token]

Task == {IdleTask, Rejecting} \cup Settling \cup Issuing

Shape ==
    /\ status \in [Kid -> Ring!State]
    /\ retiredAt \in [Kid -> 0..MaxTime \cup {None}]
    /\ now \in 0..MaxTime
    /\ task \in [Handler -> Task]
    /\ tokens \subseteq Token /\ IsFiniteSet(tokens)
    /\ trail \in [Lineage \X Position -> Nat]
    /\ roots \in [Lineage -> Root \cup {None}]
    /\ issued \in Nat /\ faults \in 0..MaxFaults

\* The lineages that were begun are the first ones.
RootsOK == \E n \in Nat : \A l \in Lineage : roots[l] # None <=> l <= n

\* What every token has in common with the first one of its lineage, whether
\* a client holds it yet or not, when the lineages began with r and n tokens
\* were issued.
Rooted(t, r, n) ==
    /\ t.id <= n
    /\ t.position < n
    /\ r[t.lineage] # None
    /\ t.expires = r[t.lineage].expires
    /\ t.invariants \subseteq r[t.lineage].invariants
    /\ r[t.lineage].contract \subseteq t.contract
    /\ t.position > 0 => r[t.lineage].contract \subseteq t.claims

TokensOK == \A t \in tokens : Rooted(t, roots, issued) /\ t.signers = {t.kid}

\* A token on its way: every signature it has so far is by the key that its
\* header names.
IssuingOK ==
    \A h \in Handler : task[h].stage \in {"signing", "recording", "answering"} =>
        /\ task[h].kid = task[h].work.kid
        /\ task[h].stage = "signing" <=> task[h].signs < Signatures
        /\ task[h].work.signers = IF task[h].signs = 0 THEN {} ELSE {task[h].kid}
        /\ Rooted(task[h].work, roots, issued)

\* A candidate over whose predecessor the realm's signature verifies is rooted
\* at a token of the realm.
SettlingOK ==
    \A h \in Handler : task[h].stage = "settling" /\ task[h].work.genuine =>
        task[h].work.base \in tokens

ReleasedAt(l, p) == {t \in tokens : t.lineage = l /\ t.position = p}
InStage(stages, l, p) ==
    {h \in Handler : /\ task[h].stage \in stages
                     /\ task[h].work.lineage = l /\ task[h].work.position = p}
AllSettling == {h \in Handler : task[h].stage = "settling"}

\* Releases are paid for with records, records with issues, and there is room
\* for what is being settled.
Paid ==
    /\ issued + Cardinality(AllSettling) <= MaxTokens
    /\ \A l \in Lineage, p \in Position :
           /\ Cardinality(ReleasedAt(l, p)) + Cardinality(InStage({"answering"}, l, p))
                  <= trail[<<l, p>>]
           /\ trail[<<l, p>>] + Cardinality(InStage({"signing", "recording"}, l, p)) <= issued

\* The inductive invariant.
ExchangeInv == Shape /\ RootsOK /\ TokensOK /\ IssuingOK /\ SettlingOK /\ Paid

----------------------------------------------------------------------------
(* Tokens, candidates and tasks *)

\* initial_expiry: an expiry that is granted lies ahead, whatever the proposal
\* asks for and whatever the access token says.
LEMMA InitialExpiryAhead ==
    ASSUME NEW r \in Request, NEW t \in 0..MaxTime, InitialExpiry(r.proposal, r.exp, t) # None
    PROVE  /\ InitialExpiry(r.proposal, r.exp, t) \in Instant
           /\ InitialExpiry(r.proposal, r.exp, t) > t
<1> DEFINE proposal == r.proposal
           source == r.exp
           default == t + Lifetime
<1>1. /\ proposal \in Nat \cup {None} /\ source \in Nat \cup {None}
      /\ t \in Nat /\ default \in Nat
  BY TokenExchangeAssumption DEF Request
<1>2. CASE proposal # None
  <2>1. proposal \in Nat /\ proposal > t
    BY <1>1, <1>2 DEF InitialExpiry
  <2>2. InitialExpiry(r.proposal, r.exp, t) = proposal
    BY <1>2, <2>1 DEF InitialExpiry
  <2> QED
    BY <1>1, <2>1, <2>2 DEF Instant
<1>3. CASE proposal = None
  <2> DEFINE expiry == IF source = None \/ Policy = "pic" THEN default
                       ELSE IF Policy = "oauth" \/ source > default THEN source
                       ELSE default
  <2>1. InitialExpiry(r.proposal, r.exp, t) = expiry /\ expiry > t
    BY <1>3 DEF InitialExpiry
  <2>2. expiry \in Nat
    BY <1>1
  <2> HIDE DEF expiry
  <2> QED
    BY <1>1, <2>1, <2>2 DEF Instant
<1> QED
  BY <1>2, <1>3

\* What a client can send is a candidate, and one over which the realm's
\* signature verifies is rooted at a token that the realm released.
LEMMA CandidatesAreRooted ==
    ASSUME tokens \subseteq Token, NEW c \in Candidates
    PROVE  c \in Candidate /\ (c.genuine => c.base \in tokens)
<1>1. PICK b \in tokens : c \in WellFormed(b) \cup OneWrong(b)
  BY DEF Candidates
<1>2. /\ b \in Token /\ b.lineage \in Nat /\ b.expires \in Nat /\ b.position \in Nat
      /\ b.invariants \in SUBSET Mapped /\ b.contract \in SUBSET Claim
      /\ b.expires + 1 \in Instant /\ b.expires + 1 \in Nat
  BY TokenExchangeAssumption DEF Token, Lineage, Position, Instant
<1>3. ASSUME NEW d \in WellFormed(b)
      PROVE  d \in Candidate /\ d.base = b /\ d.genuine = TRUE
  <2>1. b.position + 1 \in Nat
    BY <1>2
  <2>2. WellFormed(b) \subseteq Candidate
    BY <1>2, <2>1 DEF WellFormed, Candidate
  <2>3. d.base = b /\ d.genuine = TRUE
    BY DEF WellFormed
  <2> QED
    BY <2>2, <2>3
<1>4. CASE c \in WellFormed(b)
  BY <1>3, <1>4
<1>5. CASE c \in OneWrong(b)
  <2> DEFINE P(d) == d.invariants = b.invariants /\ d.contract = b.contract /\ d.claims = Claim
             d == CHOOSE d \in WellFormed(b) : P(d)
  <2>1. d \in WellFormed(b)
    <3>1. [base |-> b, genuine |-> TRUE, sound |-> TRUE, jti |-> b.lineage, exp |-> b.expires,
           position |-> b.position + 1, invariants |-> b.invariants, contract |-> b.contract,
           claims |-> Claim] \in WellFormed(b)
      BY <1>2 DEF WellFormed
    <3>2. \E x \in WellFormed(b) : P(x)
      BY <3>1
    <3> QED
      BY <3>2
  <2>2. d \in Candidate /\ d.base = b /\ d.genuine = TRUE
    BY <1>3, <2>1
  <2>3. c \in {[d EXCEPT !.sound = FALSE], [d EXCEPT !.jti = @ + 1], [d EXCEPT !.exp = @ + 1],
               [d EXCEPT !.position = b.position],
               [d EXCEPT !.base = MadeUp(b), !.exp = b.expires + 1, !.genuine = FALSE,
                         !.invariants = Mapped, !.contract = {}]}
    BY <1>5 DEF OneWrong
  <2>4. MadeUp(b) \in Token
    BY <1>2 DEF MadeUp, Token
  <2> HIDE DEF d
  <2>5. CASE c = [d EXCEPT !.sound = FALSE]
    BY <2>2, <2>5 DEF Candidate
  <2>6. CASE c = [d EXCEPT !.jti = @ + 1]
    BY <2>2, <2>6 DEF Candidate
  <2>7. CASE c = [d EXCEPT !.exp = @ + 1]
    BY <2>2, <2>7 DEF Candidate
  <2>8. CASE c = [d EXCEPT !.position = b.position]
    BY <1>2, <2>2, <2>8 DEF Candidate
  <2>9. CASE c = [d EXCEPT !.base = MadeUp(b), !.exp = b.expires + 1, !.genuine = FALSE,
                           !.invariants = Mapped, !.contract = {}]
    BY <1>2, <2>2, <2>4, <2>9 DEF Candidate
  <2> QED
    BY <2>3, <2>5, <2>6, <2>7, <2>8, <2>9
<1> QED
  BY <1>1, <1>4, <1>5

\* A task is what its stage says.
LEMMA TaskStages ==
    ASSUME NEW u \in Task
    PROVE  /\ u.stage = "idle" => u = IdleTask
           /\ u.stage = "settling" => u \in Settling
           /\ u.stage \in {"signing", "recording", "answering"} => u \in Issuing
           /\ IdleTask.stage = "idle" /\ Rejecting.stage = "rejecting"
           /\ Rejecting \in Task /\ IdleTask \in Task
<1>1. IdleTask.stage = "idle" /\ Rejecting.stage = "rejecting"
  BY DEF IdleTask, Rejecting
<1>2. \A x \in Settling : x.stage = "settling"
  BY DEF Settling
<1>3. \A x \in Issuing : x.stage \in {"signing", "recording", "answering"}
  BY DEF Issuing
<1> QED
  BY <1>1, <1>2, <1>3 DEF Task

\* A task that goes on from settling to signing, and one that signs.
LEMMA SettlingSigns ==
    ASSUME NEW t \in Settling, NEW s
    PROVE  [t EXCEPT !.stage = "signing", !.work = s]
               = [stage |-> "signing", kid |-> t.kid, signs |-> 0, work |-> s]
<1> DEFINE x == [t EXCEPT !.stage = "signing", !.work = s]
<1>1. x \in [stage : {"signing"}, kid : {t.kid}, signs : {0}, work : {s}]
  BY DEF Settling
<1> HIDE DEF x
<1>2. x = [stage |-> "signing", kid |-> t.kid, signs |-> 0, work |-> s]
  BY <1>1
<1> QED
  BY <1>2 DEF x

LEMMA SignedIs ==
    ASSUME NEW t \in Issuing, NEW k
    PROVE  Signed(t, k) =
               [stage |-> IF t.signs + 1 = Signatures THEN "recording" ELSE "signing",
                kid |-> t.kid, signs |-> t.signs + 1,
                work |-> [t.work EXCEPT !.signers = @ \cup {k}]]
<1> DEFINE g == IF t.signs + 1 = Signatures THEN "recording" ELSE "signing"
           v == [t.work EXCEPT !.signers = @ \cup {k}]
<1>1. Signed(t, k) = [t EXCEPT !.work = v, !.signs = t.signs + 1, !.stage = g]
  BY DEF Signed, Issuing
<1> HIDE DEF g, v
<1>2. Signed(t, k) \in [stage : {g}, kid : {t.kid}, signs : {t.signs + 1}, work : {v}]
  BY <1>1 DEF Issuing
<1>3. Signed(t, k) = [stage |-> g, kid |-> t.kid, signs |-> t.signs + 1, work |-> v]
  BY <1>2
<1> QED
  BY <1>3 DEF g, v

\* The successor of a token of the realm has what the token has in common with
\* its lineage: the hop is checked on its own, and the lineage follows.
LEMMA SuccessorIsRooted ==
    ASSUME NEW c \in Candidate, NEW k \in Kid, c.base \in tokens, Settles(c),
           issued \in Nat, issued < MaxTokens, Rooted(c.base, roots, issued), roots \in [Lineage -> Root \cup {None}]
    PROVE  /\ Successor(c, k) \in Token
           /\ Successor(c, k).lineage = c.base.lineage
           /\ Successor(c, k).id = issued + 1 /\ Successor(c, k).position <= issued
           /\ Successor(c, k).kid = k /\ Successor(c, k).signers = {}
           /\ Successor(c, k).expires = roots[c.base.lineage].expires
           /\ Successor(c, k).invariants \subseteq roots[c.base.lineage].invariants
           /\ roots[c.base.lineage].contract \subseteq Successor(c, k).contract
           /\ roots[c.base.lineage].contract \subseteq Successor(c, k).claims
<1> DEFINE s == Successor(c, k)
<1>1. /\ c.base.lineage \in Lineage /\ c.base.position \in Nat /\ c.base.expires \in Instant
      /\ c.invariants \in SUBSET Mapped /\ c.contract \in SUBSET Claim /\ c.claims \in SUBSET Claim
  BY TokenExchangeAssumption DEF Candidate, Token, Position
<1>2. /\ c.position = c.base.position + 1 /\ c.base.contract \subseteq c.claims
      /\ c.invariants \subseteq c.base.invariants /\ c.base.contract \subseteq c.contract
  BY DEF Settles, Conforms, Attenuates
<1>3. /\ c.base.position < issued /\ c.base.expires = roots[c.base.lineage].expires
      /\ c.base.invariants \subseteq roots[c.base.lineage].invariants
      /\ roots[c.base.lineage].contract \subseteq c.base.contract
  BY DEF Rooted
<1>4. c.position \in Position /\ c.position <= issued /\ issued + 1 \in 1..MaxTokens
  BY <1>1, <1>2, <1>3, TokenExchangeAssumption DEF Position
<1>5. s \in Token
  BY <1>1, <1>4 DEF Successor, Token
<1>6. /\ s.lineage = c.base.lineage /\ s.id = issued + 1 /\ s.position = c.position
      /\ s.kid = k /\ s.signers = {} /\ s.expires = c.base.expires
      /\ s.invariants = c.invariants /\ s.contract = c.contract /\ s.claims = c.claims
  BY DEF Successor
<1> HIDE DEF s
<1> QED
  BY <1>2, <1>3, <1>4, <1>5, <1>6 DEF s

\* A token stays rooted: no root is ever changed.
LEMMA RootedStays ==
    ASSUME NEW t, Rooted(t, roots, issued), issued \in Nat, issued' \in Nat, issued <= issued',
           t.id \in Nat, t.position \in Nat,
           roots[t.lineage] # None => roots'[t.lineage] = roots[t.lineage]
    PROVE  Rooted(t, roots', issued')
BY DEF Rooted

----------------------------------------------------------------------------
(* Counting *)

\* Two sets that differ in one element at most.
LEMMA DifferInOne ==
    ASSUME NEW D, IsFiniteSet(D), NEW A \in SUBSET D, NEW B \in SUBSET D, NEW h,
           \A x \in D : x # h => (x \in A <=> x \in B)
    PROVE  /\ Cardinality(A) \in Nat /\ Cardinality(B) \in Nat
           /\ h \in A /\ h \notin B => Cardinality(B) = Cardinality(A) - 1
           /\ h \notin A /\ h \in B => Cardinality(B) = Cardinality(A) + 1
           /\ h \notin B => Cardinality(B) <= Cardinality(A)
           /\ (h \in A <=> h \in B) => A = B
           /\ Cardinality(B) <= Cardinality(A) + 1
<1>1. IsFiniteSet(A) /\ IsFiniteSet(B)
  BY FS_Subset
<1>2. Cardinality(A) \in Nat /\ Cardinality(B) \in Nat
  BY <1>1, FS_CardinalityType
<1>3. (h \in A <=> h \in B) => A = B
  OBVIOUS
<1>4. ASSUME h \in A, h \notin B PROVE Cardinality(B) = Cardinality(A) - 1
  <2>1. B = A \ {h}
    BY <1>4
  <2> QED
    BY <1>1, <1>4, <2>1, FS_RemoveElement
<1>5. ASSUME h \notin A, h \in B PROVE Cardinality(B) = Cardinality(A) + 1
  <2>1. B = A \cup {h}
    BY <1>5
  <2> QED
    BY <1>1, <1>5, <2>1, FS_AddElement
<1> QED
  BY <1>2, <1>3, <1>4, <1>5

At(u, S, l, p) == u.stage \in S /\ u.work.lineage = l /\ u.work.position = p

\* How the handlers in some stages change when one handler goes on.
LEMMA StageCounts ==
    ASSUME task \in [Handler -> Task], NEW h \in Handler, NEW u, task' = [task EXCEPT ![h] = u],
           NEW S, NEW l, NEW p
    PROVE  /\ Cardinality(InStage(S, l, p)) \in Nat /\ Cardinality(InStage(S, l, p)') \in Nat
           /\ At(task[h], S, l, p) /\ ~At(u, S, l, p)
                  => Cardinality(InStage(S, l, p)') + 1 <= Cardinality(InStage(S, l, p))
           /\ ~At(u, S, l, p) => Cardinality(InStage(S, l, p)') <= Cardinality(InStage(S, l, p))
           /\ At(task[h], S, l, p) => Cardinality(InStage(S, l, p)') <= Cardinality(InStage(S, l, p))
           /\ Cardinality(InStage(S, l, p)') <= Cardinality(InStage(S, l, p)) + 1
<1> DEFINE A == InStage(S, l, p)
           B == InStage(S, l, p)'
<1>1. A \in SUBSET Handler /\ B \in SUBSET Handler
  BY DEF InStage
<1>2. /\ \A x \in Handler : x # h => (x \in A <=> x \in B)
      /\ h \in A <=> At(task[h], S, l, p)
      /\ h \in B <=> At(u, S, l, p)
  BY DEF InStage, At
<1>3. IsFiniteSet(Handler)
  BY TokenExchangeAssumption
<1> HIDE DEF A, B
<1>4. /\ Cardinality(A) \in Nat /\ Cardinality(B) \in Nat
      /\ h \in A /\ h \notin B => Cardinality(B) = Cardinality(A) - 1
      /\ h \notin B => Cardinality(B) <= Cardinality(A)
      /\ (h \in A <=> h \in B) => A = B
      /\ Cardinality(B) <= Cardinality(A) + 1
  BY <1>1, <1>2, <1>3, DifferInOne
<1> QED
  BY <1>2, <1>4 DEF A, B

\* The same for those that settle.
LEMMA SettlingCounts ==
    ASSUME task \in [Handler -> Task], NEW h \in Handler, NEW u, task' = [task EXCEPT ![h] = u]
    PROVE  /\ Cardinality(AllSettling) \in Nat /\ Cardinality(AllSettling') \in Nat
           /\ task[h].stage = "settling" /\ u.stage # "settling"
                  => Cardinality(AllSettling') = Cardinality(AllSettling) - 1
           /\ u.stage # "settling" => Cardinality(AllSettling') <= Cardinality(AllSettling)
           /\ Cardinality(AllSettling') <= Cardinality(AllSettling) + 1
<1> DEFINE A == AllSettling
           B == AllSettling'
<1>1. A \in SUBSET Handler /\ B \in SUBSET Handler
  BY DEF AllSettling
<1>2. /\ \A x \in Handler : x # h => (x \in A <=> x \in B)
      /\ h \in A <=> task[h].stage = "settling"
      /\ h \in B <=> u.stage = "settling"
  BY DEF AllSettling
<1>3. IsFiniteSet(Handler)
  BY TokenExchangeAssumption
<1> HIDE DEF A, B
<1>4. /\ Cardinality(A) \in Nat /\ Cardinality(B) \in Nat
      /\ h \in A /\ h \notin B => Cardinality(B) = Cardinality(A) - 1
      /\ h \notin B => Cardinality(B) <= Cardinality(A)
      /\ Cardinality(B) <= Cardinality(A) + 1
  BY <1>1, <1>2, <1>3, DifferInOne
<1> QED
  BY <1>2, <1>4 DEF A, B

\* Where there is room, there is room for one more to settle or to sign.
LEMMA RoomToSettle ==
    ASSUME Room, issued \in Nat
    PROVE  /\ issued + Cardinality(AllSettling) < MaxTokens
           /\ Cardinality(AllSettling) \in Nat
<1> DEFINE Busy == {h \in Handler : task[h].stage # "idle"}
<1>1. AllSettling \subseteq Busy /\ Busy \subseteq Handler
  BY DEF AllSettling
<1>2. IsFiniteSet(Busy)
  BY <1>1, FS_Subset, TokenExchangeAssumption
<1>3. /\ Cardinality(AllSettling) <= Cardinality(Busy)
      /\ Cardinality(AllSettling) \in Nat /\ Cardinality(Busy) \in Nat
  BY <1>1, <1>2, FS_Subset, FS_CardinalityType
<1>4. issued + Cardinality(Busy) < MaxTokens
  BY DEF Room
<1> HIDE DEF Busy
<1> QED
  BY <1>3, <1>4, TokenExchangeAssumption

\* A handler goes on to u: what has to be looked at.
LEMMA TaskMoves ==
    ASSUME ExchangeInv, NEW h \in Handler, NEW u \in Task, task' = [task EXCEPT ![h] = u],
           UNCHANGED <<ringVars, now>>, faults' \in 0..MaxFaults,
           tokens' \subseteq Token, IsFiniteSet(tokens'), tokens \subseteq tokens',
           trail' \in [Lineage \X Position -> Nat],
           roots' \in [Lineage -> Root \cup {None}], RootsOK',
           \A l \in Lineage : roots[l] # None => roots'[l] = roots[l],
           issued' \in Nat, issued <= issued',
           \A t \in tokens' \ tokens : Rooted(t, roots', issued') /\ t.signers = {t.kid},
           u \in Issuing => /\ u.kid = u.work.kid
                            /\ u.stage = "signing" <=> u.signs < Signatures
                            /\ u.work.signers = IF u.signs = 0 THEN {} ELSE {u.kid}
                            /\ Rooted(u.work, roots', issued'),
           u \in Settling /\ u.work.genuine => u.work.base \in tokens,
           Paid'
    PROVE  ExchangeInv'
<1>0. Shape /\ TokensOK /\ IssuingOK /\ SettlingOK
  BY DEF ExchangeInv
<1>1. Shape'
  BY <1>0 DEF Shape, ringVars
<1>2. ASSUME NEW t \in Token, Rooted(t, roots, issued) PROVE Rooted(t, roots', issued')
  <2>1. t.id \in Nat /\ t.position \in Nat /\ t.lineage \in Lineage
    BY TokenExchangeAssumption DEF Token, Position
  <2>2. issued \in Nat
    BY <1>0 DEF Shape
  <2> QED
    BY <1>2, <2>1, <2>2, RootedStays
<1>3. TokensOK'
  <2> SUFFICES ASSUME NEW t \in tokens' PROVE Rooted(t, roots', issued') /\ t.signers = {t.kid}
    BY DEF TokensOK
  <2>1. CASE t \in tokens
    BY <1>0, <1>2, <2>1 DEF TokensOK, Shape
  <2> QED
    BY <2>1
<1>4. \A x \in Handler : task'[x] = IF x = h THEN u ELSE task[x]
  BY <1>0 DEF Shape
<1>5. IssuingOK'
  <2> SUFFICES ASSUME NEW x \in Handler, task'[x].stage \in {"signing", "recording", "answering"}
               PROVE  /\ task'[x].kid = task'[x].work.kid
                      /\ task'[x].stage = "signing" <=> task'[x].signs < Signatures
                      /\ task'[x].work.signers = IF task'[x].signs = 0 THEN {} ELSE {task'[x].kid}
                      /\ Rooted(task'[x].work, roots', issued')
    BY DEF IssuingOK
  <2>1. CASE x = h
    <3>1. u \in Issuing
      BY <1>4, <2>1, TaskStages
    <3> QED
      BY <1>4, <2>1, <3>1
  <2>2. CASE x # h
    <3>1. task'[x] = task[x] /\ task[x] \in Task
      BY <1>0, <1>4, <2>2 DEF Shape
    <3>2. task[x].work \in Token
      BY <3>1, TaskStages DEF Issuing
    <3>3. /\ task[x].kid = task[x].work.kid
          /\ task[x].stage = "signing" <=> task[x].signs < Signatures
          /\ task[x].work.signers = IF task[x].signs = 0 THEN {} ELSE {task[x].kid}
          /\ Rooted(task[x].work, roots, issued)
      BY <1>0, <3>1 DEF IssuingOK
    <3>4. Rooted(task[x].work, roots', issued')
      BY <1>2, <3>2, <3>3
    <3> QED
      BY <3>1, <3>3, <3>4
  <2> QED
    BY <2>1, <2>2
<1>6. SettlingOK'
  <2> SUFFICES ASSUME NEW x \in Handler, task'[x].stage = "settling", task'[x].work.genuine
               PROVE  task'[x].work.base \in tokens'
    BY DEF SettlingOK
  <2>1. CASE x = h
    BY <1>4, <2>1, TaskStages
  <2>2. CASE x # h
    BY <1>0, <1>4, <2>2 DEF SettlingOK
  <2> QED
    BY <2>1, <2>2
<1> QED
  BY <1>1, <1>3, <1>5, <1>6 DEF ExchangeInv

----------------------------------------------------------------------------
(* The actions *)

\* What does not change when no lineage is begun.
LEMMA RootsUnchanged ==
    ASSUME Shape, RootsOK, UNCHANGED roots
    PROVE  /\ roots' \in [Lineage -> Root \cup {None}] /\ RootsOK'
           /\ \A l \in Lineage : roots[l] # None => roots'[l] = roots[l]
BY DEF Shape, RootsOK

\* The numbers that Paid speaks of.
LEMMA PaidNumbers ==
    ASSUME ExchangeInv, NEW l \in Lineage, NEW p \in Position
    PROVE  /\ trail[<<l, p>>] \in Nat /\ issued \in Nat
           /\ Cardinality(ReleasedAt(l, p)) \in Nat /\ IsFiniteSet(ReleasedAt(l, p))
           /\ Cardinality(InStage({"answering"}, l, p)) \in Nat
           /\ Cardinality(InStage({"signing", "recording"}, l, p)) \in Nat
           /\ Cardinality(ReleasedAt(l, p)) + Cardinality(InStage({"answering"}, l, p))
                  <= trail[<<l, p>>]
           /\ trail[<<l, p>>] + Cardinality(InStage({"signing", "recording"}, l, p)) <= issued
<1>1. Shape /\ Paid
  BY DEF ExchangeInv
<1>2. trail[<<l, p>>] \in Nat /\ issued \in Nat /\ IsFiniteSet(tokens)
  BY <1>1 DEF Shape
<1>3. ReleasedAt(l, p) \subseteq tokens
  BY DEF ReleasedAt
<1>4. ASSUME NEW S PROVE Cardinality(InStage(S, l, p)) \in Nat
  <2>1. InStage(S, l, p) \subseteq Handler
    BY DEF InStage
  <2> QED
    BY <2>1, FS_Subset, FS_CardinalityType, TokenExchangeAssumption
<1>5. IsFiniteSet(ReleasedAt(l, p)) /\ Cardinality(ReleasedAt(l, p)) \in Nat
  BY <1>2, <1>3, FS_Subset, FS_CardinalityType
<1> QED
  BY <1>1, <1>2, <1>4, <1>5 DEF Paid

\* Sums of what is smaller are smaller.
LEMMA SumsOrdered ==
    ASSUME NEW a \in Nat, NEW b \in Nat, NEW m \in Nat, NEW n \in Nat, a <= b, m <= n
    PROVE  a + m <= b + n
OBVIOUS

\* What a handler that goes on to u owes for the trail is issued, or was.
IssueCovers(h, u) ==
    \/ issued' = issued + 1
    \/ u.stage \notin {"signing", "recording"}
    \/ /\ u.stage \in {"signing", "recording"} /\ task[h].stage \in {"signing", "recording"}
       /\ u.work.lineage = task[h].work.lineage /\ u.work.position = task[h].work.position

\* A step of a handler that leaves the tokens and the trail alone.  What is
\* owed changes with the handlers and with what is issued.
LEMMA PaidStep ==
    ASSUME ExchangeInv, NEW h \in Handler, NEW u \in Task, task' = [task EXCEPT ![h] = u],
           UNCHANGED <<tokens, trail>>, issued' \in Nat, issued <= issued',
           issued' + Cardinality(AllSettling') <= MaxTokens,
           u.stage # "answering",
           IssueCovers(h, u)
    PROVE  Paid'
<1>1. task \in [Handler -> Task]
  BY DEF ExchangeInv, Shape
<1>2. ASSUME NEW l \in Lineage, NEW p \in Position
      PROVE  /\ Cardinality(ReleasedAt(l, p)') + Cardinality(InStage({"answering"}, l, p)')
                    <= trail'[<<l, p>>]
             /\ trail'[<<l, p>>] + Cardinality(InStage({"signing", "recording"}, l, p)') <= issued'
  <2>1. ReleasedAt(l, p)' = ReleasedAt(l, p)
    BY DEF ReleasedAt
  <2> DEFINE A == Cardinality(InStage({"answering"}, l, p))
             B == Cardinality(InStage({"signing", "recording"}, l, p))
             A1 == Cardinality(InStage({"answering"}, l, p)')
             B1 == Cardinality(InStage({"signing", "recording"}, l, p)')
  <2>2. A1 \in Nat /\ A1 <= A
    <3>1. ~At(u, {"answering"}, l, p)
      BY DEF At
    <3> QED
      BY <1>1, <3>1, StageCounts
  <2>3. B1 \in Nat /\ B1 + issued <= B + issued'
    <3> DEFINE S == {"signing", "recording"}
    <3>0. B \in Nat /\ issued \in Nat /\ issued' \in Nat /\ issued <= issued'
      BY PaidNumbers
    <3>1. CASE issued' = issued + 1
      <4>1. B1 \in Nat /\ B1 <= B + 1
        BY <1>1, StageCounts
      <4> HIDE DEF B, B1
      <4> QED
        BY <3>0, <3>1, <4>1
    <3>2. CASE u.stage \notin S
      <4>1. ~At(u, S, l, p)
        BY <3>2 DEF At
      <4>2. B1 \in Nat /\ B1 <= B
        BY <1>1, <4>1, StageCounts
      <4> HIDE DEF B, B1
      <4> QED
        BY <3>0, <4>2, SumsOrdered
    <3>3. CASE /\ u.stage \in S /\ task[h].stage \in S
               /\ u.work.lineage = task[h].work.lineage /\ u.work.position = task[h].work.position
      <4>1. ~At(u, S, l, p) \/ At(task[h], S, l, p)
        BY <3>3 DEF At
      <4>2. B1 \in Nat /\ B1 <= B
        BY <1>1, <4>1, StageCounts
      <4> HIDE DEF B, B1
      <4> QED
        BY <3>0, <4>2, SumsOrdered
    <3> QED
      BY <3>1, <3>2, <3>3 DEF IssueCovers
  <2>4. /\ trail[<<l, p>>] \in Nat /\ issued \in Nat /\ Cardinality(ReleasedAt(l, p)) \in Nat
        /\ A \in Nat /\ B \in Nat
        /\ Cardinality(ReleasedAt(l, p)) + A <= trail[<<l, p>>]
        /\ trail[<<l, p>>] + B <= issued
    BY PaidNumbers
  <2>5. trail'[<<l, p>>] = trail[<<l, p>>]
    OBVIOUS
  <2> HIDE DEF A, B, A1, B1
  <2>6. Cardinality(ReleasedAt(l, p)') + A1 <= trail'[<<l, p>>] /\ trail'[<<l, p>>] + B1 <= issued'
    BY <2>1, <2>2, <2>3, <2>4, <2>5
  <2> QED
    BY <2>6 DEF A1, B1
<1> QED
  BY <1>2 DEF Paid

\* A handler gives up what it was doing, recorded or not: nothing is owed for
\* a token that never leaves.
LEMMA WithdrawKeepsInv ==
    ASSUME ExchangeInv, NEW h \in Handler, NEW u \in {IdleTask, Rejecting},
           task' = [task EXCEPT ![h] = u], faults' \in 0..MaxFaults,
           UNCHANGED <<ringVars, now, tokens, trail, roots, issued>>
    PROVE  ExchangeInv'
<1>1. Shape /\ RootsOK /\ Paid
  BY DEF ExchangeInv
<1>2. /\ task \in [Handler -> Task] /\ tokens' \subseteq Token /\ IsFiniteSet(tokens')
      /\ tokens \subseteq tokens'
      /\ trail' \in [Lineage \X Position -> Nat] /\ issued' \in Nat /\ issued <= issued'
      /\ tokens' = tokens /\ trail' = trail /\ issued' = issued /\ roots' = roots
      /\ UNCHANGED <<ringVars, now>>
  BY <1>1 DEF Shape
<1>3. u \in Task /\ u.stage \in {"idle", "rejecting"}
  BY TaskStages DEF Task
<1>4. u \notin Issuing /\ u \notin Settling
  BY <1>3 DEF Issuing, Settling
<1>5. issued' + Cardinality(AllSettling') <= MaxTokens
  <2>1. /\ Cardinality(AllSettling) \in Nat /\ Cardinality(AllSettling') \in Nat
        /\ Cardinality(AllSettling') <= Cardinality(AllSettling)
    BY <1>2, <1>3, SettlingCounts
  <2> QED
    BY <1>1, <1>2, <2>1, TokenExchangeAssumption DEF Paid
<1>6. Paid'
  BY <1>2, <1>3, <1>5, PaidStep DEF IssueCovers
<1>7. /\ roots' \in [Lineage -> Root \cup {None}] /\ RootsOK'
      /\ \A l \in Lineage : roots[l] # None => roots'[l] = roots[l]
  BY <1>1, <1>2, RootsUnchanged
<1>8. \A t \in tokens' \ tokens : Rooted(t, roots', issued') /\ t.signers = {t.kid}
  BY <1>2
<1> QED
  BY <1>2, <1>3, <1>4, <1>6, <1>7, <1>8, TaskMoves

\* The lineage that is begun next has no root yet: an initial exchange never
\* takes over a lineage (exchange_initial mints the identifier).
LEMMA NextLineageIsFresh ==
    ASSUME Shape, RootsOK, NEW l \in Lineage,
           l = Cardinality({x \in Lineage : roots[x] # None}) + 1
    PROVE  \A x \in Lineage : roots[x] # None <=> x <= l - 1
<1> DEFINE D == {x \in Lineage : roots[x] # None}
<1>1. PICK n \in Nat : \A x \in Lineage : roots[x] # None <=> x <= n
  BY DEF RootsOK
<1>2. MaxLineages \in Nat /\ Lineage = 1..MaxLineages /\ l \in 1..MaxLineages
  BY TokenExchangeAssumption DEF Lineage
<1>3. CASE n <= MaxLineages
  <2>1. D = 1..n
    BY <1>1, <1>2, <1>3
  <2>2. Cardinality(1..n) = n
    <3>1. Cardinality(1..n) = IF 1 > n THEN 0 ELSE n - 1 + 1
      BY <1>1, FS_Interval
    <3> QED
      BY <3>1
  <2>3. l = n + 1
    BY <2>1, <2>2
  <2> QED
    BY <1>1, <1>2, <2>3
<1>4. CASE n > MaxLineages
  <2>1. D = 1..MaxLineages
    BY <1>1, <1>2, <1>4
  <2>2. Cardinality(1..MaxLineages) = MaxLineages
    <3>1. Cardinality(1..MaxLineages) = IF 1 > MaxLineages THEN 0 ELSE MaxLineages - 1 + 1
      BY <1>2, FS_Interval
    <3> QED
      BY <1>2, <3>1
  <2>3. l = MaxLineages + 1
    BY <2>1, <2>2
  <2> QED
    BY <1>2, <2>3
<1> QED
  BY <1>2, <1>3, <1>4

LEMMA BeginInitialKeepsInv ==
    ASSUME ExchangeInv, NEW h \in Handler, NEW r \in Request, BeginInitial(h, r)
    PROVE  ExchangeInv'
<1> DEFINE l == Cardinality({x \in Lineage : roots[x] # None}) + 1
           expiry == InitialExpiry(r.proposal, r.exp, now)
           root == [invariants |-> Derived(r.scopes), contract |-> r.contract, expires |-> expiry]
           W(k) == [id |-> issued + 1, lineage |-> l, position |-> 0,
                    invariants |-> Derived(r.scopes), contract |-> r.contract,
                    claims |-> {}, expires |-> expiry, kid |-> k, signers |-> {}]
           U(k) == [stage |-> "signing", kid |-> k, signs |-> 0, work |-> W(k)]
<1>1. /\ task[h].stage = "idle" /\ Room /\ l \in Lineage /\ expiry # None
      /\ roots' = [roots EXCEPT ![l] = root] /\ issued' = issued + 1
      /\ UNCHANGED <<ringVars, now>> /\ tokens' = tokens /\ trail' = trail /\ faults' = faults
      /\ \E k \in Active : task' = [task EXCEPT ![h] = U(k)]
  BY DEF BeginInitial
<1>2. PICK k \in Active : task' = [task EXCEPT ![h] = U(k)]
  BY <1>1
<1>3. Shape /\ RootsOK
  BY DEF ExchangeInv
<1>4. /\ issued \in Nat /\ issued' \in Nat /\ issued <= issued' /\ k \in Kid /\ now \in 0..MaxTime
      /\ task \in [Handler -> Task] /\ tokens' \subseteq Token /\ IsFiniteSet(tokens')
      /\ tokens \subseteq tokens' /\ trail' \in [Lineage \X Position -> Nat]
      /\ faults' \in 0..MaxFaults
  BY <1>1, <1>3 DEF Shape, Active
<1>5. expiry \in Instant
  BY <1>1, <1>4, InitialExpiryAhead
<1>6. Derived(r.scopes) \in SUBSET Mapped /\ r.contract \in SUBSET Claim
  BY DEF Derived, Request
<1>7. root \in Root /\ root # None
  BY <1>5, <1>6, RootAssumption DEF Root
<1>8. \A x \in Lineage : roots[x] # None <=> x <= l - 1
  BY <1>1, <1>3, NextLineageIsFresh
<1>9. l \in Nat /\ l >= 1 /\ Lineage \subseteq Nat
  BY <1>1, TokenExchangeAssumption DEF Lineage
<1>10. issued + Cardinality(AllSettling) < MaxTokens /\ Cardinality(AllSettling) \in Nat
  BY <1>1, <1>4, RoomToSettle
<1>11. issued + 1 \in 1..MaxTokens /\ 0 \in Position
  BY <1>4, <1>10, TokenExchangeAssumption DEF Position
<1> HIDE DEF l, expiry
<1>12. W(k) \in Token
  BY <1>1, <1>4, <1>5, <1>6, <1>11 DEF Token
<1>13. /\ W(k).id = issued + 1 /\ W(k).position = 0 /\ W(k).lineage = l /\ W(k).expires = expiry
       /\ W(k).invariants = Derived(r.scopes) /\ W(k).contract = r.contract
       /\ W(k).kid = k /\ W(k).signers = {}
  OBVIOUS
<1>14. root.invariants = Derived(r.scopes) /\ root.contract = r.contract /\ root.expires = expiry
  OBVIOUS
<1> HIDE DEF root, W
<1>15. U(k) \in Issuing /\ U(k) \in Task
  BY <1>4, <1>12, TokenExchangeAssumption DEF Issuing, Task
<1>16. /\ U(k).stage = "signing" /\ U(k).signs = 0 /\ U(k).kid = k /\ U(k).work = W(k)
  OBVIOUS
<1> HIDE DEF U
<1>17. /\ roots' \in [Lineage -> Root \cup {None}] /\ roots'[l] = root
       /\ \A x \in Lineage : x # l => roots'[x] = roots[x]
  BY <1>1, <1>3, <1>7 DEF Shape
<1>18. RootsOK' /\ \A x \in Lineage : roots[x] # None => roots'[x] = roots[x]
  <2>1. \A x \in Lineage : roots'[x] # None <=> x <= l
    BY <1>7, <1>8, <1>9, <1>17
  <2>2. \A x \in Lineage : roots[x] # None => roots'[x] = roots[x]
    BY <1>8, <1>9, <1>17
  <2> QED
    BY <1>9, <2>1, <2>2 DEF RootsOK
<1>19. Rooted(W(k), roots', issued')
  BY <1>1, <1>4, <1>7, <1>13, <1>14, <1>17 DEF Rooted
<1>20. issued' + Cardinality(AllSettling') <= MaxTokens
  <2>1. Cardinality(AllSettling') \in Nat /\ Cardinality(AllSettling') <= Cardinality(AllSettling)
    BY <1>2, <1>4, <1>16, SettlingCounts
  <2> QED
    BY <1>1, <1>4, <1>10, <2>1, TokenExchangeAssumption
<1>21. Paid'
  <2>1. IssueCovers(h, U(k))
    BY <1>1 DEF IssueCovers
  <2> QED
    BY <1>1, <1>2, <1>4, <1>15, <1>16, <1>20, <2>1, PaidStep
<1>22. U(k) \notin Settling
  BY <1>16 DEF Settling
<1>23. /\ U(k).kid = U(k).work.kid
       /\ U(k).stage = "signing" <=> U(k).signs < Signatures
       /\ U(k).work.signers = IF U(k).signs = 0 THEN {} ELSE {U(k).kid}
       /\ Rooted(U(k).work, roots', issued')
  BY <1>13, <1>16, <1>19, TokenExchangeAssumption
<1>24. \A t \in tokens' \ tokens : Rooted(t, roots', issued') /\ t.signers = {t.kid}
  BY <1>1
<1> QED
  BY <1>1, <1>2, <1>4, <1>15, <1>17, <1>18, <1>21, <1>22, <1>23, <1>24, TaskMoves

LEMMA BeginAdvanceKeepsInv ==
    ASSUME ExchangeInv, NEW h \in Handler, NEW c \in Candidates, BeginAdvance(h, c)
    PROVE  ExchangeInv'
<1> DEFINE U(k) == [stage |-> "settling", kid |-> k, signs |-> 0, work |-> c]
<1>1. Shape /\ RootsOK
  BY DEF ExchangeInv
<1>2. /\ issued \in Nat /\ task \in [Handler -> Task] /\ tokens \subseteq Token /\ IsFiniteSet(tokens)
      /\ trail \in [Lineage \X Position -> Nat] /\ faults \in 0..MaxFaults
  BY <1>1 DEF Shape
<1>3. /\ Room /\ UNCHANGED <<ringVars, now>>
      /\ tokens' = tokens /\ trail' = trail /\ roots' = roots /\ issued' = issued /\ faults' = faults
  BY DEF BeginAdvance
<1>4. PICK k \in Active : task' = [task EXCEPT ![h] =
               IF Preflight(c) /\ c.base.expires > now THEN U(k) ELSE Rejecting]
  BY DEF BeginAdvance, Rejecting
<1>5. CASE Preflight(c) /\ c.base.expires > now
  <2>1. task' = [task EXCEPT ![h] = U(k)]
    BY <1>4, <1>5
  <2>2. c \in Candidate /\ (c.genuine => c.base \in tokens)
    BY <1>2, CandidatesAreRooted
  <2>3. U(k) \in Settling /\ U(k) \in Task
    BY <2>2 DEF Settling, Task, Active
  <2>4. U(k).stage = "settling" /\ U(k).work = c
    OBVIOUS
  <2> HIDE DEF U
  <2>5. U(k) \notin Issuing
    BY <2>4 DEF Issuing
  <2>6. issued' + Cardinality(AllSettling') <= MaxTokens
    <3>1. issued + Cardinality(AllSettling) < MaxTokens /\ Cardinality(AllSettling) \in Nat
      BY <1>2, <1>3, RoomToSettle
    <3>2. Cardinality(AllSettling') \in Nat /\ Cardinality(AllSettling') <= Cardinality(AllSettling) + 1
      BY <1>2, <2>1, SettlingCounts
    <3> QED
      BY <1>2, <1>3, <3>1, <3>2, TokenExchangeAssumption
  <2>7. Paid'
    <3>1. IssueCovers(h, U(k))
      BY <2>4 DEF IssueCovers
    <3>2. UNCHANGED <<tokens, trail>> /\ issued' \in Nat /\ issued <= issued'
      BY <1>2, <1>3
    <3>3. U(k).stage # "answering"
      BY <2>4
    <3> QED
      BY <2>1, <2>3, <2>6, <3>1, <3>2, <3>3, PaidStep
  <2>8. /\ roots' \in [Lineage -> Root \cup {None}] /\ RootsOK'
        /\ \A l \in Lineage : roots[l] # None => roots'[l] = roots[l]
    BY <1>1, <1>3, RootsUnchanged
  <2>9. /\ tokens' \subseteq Token /\ IsFiniteSet(tokens') /\ tokens \subseteq tokens'
        /\ trail' \in [Lineage \X Position -> Nat] /\ issued' \in Nat /\ issued <= issued'
        /\ faults' \in 0..MaxFaults
        /\ \A t \in tokens' \ tokens : Rooted(t, roots', issued') /\ t.signers = {t.kid}
    BY <1>2, <1>3
  <2> QED
    BY <1>3, <2>1, <2>2, <2>3, <2>4, <2>5, <2>7, <2>8, <2>9, TaskMoves
<1>6. CASE ~(Preflight(c) /\ c.base.expires > now)
  <2>1. task' = [task EXCEPT ![h] = Rejecting]
    BY <1>4, <1>6
  <2> QED
    BY <1>2, <1>3, <2>1, WithdrawKeepsInv
<1> QED
  BY <1>5, <1>6

LEMMA SettleKeepsInv ==
    ASSUME ExchangeInv, NEW h \in Handler, Settle(h)
    PROVE  ExchangeInv'
<1> DEFINE c == task[h].work
           s == Successor(c, task[h].kid)
           u == [stage |-> "signing", kid |-> task[h].kid, signs |-> 0, work |-> s]
<1>1. Shape /\ RootsOK /\ TokensOK /\ SettlingOK /\ Paid
  BY DEF ExchangeInv
<1>2. /\ issued \in Nat /\ task \in [Handler -> Task] /\ tokens \subseteq Token /\ IsFiniteSet(tokens)
      /\ trail \in [Lineage \X Position -> Nat] /\ faults \in 0..MaxFaults
      /\ roots \in [Lineage -> Root \cup {None}]
  BY <1>1 DEF Shape
<1>3. /\ task[h].stage = "settling" /\ UNCHANGED <<ringVars, now>>
      /\ tokens' = tokens /\ trail' = trail /\ roots' = roots /\ faults' = faults
  BY DEF Settle
<1>4. task[h] \in Settling
  BY <1>2, <1>3, TaskStages
<1>5. CASE /\ Settles(c)
           /\ task' = [task EXCEPT ![h].stage = "signing", ![h].work = s]
           /\ issued' = issued + 1
  <2>1. task' = [task EXCEPT ![h] = u]
    <3>1. [task[h] EXCEPT !.stage = "signing", !.work = s] = u
      BY <1>4, SettlingSigns
    <3> QED
      BY <1>2, <1>5, <3>1
  <2>2. c \in Candidate /\ task[h].kid \in Kid
    BY <1>4 DEF Settling
  <2>3. c.base \in tokens
    BY <1>1, <1>3, <1>5 DEF Settles, CheckpointTrusted, SettlingOK
  <2>4. Rooted(c.base, roots, issued)
    BY <1>1, <2>3 DEF TokensOK
  <2>5. /\ Cardinality(AllSettling) \in Nat /\ Cardinality(AllSettling) >= 1
        /\ Cardinality(AllSettling') \in Nat
        /\ Cardinality(AllSettling') = Cardinality(AllSettling) - 1
    <3>1. u.stage # "settling"
      OBVIOUS
    <3> HIDE DEF u
    <3>2. /\ Cardinality(AllSettling) \in Nat /\ Cardinality(AllSettling') \in Nat
          /\ Cardinality(AllSettling') = Cardinality(AllSettling) - 1
      BY <1>2, <1>3, <2>1, <3>1, SettlingCounts
    <3> QED
      BY <3>2
  <2>6. issued < MaxTokens /\ issued' + Cardinality(AllSettling') <= MaxTokens
    BY <1>1, <1>2, <1>5, <2>5, TokenExchangeAssumption DEF Paid
  <2>7. /\ s \in Token /\ s.lineage = c.base.lineage
        /\ s.id = issued + 1 /\ s.position <= issued
        /\ s.kid = task[h].kid /\ s.signers = {}
        /\ s.expires = roots[c.base.lineage].expires
        /\ s.invariants \subseteq roots[c.base.lineage].invariants
        /\ roots[c.base.lineage].contract \subseteq s.contract
        /\ roots[c.base.lineage].contract \subseteq s.claims
    BY <1>2, <1>5, <2>2, <2>3, <2>4, <2>6, SuccessorIsRooted
  <2> HIDE DEF s, c
  <2>8. u \in Issuing /\ u \in Task
    BY <2>2, <2>7, TokenExchangeAssumption DEF Issuing, Task
  <2>9. u.stage = "signing" /\ u.kid = task[h].kid /\ u.signs = 0 /\ u.work = s
    OBVIOUS
  <2> HIDE DEF u
  <2>10. Rooted(s, roots', issued')
    <3>1. s.position \in Nat
      BY <2>7, TokenExchangeAssumption DEF Token, Position
    <3>2. roots[s.lineage] # None
      BY <2>4, <2>7 DEF Rooted
    <3> QED
      BY <1>2, <1>3, <1>5, <2>7, <3>1, <3>2 DEF Rooted
  <2>11. Paid'
    <3>1. IssueCovers(h, u)
      BY <1>5 DEF IssueCovers
    <3>2. issued' \in Nat /\ issued <= issued'
      BY <1>2, <1>5
    <3> QED
      BY <1>3, <2>1, <2>6, <2>8, <2>9, <3>1, <3>2, PaidStep
  <2>12. /\ roots' \in [Lineage -> Root \cup {None}] /\ RootsOK'
         /\ \A l \in Lineage : roots[l] # None => roots'[l] = roots[l]
    BY <1>1, <1>3, RootsUnchanged
  <2>13. /\ tokens' \subseteq Token /\ IsFiniteSet(tokens') /\ tokens \subseteq tokens'
         /\ trail' \in [Lineage \X Position -> Nat] /\ issued' \in Nat /\ issued <= issued'
         /\ faults' \in 0..MaxFaults
         /\ \A t \in tokens' \ tokens : Rooted(t, roots', issued') /\ t.signers = {t.kid}
    BY <1>2, <1>3, <1>5
  <2>14. u \notin Settling
    BY <2>9 DEF Settling
  <2>15. /\ u.kid = u.work.kid
         /\ u.stage = "signing" <=> u.signs < Signatures
         /\ u.work.signers = IF u.signs = 0 THEN {} ELSE {u.kid}
         /\ Rooted(u.work, roots', issued')
    BY <2>7, <2>9, <2>10, TokenExchangeAssumption
  <2> QED
    BY <1>3, <2>1, <2>8, <2>11, <2>12, <2>13, <2>14, <2>15, TaskMoves
<1>6. CASE task' = [task EXCEPT ![h] = [IdleTask EXCEPT !.stage = "rejecting"]] /\ issued' = issued
  <2>1. task' = [task EXCEPT ![h] = Rejecting]
    BY <1>6 DEF Rejecting
  <2> QED
    BY <1>2, <1>3, <1>6, <2>1, WithdrawKeepsInv
<1> QED
  BY <1>5, <1>6 DEF Settle

LEMMA SignKeepsInv ==
    ASSUME ExchangeInv, NEW h \in Handler, Sign(h)
    PROVE  ExchangeInv'
<1>1. Shape /\ RootsOK /\ IssuingOK /\ Paid
  BY DEF ExchangeInv
<1>2. /\ issued \in Nat /\ task \in [Handler -> Task] /\ tokens \subseteq Token /\ IsFiniteSet(tokens)
      /\ trail \in [Lineage \X Position -> Nat] /\ faults \in 0..MaxFaults
      /\ roots \in [Lineage -> Root \cup {None}]
  BY <1>1 DEF Shape
<1>3. /\ task[h].stage = "signing" /\ UNCHANGED <<ringVars, now>>
      /\ tokens' = tokens /\ trail' = trail /\ roots' = roots /\ issued' = issued /\ faults' = faults
  BY DEF Sign
<1>4. PICK k \in Active : task' = [task EXCEPT ![h] =
               CASE k = task[h].kid -> Signed(task[h], k)
                 [] k # task[h].kid /\ task[h].work.position = 0 -> IdleTask
                 [] OTHER -> Rejecting]
  BY DEF Sign, Rejecting
<1>5. CASE k # task[h].kid
  <2>1. task' = [task EXCEPT ![h] = IdleTask] \/ task' = [task EXCEPT ![h] = Rejecting]
    BY <1>4, <1>5
  <2> QED
    BY <1>2, <1>3, <2>1, WithdrawKeepsInv
<1>6. CASE k = task[h].kid
  <2> DEFINE w == task[h].work
             v == [w EXCEPT !.signers = @ \cup {k}]
             g == IF task[h].signs + 1 = Signatures THEN "recording" ELSE "signing"
             u == [stage |-> g, kid |-> k, signs |-> task[h].signs + 1, work |-> v]
  <2>1. task[h] \in Issuing
    BY <1>2, <1>3, TaskStages
  <2>2. /\ w \in Token /\ k \in Kid /\ task[h].signs \in 0..Signatures /\ k = w.kid
        /\ task[h].signs < Signatures
        /\ w.signers = IF task[h].signs = 0 THEN {} ELSE {k}
        /\ Rooted(w, roots, issued)
    BY <1>1, <1>3, <1>6, <2>1 DEF Issuing, IssuingOK, Active
  <2>3. Signed(task[h], k) = u
    BY <1>6, <2>1, SignedIs
  <2>4. task' = [task EXCEPT ![h] = u]
    BY <1>4, <1>6, <2>3
  <2>5. /\ v \in Token
        /\ v.id = w.id /\ v.lineage = w.lineage /\ v.position = w.position /\ v.expires = w.expires
        /\ v.invariants = w.invariants /\ v.contract = w.contract /\ v.claims = w.claims
        /\ v.kid = w.kid /\ v.signers = w.signers \cup {k}
    BY <2>2 DEF Token
  <2> HIDE DEF v, w
  <2>6. v.signers = {k}
    BY <2>2, <2>5
  <2>7. Rooted(v, roots', issued')
    BY <1>3, <2>2, <2>5 DEF Rooted
  <2>8. /\ g \in {"signing", "recording"} /\ task[h].signs + 1 \in 1..Signatures
        /\ g = "signing" <=> task[h].signs + 1 < Signatures
    BY <2>2, TokenExchangeAssumption
  <2> HIDE DEF g
  <2>9. u \in Issuing /\ u \in Task
    BY <2>2, <2>5, <2>8, TokenExchangeAssumption DEF Issuing, Task
  <2>10. u.stage = g /\ u.kid = k /\ u.signs = task[h].signs + 1 /\ u.work = v
    OBVIOUS
  <2> HIDE DEF u
  <2>11. issued' + Cardinality(AllSettling') <= MaxTokens
    <3>1. u.stage # "settling"
      BY <2>8, <2>10
    <3>2. /\ Cardinality(AllSettling) \in Nat /\ Cardinality(AllSettling') \in Nat
          /\ Cardinality(AllSettling') <= Cardinality(AllSettling)
      BY <1>2, <2>4, <3>1, SettlingCounts
    <3> QED
      BY <1>1, <1>2, <1>3, <3>2, TokenExchangeAssumption DEF Paid
  <2>12. Paid'
    <3>1. IssueCovers(h, u)
      BY <1>3, <2>5, <2>8, <2>10 DEF IssueCovers, w
    <3>2. issued' \in Nat /\ issued <= issued' /\ u.stage # "answering"
      BY <1>2, <1>3, <2>8, <2>10
    <3> QED
      BY <1>3, <2>4, <2>9, <2>11, <3>1, <3>2, PaidStep
  <2>13. /\ roots' \in [Lineage -> Root \cup {None}] /\ RootsOK'
         /\ \A l \in Lineage : roots[l] # None => roots'[l] = roots[l]
    BY <1>1, <1>3, RootsUnchanged
  <2>14. /\ tokens' \subseteq Token /\ IsFiniteSet(tokens') /\ tokens \subseteq tokens'
         /\ trail' \in [Lineage \X Position -> Nat] /\ issued' \in Nat /\ issued <= issued'
         /\ faults' \in 0..MaxFaults
         /\ \A t \in tokens' \ tokens : Rooted(t, roots', issued') /\ t.signers = {t.kid}
    BY <1>2, <1>3
  <2>15. u \notin Settling
    BY <2>8, <2>10 DEF Settling
  <2>16. /\ u.kid = u.work.kid
         /\ u.stage = "signing" <=> u.signs < Signatures
         /\ u.work.signers = IF u.signs = 0 THEN {} ELSE {u.kid}
         /\ Rooted(u.work, roots', issued')
    <3>1. u.kid = u.work.kid /\ Rooted(u.work, roots', issued')
      BY <2>2, <2>5, <2>7, <2>10
    <3>2. u.stage = "signing" <=> u.signs < Signatures
      BY <2>8, <2>10
    <3>3. u.signs # 0 /\ u.work.signers = {u.kid}
      BY <2>6, <2>8, <2>10
    <3> QED
      BY <3>1, <3>2, <3>3
  <2> QED
    BY <1>3, <2>4, <2>9, <2>12, <2>13, <2>14, <2>15, <2>16, TaskMoves
<1> QED
  BY <1>5, <1>6

\* The record comes first, and pays for the token that is about to leave.
LEMMA RecordKeepsInv ==
    ASSUME ExchangeInv, NEW h \in Handler, Record(h)
    PROVE  ExchangeInv'
<1> DEFINE w == task[h].work
           i == <<w.lineage, w.position>>
           u == [task[h] EXCEPT !.stage = "answering"]
<1>1. Shape /\ RootsOK /\ IssuingOK /\ Paid
  BY DEF ExchangeInv
<1>2. /\ issued \in Nat /\ task \in [Handler -> Task] /\ tokens \subseteq Token /\ IsFiniteSet(tokens)
      /\ trail \in [Lineage \X Position -> Nat] /\ faults \in 0..MaxFaults
      /\ roots \in [Lineage -> Root \cup {None}]
  BY <1>1 DEF Shape
<1>3. /\ task[h].stage = "recording" /\ UNCHANGED <<ringVars, now>>
      /\ trail' = [trail EXCEPT ![i] = @ + 1]
      /\ tokens' = tokens /\ roots' = roots /\ issued' = issued /\ faults' = faults
  BY DEF Record
<1>4. task' = [task EXCEPT ![h] = u]
  BY <1>2 DEF Record
<1>5. task[h] \in Issuing
  BY <1>2, <1>3, TaskStages
<1>6. /\ w \in Token /\ w.lineage \in Lineage /\ w.position \in Position
      /\ task[h].signs \in 0..Signatures
      /\ ~(task[h].signs < Signatures) /\ task[h].kid = w.kid
      /\ w.signers = IF task[h].signs = 0 THEN {} ELSE {task[h].kid}
      /\ Rooted(w, roots, issued)
  BY <1>1, <1>3, <1>5 DEF Issuing, IssuingOK, Token
<1>7. /\ u \in Issuing /\ u \in Task
      /\ u.stage = "answering" /\ u.kid = task[h].kid /\ u.signs = task[h].signs /\ u.work = w
  BY <1>5 DEF Issuing, Task
<1> HIDE DEF u, w
<1>8. trail' \in [Lineage \X Position -> Nat]
  BY <1>2, <1>3, <1>6
<1>9. issued' + Cardinality(AllSettling') <= MaxTokens
  <2>1. u.stage # "settling"
    BY <1>7
  <2>2. /\ Cardinality(AllSettling) \in Nat /\ Cardinality(AllSettling') \in Nat
        /\ Cardinality(AllSettling') <= Cardinality(AllSettling)
    BY <1>2, <1>4, <2>1, SettlingCounts
  <2> QED
    BY <1>1, <1>2, <1>3, <2>2, TokenExchangeAssumption DEF Paid
<1>10. ASSUME NEW l \in Lineage, NEW p \in Position
       PROVE  /\ Cardinality(ReleasedAt(l, p)') + Cardinality(InStage({"answering"}, l, p)')
                     <= trail'[<<l, p>>]
              /\ trail'[<<l, p>>] + Cardinality(InStage({"signing", "recording"}, l, p)') <= issued'
  <2> DEFINE A == Cardinality(InStage({"answering"}, l, p))
             B == Cardinality(InStage({"signing", "recording"}, l, p))
             A1 == Cardinality(InStage({"answering"}, l, p)')
             B1 == Cardinality(InStage({"signing", "recording"}, l, p)')
             R == Cardinality(ReleasedAt(l, p))
             n == trail[<<l, p>>]
  <2>1. ReleasedAt(l, p)' = ReleasedAt(l, p)
    BY <1>3 DEF ReleasedAt
  <2>2. n \in Nat /\ R \in Nat /\ A \in Nat /\ B \in Nat /\ R + A <= n /\ n + B <= issued
    BY PaidNumbers
  <2>3. A1 \in Nat /\ B1 \in Nat /\ A1 <= A + 1
    BY <1>2, <1>4, StageCounts
  <2>4. CASE w.lineage = l /\ w.position = p
    <3>1. At(task[h], {"signing", "recording"}, l, p) /\ ~At(u, {"signing", "recording"}, l, p)
      BY <1>3, <1>7, <2>4 DEF At, w
    <3>2. B1 + 1 <= B
      BY <1>2, <1>4, <3>1, StageCounts
    <3>3. trail'[<<l, p>>] = n + 1
      BY <1>2, <1>3, <2>4
    <3> HIDE DEF A, B, A1, B1, R, n
    <3>4. R + A1 <= n + 1 /\ n + 1 + B1 <= issued
      BY <1>2, <2>2, <2>3, <3>2
    <3> QED
      BY <1>3, <2>1, <3>3, <3>4 DEF A1, B1, R
  <2>5. CASE ~(w.lineage = l /\ w.position = p)
    <3>1. ~At(u, {"answering"}, l, p) /\ ~At(u, {"signing", "recording"}, l, p)
      BY <1>7, <2>5 DEF At
    <3>2. A1 <= A /\ B1 <= B
      BY <1>2, <1>4, <3>1, StageCounts
    <3>3. trail'[<<l, p>>] = n
      BY <1>2, <1>3, <2>5
    <3> HIDE DEF A, B, A1, B1, R, n
    <3>4. R + A1 <= n /\ n + B1 <= issued
      BY <1>2, <2>2, <2>3, <3>2
    <3> QED
      BY <1>3, <2>1, <3>3, <3>4 DEF A1, B1, R
  <2> QED
    BY <2>4, <2>5
<1>11. Paid'
  BY <1>9, <1>10 DEF Paid
<1>12. /\ roots' \in [Lineage -> Root \cup {None}] /\ RootsOK'
       /\ \A l \in Lineage : roots[l] # None => roots'[l] = roots[l]
  BY <1>1, <1>3, RootsUnchanged
<1>13. /\ tokens' \subseteq Token /\ IsFiniteSet(tokens') /\ tokens \subseteq tokens'
       /\ issued' \in Nat /\ issued <= issued' /\ faults' \in 0..MaxFaults
       /\ \A t \in tokens' \ tokens : Rooted(t, roots', issued') /\ t.signers = {t.kid}
  BY <1>2, <1>3
<1>14. u \notin Settling
  BY <1>7 DEF Settling
<1>15. /\ u.kid = u.work.kid
       /\ u.stage = "signing" <=> u.signs < Signatures
       /\ u.work.signers = IF u.signs = 0 THEN {} ELSE {u.kid}
       /\ Rooted(u.work, roots', issued')
  BY <1>3, <1>6, <1>7
<1> QED
  BY <1>3, <1>4, <1>7, <1>8, <1>11, <1>12, <1>13, <1>14, <1>15, TaskMoves

\* The token leaves: what its record paid for.
LEMMA AnswerKeepsInv ==
    ASSUME ExchangeInv, NEW h \in Handler, Answer(h)
    PROVE  ExchangeInv'
<1> DEFINE w == task[h].work
<1>1. Shape /\ RootsOK /\ IssuingOK /\ Paid
  BY DEF ExchangeInv
<1>2. /\ issued \in Nat /\ task \in [Handler -> Task] /\ tokens \subseteq Token /\ IsFiniteSet(tokens)
      /\ trail \in [Lineage \X Position -> Nat] /\ faults \in 0..MaxFaults
      /\ roots \in [Lineage -> Root \cup {None}]
  BY <1>1 DEF Shape
<1>3. /\ task[h].stage = "answering" /\ UNCHANGED <<ringVars, now>>
      /\ tokens' = tokens \cup {w} /\ task' = [task EXCEPT ![h] = IdleTask]
      /\ trail' = trail /\ roots' = roots /\ issued' = issued /\ faults' = faults
  BY DEF Answer
<1>4. task[h] \in Issuing
  BY <1>2, <1>3, TaskStages
<1>5. /\ w \in Token /\ task[h].signs \in 0..Signatures
      /\ ~(task[h].signs < Signatures) /\ task[h].kid = w.kid
      /\ w.signers = IF task[h].signs = 0 THEN {} ELSE {task[h].kid}
      /\ Rooted(w, roots, issued)
  BY <1>1, <1>3, <1>4 DEF Issuing, IssuingOK
<1>6. w.signers = {w.kid}
  BY <1>5, TokenExchangeAssumption
<1>7. IdleTask \in Task /\ IdleTask.stage = "idle"
  BY TaskStages DEF Task
<1> HIDE DEF w
<1>8. IdleTask \notin Issuing /\ IdleTask \notin Settling
  BY <1>7 DEF Issuing, Settling
<1>9. issued' + Cardinality(AllSettling') <= MaxTokens
  <2>1. /\ Cardinality(AllSettling) \in Nat /\ Cardinality(AllSettling') \in Nat
        /\ Cardinality(AllSettling') <= Cardinality(AllSettling)
    BY <1>2, <1>3, <1>7, SettlingCounts
  <2> QED
    BY <1>1, <1>2, <1>3, <2>1, TokenExchangeAssumption DEF Paid
<1>10. ASSUME NEW l \in Lineage, NEW p \in Position
       PROVE  /\ Cardinality(ReleasedAt(l, p)') + Cardinality(InStage({"answering"}, l, p)')
                     <= trail'[<<l, p>>]
              /\ trail'[<<l, p>>] + Cardinality(InStage({"signing", "recording"}, l, p)') <= issued'
  <2> DEFINE A == Cardinality(InStage({"answering"}, l, p))
             B == Cardinality(InStage({"signing", "recording"}, l, p))
             A1 == Cardinality(InStage({"answering"}, l, p)')
             B1 == Cardinality(InStage({"signing", "recording"}, l, p)')
             R == Cardinality(ReleasedAt(l, p))
             R1 == Cardinality(ReleasedAt(l, p)')
             n == trail[<<l, p>>]
  <2>1. /\ n \in Nat /\ R \in Nat /\ A \in Nat /\ B \in Nat /\ R + A <= n /\ n + B <= issued
        /\ IsFiniteSet(ReleasedAt(l, p))
    BY PaidNumbers
  <2>2. A1 \in Nat /\ B1 \in Nat /\ A1 <= A /\ B1 <= B
    <3>1. ~At(IdleTask, {"answering"}, l, p) /\ ~At(IdleTask, {"signing", "recording"}, l, p)
      BY <1>7 DEF At
    <3> QED
      BY <1>2, <1>3, <3>1, StageCounts
  <2>3. CASE w.lineage = l /\ w.position = p
    <3>1. At(task[h], {"answering"}, l, p) /\ ~At(IdleTask, {"answering"}, l, p)
      BY <1>3, <1>7, <2>3 DEF At, w
    <3>2. A1 + 1 <= A
      BY <1>2, <1>3, <3>1, StageCounts
    <3>3. ReleasedAt(l, p)' = ReleasedAt(l, p) \cup {w}
      BY <1>3, <2>3 DEF ReleasedAt
    <3>4. R1 \in Nat /\ R1 <= R + 1
      <4>1. R1 = IF w \in ReleasedAt(l, p) THEN R ELSE R + 1
        BY <2>1, <3>3, FS_AddElement
      <4> HIDE DEF R, R1
      <4> QED
        BY <2>1, <4>1
    <3> HIDE DEF A, B, A1, B1, R, R1, n
    <3>5. R1 + A1 <= n /\ n + B1 <= issued
      BY <1>2, <2>1, <2>2, <3>2, <3>4
    <3> QED
      BY <1>3, <3>5 DEF A1, B1, R1, n
  <2>4. CASE ~(w.lineage = l /\ w.position = p)
    <3>1. ReleasedAt(l, p)' = ReleasedAt(l, p)
      BY <1>3, <2>4 DEF ReleasedAt
    <3>2. R1 = R
      BY <3>1
    <3> HIDE DEF A, B, A1, B1, R, R1, n
    <3>3. R1 + A1 <= n /\ n + B1 <= issued
      BY <1>2, <2>1, <2>2, <3>2
    <3> QED
      BY <1>3, <3>3 DEF A1, B1, R1, n
  <2> QED
    BY <2>3, <2>4
<1>11. Paid'
  BY <1>9, <1>10 DEF Paid
<1>12. /\ roots' \in [Lineage -> Root \cup {None}] /\ RootsOK'
       /\ \A l \in Lineage : roots[l] # None => roots'[l] = roots[l]
  BY <1>1, <1>3, RootsUnchanged
<1>13. /\ tokens' \subseteq Token /\ IsFiniteSet(tokens') /\ tokens \subseteq tokens'
  BY <1>2, <1>3, <1>5, FS_AddElement
<1>14. \A t \in tokens' \ tokens : Rooted(t, roots', issued') /\ t.signers = {t.kid}
  BY <1>3, <1>5, <1>6
<1>15. trail' \in [Lineage \X Position -> Nat] /\ issued' \in Nat /\ issued <= issued'
       /\ faults' \in 0..MaxFaults
  BY <1>2, <1>3
<1> QED
  BY <1>3, <1>7, <1>8, <1>11, <1>12, <1>13, <1>14, <1>15, TaskMoves

\* The ring and the clock go on, and the process dies, without touching what
\* was released, recorded or promised.
LEMMA EnvironmentKeepsInv ==
    ASSUME ExchangeInv, RingStep \/ Tick \/ Crash \/ UNCHANGED vars
    PROVE  ExchangeInv'
<1>1. Shape /\ RootsOK /\ TokensOK /\ IssuingOK /\ SettlingOK /\ Paid
  BY DEF ExchangeInv
<1>2. ASSUME UNCHANGED <<task, tokens, trail, roots, issued>>, Shape' PROVE ExchangeInv'
  BY <1>1, <1>2 DEF ExchangeInv, RootsOK, TokensOK, IssuingOK, SettlingOK, Paid, AllSettling,
                    ReleasedAt, InStage
<1>3. CASE RingStep
  <2>1. status' \in [Kid -> Ring!State]
    BY <1>3 DEF RingStep, Ring!Advance
  <2>2. retiredAt' \in [Kid -> 0..MaxTime \cup {None}]
    BY <1>1, <1>3 DEF RingStep, Shape
  <2> QED
    BY <1>1, <1>2, <1>3, <2>1, <2>2 DEF RingStep, Shape
<1>4. CASE Tick
  <2>1. now' \in 0..MaxTime
    BY <1>1, <1>4, TokenExchangeAssumption DEF Tick, Shape
  <2> QED
    BY <1>1, <1>2, <1>4, <2>1 DEF Tick, Shape, ringVars
<1>5. CASE UNCHANGED vars
  BY <1>1, <1>2, <1>5 DEF vars, Shape
<1>6. CASE Crash
  <2>1. /\ task' = [x \in Handler |-> IdleTask] /\ UNCHANGED <<ringVars, now>>
        /\ tokens' = tokens /\ trail' = trail /\ roots' = roots /\ issued' = issued
        /\ faults' \in 0..MaxFaults
    BY <1>1, <1>6, TokenExchangeAssumption DEF Crash, Shape
  <2>2. IdleTask \in Task /\ IdleTask.stage = "idle"
    BY TaskStages DEF Task
  <2>3. Shape'
    BY <1>1, <2>1, <2>2 DEF Shape, ringVars
  <2>4. \A x \in Handler : task'[x].stage = "idle"
    BY <2>1, <2>2
  <2>5. IssuingOK' /\ SettlingOK'
    BY <2>4 DEF IssuingOK, SettlingOK
  <2>6. RootsOK' /\ TokensOK'
    BY <1>1, <2>1 DEF RootsOK, TokensOK
  <2>7. Cardinality({}) = 0
    BY FS_EmptySet
  <2>8. issued' + Cardinality(AllSettling') <= MaxTokens
    <3>1. AllSettling' = {}
      BY <2>4 DEF AllSettling
    <3>2. Cardinality(AllSettling) \in Nat
      <4>1. AllSettling \subseteq Handler
        BY DEF AllSettling
      <4> QED
        BY <4>1, FS_Subset, FS_CardinalityType, TokenExchangeAssumption
    <3>3. issued \in Nat /\ issued + Cardinality(AllSettling) <= MaxTokens
      BY <1>1 DEF Shape, Paid
    <3> QED
      BY <2>1, <2>7, <3>1, <3>2, <3>3, TokenExchangeAssumption
  <2>9. ASSUME NEW l \in Lineage, NEW p \in Position
        PROVE  /\ Cardinality(ReleasedAt(l, p)') + Cardinality(InStage({"answering"}, l, p)')
                      <= trail'[<<l, p>>]
               /\ trail'[<<l, p>>] + Cardinality(InStage({"signing", "recording"}, l, p)') <= issued'
    <3>1. InStage({"answering"}, l, p)' = {} /\ InStage({"signing", "recording"}, l, p)' = {}
      BY <2>4 DEF InStage
    <3>2. ReleasedAt(l, p)' = ReleasedAt(l, p)
      BY <2>1 DEF ReleasedAt
    <3>3. /\ trail[<<l, p>>] \in Nat /\ issued \in Nat
          /\ Cardinality(ReleasedAt(l, p)) \in Nat
          /\ Cardinality(InStage({"answering"}, l, p)) \in Nat
          /\ Cardinality(InStage({"signing", "recording"}, l, p)) \in Nat
          /\ Cardinality(ReleasedAt(l, p)) + Cardinality(InStage({"answering"}, l, p))
                 <= trail[<<l, p>>]
          /\ trail[<<l, p>>] + Cardinality(InStage({"signing", "recording"}, l, p)) <= issued
      BY PaidNumbers
    <3>4. /\ Cardinality(ReleasedAt(l, p)) + 0 <= trail[<<l, p>>]
          /\ trail[<<l, p>>] + 0 <= issued
      BY <3>3
    <3> QED
      BY <2>1, <2>7, <3>1, <3>2, <3>4
  <2> QED
    BY <2>3, <2>5, <2>6, <2>8, <2>9 DEF ExchangeInv, Paid
<1> QED
  BY <1>3, <1>4, <1>5, <1>6

LEMMA ExchangeInvInit ==
    ASSUME Init PROVE ExchangeInv
<1>1. IdleTask \in Task /\ IdleTask.stage = "idle"
  BY TaskStages DEF Task
<1>2. Shape
  BY <1>1, FS_EmptySet, TokenExchangeAssumption DEF Init, Shape, Ring!State
<1>3. \A h \in Handler : task[h].stage = "idle"
  BY <1>1 DEF Init
<1>4. RootsOK
  <2>1. \A l \in Lineage : roots[l] # None <=> l <= 0
    BY TokenExchangeAssumption DEF Init, Lineage
  <2> QED
    BY <2>1 DEF RootsOK
<1>5. TokensOK /\ IssuingOK /\ SettlingOK
  BY <1>3 DEF Init, TokensOK, IssuingOK, SettlingOK
<1>6. Cardinality({}) = 0
  BY FS_EmptySet
<1>7. Paid
  <2>1. AllSettling = {} /\ issued = 0
    BY <1>3 DEF AllSettling, Init
  <2>2. ASSUME NEW l \in Lineage, NEW p \in Position
        PROVE  /\ ReleasedAt(l, p) = {} /\ InStage({"answering"}, l, p) = {}
               /\ InStage({"signing", "recording"}, l, p) = {} /\ trail[<<l, p>>] = 0
    BY <1>3 DEF Init, ReleasedAt, InStage
  <2>3. issued + Cardinality(AllSettling) <= MaxTokens
    BY <1>6, <2>1, TokenExchangeAssumption
  <2>4. ASSUME NEW l \in Lineage, NEW p \in Position
        PROVE  /\ Cardinality(ReleasedAt(l, p)) + Cardinality(InStage({"answering"}, l, p))
                      <= trail[<<l, p>>]
               /\ trail[<<l, p>>] + Cardinality(InStage({"signing", "recording"}, l, p)) <= issued
    BY <1>6, <2>1, <2>2
  <2> QED
    BY <2>3, <2>4 DEF Paid
<1> QED
  BY <1>2, <1>4, <1>5, <1>7 DEF ExchangeInv

LEMMA ExchangeInvStep ==
    ASSUME ExchangeInv, [Next]_vars PROVE ExchangeInv'
<1>1. ASSUME NEW h \in Handler, HandlerStep(h) PROVE ExchangeInv'
  <2>1. CASE Refuse(h)
    BY <2>1, EnvironmentKeepsInv DEF Refuse
  <2>2. ASSUME NEW r \in Request, BeginInitial(h, r) PROVE ExchangeInv'
    BY <2>2, BeginInitialKeepsInv
  <2>3. ASSUME NEW c \in Candidates, BeginAdvance(h, c) PROVE ExchangeInv'
    BY <2>3, BeginAdvanceKeepsInv
  <2>4. CASE Settle(h)
    BY <2>4, SettleKeepsInv
  <2>5. CASE Sign(h)
    BY <2>5, SignKeepsInv
  <2>6. CASE Record(h)
    BY <2>6, RecordKeepsInv
  <2>7. CASE Answer(h)
    BY <2>7, AnswerKeepsInv
  <2>8. CASE RecordFails(h) \/ Reject(h)
    <3>1. faults \in 0..MaxFaults
      BY DEF ExchangeInv, Shape
    <3>2. /\ task' = [task EXCEPT ![h] = IdleTask]
          /\ UNCHANGED <<ringVars, now, tokens, trail, roots, issued>>
      BY <2>8 DEF RecordFails, Reject
    <3>3. faults' \in 0..MaxFaults
      BY <2>8, <3>1, TokenExchangeAssumption DEF RecordFails, Reject
    <3> QED
      BY <3>2, <3>3, WithdrawKeepsInv
  <2> QED
    BY <1>1, <2>1, <2>2, <2>3, <2>4, <2>5, <2>6, <2>7, <2>8 DEF HandlerStep
<1> QED
  BY <1>1, EnvironmentKeepsInv DEF Next

LEMMA ExchangeInvariant == Spec => []ExchangeInv
<1>1. Init => ExchangeInv
  BY ExchangeInvInit
<1>2. ExchangeInv /\ [Next]_vars => ExchangeInv'
  BY ExchangeInvStep
<1> QED
  BY <1>1, <1>2, PTL DEF Spec

----------------------------------------------------------------------------
(* The theorems *)

\* Whatever handlers, rotations, crashes and failures of the trail interleave,
\* a handler's work has the shape its stage promises, and no token outlives
\* the horizon that the lifetime limits leave (initial_expiry, issue_settled).
THEOREM ExchangeTypeCorrect == Spec => []TypeOK
<1>1. ASSUME ExchangeInv PROVE TypeOK
  <2>1. Shape /\ IssuingOK /\ Paid
    BY <1>1 DEF ExchangeInv
  <2>2. issued \in 0..MaxTokens
    <3>1. issued \in Nat /\ issued + Cardinality(AllSettling) <= MaxTokens
      BY <2>1 DEF Shape, Paid
    <3>2. Cardinality(AllSettling) \in Nat
      <4>1. AllSettling \subseteq Handler
        BY DEF AllSettling
      <4> QED
        BY <4>1, FS_Subset, FS_CardinalityType, TokenExchangeAssumption
    <3> QED
      BY <3>1, <3>2, TokenExchangeAssumption
  <2>3. trail \in [Lineage \X Position -> 0..MaxTokens]
    <3>1. ASSUME NEW l \in Lineage, NEW p \in Position PROVE trail[<<l, p>>] \in 0..MaxTokens
      <4>1. /\ trail[<<l, p>>] \in Nat
            /\ Cardinality(InStage({"signing", "recording"}, l, p)) \in Nat
            /\ trail[<<l, p>>] + Cardinality(InStage({"signing", "recording"}, l, p)) <= issued
        BY <1>1, PaidNumbers
      <4> QED
        BY <2>2, <4>1, TokenExchangeAssumption
    <3>2. trail \in [Lineage \X Position -> Nat]
      BY <2>1 DEF Shape
    <3> QED
      BY <3>1, <3>2
  <2>4. ASSUME NEW h \in Handler
        PROVE  \/ task[h] \in {IdleTask, [IdleTask EXCEPT !.stage = "rejecting"]}
               \/ /\ task[h].stage = "settling" /\ task[h].signs = 0
                  /\ task[h].kid \in Kid
                  /\ task[h].work \in Candidate
               \/ /\ task[h].stage \in {"signing", "recording", "answering"}
                  /\ task[h].signs \in 0..Signatures
                  /\ task[h].stage = "signing" <=> task[h].signs < Signatures
                  /\ task[h].work \in Token
                  /\ task[h].kid = task[h].work.kid
    <3>1. task[h] \in Task
      BY <2>1 DEF Shape
    <3>2. CASE task[h] \in Issuing
      BY <2>1, <3>2 DEF Issuing, IssuingOK
    <3>3. CASE task[h] \in Settling
      BY <3>3 DEF Settling
    <3> QED
      BY <3>1, <3>2, <3>3 DEF Task, Rejecting
  <2> QED
    BY <2>1, <2>2, <2>3, <2>4 DEF Shape, TypeOK
<1> QED
  BY <1>1, ExchangeInvariant, PTL

\* Of every checkpoint at least as many issues are recorded as clients hold
\* tokens of it: no authority leaves without a durable trace, through crashes,
\* failures of the trail and siblings of one position (issue_settled, Record
\* before Answer).
THEOREM NothingLeavesUnrecorded == Spec => []ReleasedIsRecorded
<1>1. ASSUME ExchangeInv PROVE ReleasedIsRecorded
  <2> SUFFICES ASSUME NEW l \in Lineage, NEW p \in Position
               PROVE  Cardinality(ReleasedAt(l, p)) <= trail[<<l, p>>]
    BY DEF ReleasedIsRecorded, ReleasedAt
  <2>1. /\ trail[<<l, p>>] \in Nat /\ Cardinality(ReleasedAt(l, p)) \in Nat
        /\ Cardinality(InStage({"answering"}, l, p)) \in Nat
        /\ Cardinality(ReleasedAt(l, p)) + Cardinality(InStage({"answering"}, l, p))
               <= trail[<<l, p>>]
    BY <1>1, PaidNumbers
  <2> QED
    BY <2>1
<1> QED
  BY <1>1, ExchangeInvariant, PTL

\* Every token of a lineage expires when the lineage's first one does,
\* whatever candidates claim: advancing repeatedly never prolongs authority
\* (advance, the expiry that a successor inherits).
THEOREM ExpiryIsInherited == Spec => []LineageKeepsItsExpiry
<1>1. ASSUME ExchangeInv PROVE LineageKeepsItsExpiry
  BY <1>1 DEF ExchangeInv, TokensOK, Rooted, LineageKeepsItsExpiry
<1> QED
  BY <1>1, ExchangeInvariant, PTL

\* Along a lineage privileges are only dropped and constraints only added,
\* though each hop is checked on its own and no checkpoint is stored
\* (Settlement with RealmSignedCheckpoints).
THEOREM AuthorityOnlyAttenuates == Spec => []AuthorityNeverGrows
<1>1. ASSUME ExchangeInv PROVE AuthorityNeverGrows
  BY <1>1 DEF ExchangeInv, TokensOK, Rooted, AuthorityNeverGrows
<1> QED
  BY <1>1, ExchangeInvariant, PTL

\* Every workload that advanced a lineage disclosed all of what the lineage's
\* first contract requires (ContractConformance).
THEOREM ContractsBindEveryHop == Spec => []ContractsBind
<1>1. ASSUME ExchangeInv PROVE ContractsBind
  BY <1>1 DEF ExchangeInv, TokensOK, Rooted, ContractsBind
<1> QED
  BY <1>1, ExchangeInvariant, PTL

\* A rotation in the middle of an issue never yields a token whose parts are
\* signed by different keys, or by another than the header names
\* (RealmTokenSigner::sign).
THEOREM OneSignerPerToken == Spec => []OneKeySignsAToken
<1>1. ASSUME ExchangeInv PROVE OneKeySignsAToken
  BY <1>1 DEF ExchangeInv, TokensOK, OneKeySignsAToken
<1> QED
  BY <1>1, ExchangeInvariant, PTL
=============================================================================
