---------------------------- MODULE SessionProofs -----------------------------
(***************************************************************************)
(* Theorems about Session for every set of models, prompts and bounds: its *)
(* types, the coherence of a session's parts, and that it is the           *)
(* conversation log of SessionLog.                                         *)
(***************************************************************************)
EXTENDS Session, SequenceTheorems, TLAPS

-----------------------------------------------------------------------------
(* Types.                                                                    *)

\* What is assumed of the model: it chooses tokens of its vocabulary.
PicksTokens == \A m \in Models, c \in States : Pick(m, c) \in Tokens

\* The empty session is one.
LEMMA NoSessionType == NoSession \in SessionType
BY EmptySeq DEF NoSession, SessionType, States

\* A prefix of a sequence is a sequence over the same elements.
LEMMA PrefixType ==
  ASSUME NEW S, NEW q \in Seq(S), NEW n \in Int, n <= Len(q)
  PROVE  SubSeq(q, 1, n) \in Seq(S)
<1>1. CASE n >= 1
  BY <1>1, SubSeqProperties
<1>2. CASE n < 1
  BY <1>2, SubSeqProperties, EmptySeq
<1> QED BY <1>1, <1>2

\* Nothing is lost of a sequence that fits.
LEMMA WholePrefix ==
  ASSUME NEW S, NEW q \in Seq(S)
  PROVE  SubSeq(q, 1, Len(q)) = q
BY SubSeqFull

\* What a model reads of a token sequence is as long as the sequence.
LEMMA ReadType ==
  ASSUME NEW m \in Models, NEW ts \in Seq(Tokens)
  PROVE  /\ [i \in 1..Len(ts) |-> <<m, ts[i]>>] \in States
         /\ Len([i \in 1..Len(ts) |-> <<m, ts[i]>>]) = Len(ts)
<1> DEFINE in == [i \in 1..Len(ts) |-> <<m, ts[i]>>]
<1>1. Len(ts) \in Nat /\ \A i \in 1..Len(ts) : ts[i] \in Tokens
  BY LenProperties, ElementOfSeq
<1>2. in \in [1..Len(ts) -> Models \X Tokens]
  BY <1>1
<1>3. in \in Seq(Models \X Tokens)
  BY <1>1, <1>2, IsASeq
<1>4. DOMAIN in = 1..Len(ts)
  OBVIOUS
<1>5. Len(in) = Len(ts)
  BY <1>1, <1>3, <1>4, LenProperties
<1> QED BY <1>3, <1>5 DEF States

-----------------------------------------------------------------------------
(* A forward pass.                                                           *)

\* The pairs that go through the layers when the running model reads ts.
In(ts) == [i \in 1..Len(ts) |-> <<run.model, ts[i]>>]

\* A session, field by field.
LEMMA SessionFields ==
  ASSUME NEW t \in SessionType
  PROVE  t = [cap |-> t.cap, pos |-> t.pos, attn |-> t.attn, delta |-> t.delta,
              hist |-> t.hist, logits |-> t.logits, haveLogits |-> t.haveLogits]
BY DEF SessionType

\* A session with another history.
LEMMA HistOnly ==
  ASSUME NEW t, NEW h,
         t = [cap |-> t.cap, pos |-> t.pos, attn |-> t.attn, delta |-> t.delta,
              hist |-> t.hist, logits |-> t.logits, haveLogits |-> t.haveLogits]
  PROVE  [t EXCEPT !.hist = h]
           = [cap |-> t.cap, pos |-> t.pos, attn |-> t.attn, delta |-> t.delta,
              hist |-> h, logits |-> t.logits, haveLogits |-> t.haveLogits]
<1> DEFINE r == [cap |-> t.cap, pos |-> t.pos, attn |-> t.attn, delta |-> t.delta,
                 hist |-> t.hist, logits |-> t.logits, haveLogits |-> t.haveLogits]
<1>1. [r EXCEPT !.hist = h]
        = [cap |-> t.cap, pos |-> t.pos, attn |-> t.attn, delta |-> t.delta,
           hist |-> h, logits |-> t.logits, haveLogits |-> t.haveLogits]
  OBVIOUS
<1>2. t = r
  OBVIOUS
<1> HIDE DEF r
<1> QED BY <1>1, <1>2

\* A pass changes the session's fields one by one.
LEMMA PassFields ==
  ASSUME NEW t \in SessionType, NEW ts
  PROVE  LET u == Remember(Forward(t, ts), ts)
         IN /\ u = [cap |-> t.cap,
                    pos |-> t.pos + Len(ts),
                    attn |-> t.attn \o SubSeq(In(ts), 1, AtMost(Len(ts), t.cap - Len(t.attn))),
                    delta |-> t.delta \o In(ts),
                    hist |-> t.hist \o SubSeq(ts, 1, AtMost(Len(ts), t.cap - Len(t.hist))),
                    logits |-> t.delta \o In(ts),
                    haveLogits |-> TRUE]
            /\ u = Forward(Remember(t, ts), ts)
<1> DEFINE attn == t.attn \o SubSeq(In(ts), 1, AtMost(Len(ts), t.cap - Len(t.attn)))
           hist == t.hist \o SubSeq(ts, 1, AtMost(Len(ts), t.cap - Len(t.hist)))
           delta == t.delta \o In(ts)
           Fwd(r) == [cap |-> r.cap, pos |-> t.pos + Len(ts), attn |-> attn,
                      delta |-> delta, hist |-> r.hist, logits |-> delta,
                      haveLogits |-> TRUE]
           Rem(r) == [cap |-> r.cap, pos |-> r.pos, attn |-> r.attn,
                      delta |-> r.delta, hist |-> hist, logits |-> r.logits,
                      haveLogits |-> r.haveLogits]
<1>1. Forward(t, ts) = Fwd(t)
  BY DEF Forward, SessionType, In
<1>2. Remember(t, ts) = Rem(t)
  BY SessionFields, HistOnly DEF Remember
<1>3. Remember(Fwd(t), ts) = Rem(Fwd(t))
  <2> DEFINE w == Fwd(t)
  <2>1. w.cap = t.cap /\ w.hist = t.hist
    OBVIOUS
  <2>2. w = [cap |-> w.cap, pos |-> w.pos, attn |-> w.attn, delta |-> w.delta,
             hist |-> w.hist, logits |-> w.logits, haveLogits |-> w.haveLogits]
    OBVIOUS
  <2> HIDE DEF w
  <2>3. Remember(w, ts) = Rem(w)
    BY <2>1, <2>2, HistOnly DEF Remember
  <2> QED BY <2>3 DEF w
<1>4. Forward(Rem(t), ts) = Fwd(Rem(t))
  BY DEF Forward, In
<1> QED BY <1>1, <1>2, <1>3, <1>4

\* Whatever fits, the linear layers read it all.
LEMMA PassDelta ==
  ASSUME NEW t \in SessionType, NEW ts
  PROVE  /\ Remember(Forward(t, ts), ts).delta = t.delta \o In(ts)
         /\ Forward(Remember(t, ts), ts).delta = t.delta \o In(ts)
<1>1. Remember(t, ts).delta = t.delta
  BY DEF Remember, SessionType
<1>2. \A r : Forward(r, ts).delta = r.delta \o In(ts)
  BY DEF Forward, In
<1>3. Remember(Forward(t, ts), ts).delta = Forward(t, ts).delta
  BY DEF Remember, Forward
<1> QED BY <1>1, <1>2, <1>3

\* A pass that fits the capacity keeps the session's parts together.
LEMMA PassDescribes ==
  ASSUME run.model \in Models, NEW t \in SessionType, NEW ts \in Seq(Tokens),
         Describes(t), t.pos + Len(ts) <= t.cap, Len(ts) # 0
  PROVE  LET u == Remember(Forward(t, ts), ts)
         IN /\ u \in SessionType
            /\ Describes(u)
            /\ u.delta = t.delta \o In(ts)
            /\ u.haveLogits
            /\ u = Forward(Remember(t, ts), ts)
<1> DEFINE u == Remember(Forward(t, ts), ts)
           whole == [cap |-> t.cap, pos |-> t.pos + Len(ts),
                     attn |-> t.delta \o In(ts), delta |-> t.delta \o In(ts),
                     hist |-> t.hist \o ts, logits |-> t.delta \o In(ts),
                     haveLogits |-> TRUE]
<1>1. /\ t.cap \in Int /\ t.pos \in Nat /\ t.attn \in States /\ t.delta \in States
      /\ t.hist \in Seq(Tokens)
  BY DEF SessionType
<1>2. In(ts) \in Seq(Models \X Tokens) /\ t.delta \in Seq(Models \X Tokens) /\ Len(In(ts)) = Len(ts) /\ Len(ts) \in Nat
  BY <1>1, ReadType, LenProperties DEF In, States
<1>3. Len(t.attn) = t.pos /\ Len(t.hist) = t.pos /\ Len(t.delta) = t.pos /\ t.attn = t.delta
  BY DEF Describes
<1>4. AtMost(Len(ts), t.cap - t.pos) = Len(ts)
  BY <1>1, <1>2 DEF AtMost
<1>5. SubSeq(In(ts), 1, Len(ts)) = In(ts) /\ SubSeq(ts, 1, Len(ts)) = ts
  BY <1>2, WholePrefix DEF States
<1>6. u = whole
  BY PassFields, <1>3, <1>4, <1>5
<1>7. t.delta \o In(ts) \in States /\ Len(t.delta \o In(ts)) = t.pos + Len(ts)
  BY <1>1, <1>2, <1>3, ConcatProperties DEF States
<1>8. t.hist \o ts \in Seq(Tokens) /\ Len(t.hist \o ts) = t.pos + Len(ts)
  BY <1>1, <1>3, ConcatProperties
<1>9. whole \in SessionType
  BY <1>1, <1>2, <1>7, <1>8 DEF SessionType
<1>10. \A i \in 1..(t.pos + Len(ts)) : (t.delta \o In(ts))[i][2] = (t.hist \o ts)[i]
  <2> SUFFICES ASSUME NEW i \in 1..(t.pos + Len(ts))
               PROVE  (t.delta \o In(ts))[i][2] = (t.hist \o ts)[i]
    OBVIOUS
  <2>1. (t.delta \o In(ts))[i] = IF i <= t.pos THEN t.delta[i] ELSE In(ts)[i - t.pos]
    BY <1>2, <1>3, ConcatProperties
  <2>2. (t.hist \o ts)[i] = IF i <= t.pos THEN t.hist[i] ELSE ts[i - t.pos]
    BY <1>1, <1>3, ConcatProperties
  <2>3. i <= t.pos => t.delta[i][2] = t.hist[i]
    BY <1>1, <1>3 DEF Describes
  <2>4. i > t.pos => In(ts)[i - t.pos][2] = ts[i - t.pos]
    BY <1>1, <1>2 DEF In
  <2> QED BY <1>1, <2>1, <2>2, <2>3, <2>4
<1>11. Describes(whole)
  <2>1. \A i \in 1..Len(whole.hist) : whole.delta[i][2] = whole.hist[i]
    BY <1>8, <1>10
  <2>2. whole.pos = Len(whole.delta) /\ Len(whole.hist) = whole.pos
    BY <1>7, <1>8
  <2> QED BY <2>1, <2>2 DEF Describes
<1>12. u.delta = t.delta \o In(ts) /\ u.haveLogits /\ u = Forward(Remember(t, ts), ts)
  BY PassFields
<1> HIDE DEF u, whole
<1> QED BY <1>6, <1>9, <1>11, <1>12 DEF u

-----------------------------------------------------------------------------
(* Types and coherence.                                                      *)

\* Between runs, and until FILE is read, there is no session.
FreshInv == pc \in {"idle", "open"} => s = NoSession

\* From the first generated token on there are logits to choose from.
ReadyInv == pc \in {"generate", "save", "write"} => s.haveLogits

\* While it is written, the snapshot is the session.
SaveInv == pc = "write" => snap.sess = s /\ written # Absent

SInv == TypeOK /\ Coherent /\ FreshInv /\ ReadyInv /\ SaveInv

LEMMA NoSessionDescribes == Describes(NoSession)
BY EmptySeq DEF NoSession, Describes

LEMMA SInvInit == Init => SInv
<1> SUFFICES ASSUME Init PROVE SInv
  OBVIOUS
<1>1. TypeOK
  BY NoSessionType, EmptySeq, SizesAssumption DEF Init, TypeOK, Absent
<1> QED BY <1>1, NoSessionDescribes DEF Init, SInv, Coherent, FreshInv, ReadyInv, SaveInv

\* A restored session has room for what it holds.
LEMMA LoadDescribes ==
  ASSUME TypeOK, Coherent
  PROVE  /\ LoadCap \in Int
         /\ [snap.sess EXCEPT !.cap = LoadCap] \in SessionType
         /\ Describes([snap.sess EXCEPT !.cap = LoadCap])
<1>1. snap.sess \in SessionType /\ run.n \in Int /\ Len(run.prompt) \in Nat
  BY PromptsAssumption, SizesAssumption, LenProperties DEF TypeOK
<1>2. Extra \in Int
  BY <1>1, SizesAssumption DEF Extra
<1>3. snap.sess.pos \in Nat /\ snap.sess.hist \in Seq(Tokens) /\ Len(snap.sess.hist) \in Nat
  BY <1>1, LenProperties DEF SessionType
<1>4. LoadCap \in Int /\ LoadCap >= snap.sess.pos
  BY <1>2, <1>3 DEF LoadCap, AtLeast
<1>5. [snap.sess EXCEPT !.cap = LoadCap] \in SessionType
  BY <1>1, <1>4 DEF SessionType
<1>6. Describes([snap.sess EXCEPT !.cap = LoadCap])
  BY <1>1, <1>4 DEF SessionType, Describes, Coherent
<1> QED BY <1>4, <1>5, <1>6

\* Every step that leaves FILE alone keeps what is known of it; the rest of
\* SInv is about the session and the run.
LEMMA Kept ==
  ASSUME SInv, UNCHANGED <<written, snap>>,
         pc' \in {"idle", "open", "feed", "generate", "save"},
         run' \in [model : Models, prompt : Prompts, n : NPredicts],
         made' \in Nat,
         s' \in SessionType, Describes(s'), FreshInv', ReadyInv'
  PROVE  SInv'
<1>1. TypeOK'
  BY DEF SInv, TypeOK
<1>2. Coherent'
  BY DEF SInv, Coherent
<1>3. SaveInv'
  BY DEF SaveInv
<1> QED BY <1>1, <1>2, <1>3 DEF SInv

\* A process that ends leaves no session.
LEMMA ExitKeeps == SInv /\ Exit /\ UNCHANGED <<run, written, snap>> => SInv'
<1> SUFFICES ASSUME SInv, Exit, UNCHANGED <<run, written, snap>> PROVE SInv'
  OBVIOUS
<1>1. /\ pc' = "idle" /\ s' = NoSession /\ made' = 0 /\ UNCHANGED <<written, snap>>
      /\ run' \in [model : Models, prompt : Prompts, n : NPredicts]
  BY DEF Exit, SInv, TypeOK
<1>2. FreshInv' /\ ReadyInv'
  BY <1>1 DEF FreshInv, ReadyInv
<1> QED BY <1>1, <1>2, Kept, NoSessionType, NoSessionDescribes

\* One generated token, as a sequence.
LEMMA OneToken ==
  ASSUME NEW t \in Tokens
  PROVE  <<t>> \in Seq(Tokens) /\ Len(<<t>>) = 1
OBVIOUS

LEMMA SInvStep == PicksTokens /\ SInv /\ [Next]_vars => SInv'
<1> SUFFICES ASSUME PicksTokens, SInv, [Next]_vars PROVE SInv'
  OBVIOUS
<1> USE DEF SInv
<1>t. /\ run \in [model : Models, prompt : Prompts, n : NPredicts]
      /\ s \in SessionType /\ Describes(s) /\ made \in Nat
  BY DEF TypeOK, Coherent
<1>1. ASSUME NEW m \in Models, NEW p \in Prompts, NEW n \in NPredicts, Start(m, p, n)
      PROVE  SInv'
  <2>1. /\ pc' = "open" /\ s' = s /\ made' = made /\ UNCHANGED <<written, snap>>
        /\ run' \in [model : Models, prompt : Prompts, n : NPredicts]
    BY <1>1 DEF Start
  <2>2. FreshInv' /\ ReadyInv'
    BY <1>1, <2>1 DEF Start, FreshInv, ReadyInv
  <2> QED BY <1>t, <2>1, <2>2, Kept
<1>2. CASE OpenNew
  <2>1. /\ pc' = "feed" /\ s' = [NoSession EXCEPT !.cap = AtLeast(Extra, 1)]
        /\ UNCHANGED <<run, made, written, snap>>
    BY <1>2 DEF OpenNew
  <2>2. AtLeast(Extra, 1) \in Int /\ AtLeast(Extra, 1) >= 1
    <3>1. run.prompt \in Seq(Tokens) /\ run.n \in Int /\ Len(run.prompt) \in Nat
      BY <1>t, PromptsAssumption, SizesAssumption, LenProperties
    <3>2. Extra \in Int
      BY <3>1, SizesAssumption DEF Extra
    <3> QED BY <3>2 DEF AtLeast
  <2>3. s' \in SessionType /\ Describes(s')
    <3>1. s' = [cap |-> AtLeast(Extra, 1), pos |-> 0, attn |-> <<>>, delta |-> <<>>,
                hist |-> <<>>, logits |-> <<>>, haveLogits |-> FALSE]
      BY <2>1 DEF NoSession
    <3>2. <<>> \in States /\ <<>> \in Seq(Tokens) /\ Len(<<>>) = 0
      BY EmptySeq DEF States
    <3> QED BY <2>2, <3>1, <3>2 DEF SessionType, Describes
  <2>4. FreshInv' /\ ReadyInv'
    BY <2>1 DEF FreshInv, ReadyInv
  <2> QED BY <1>t, <2>1, <2>3, <2>4, Kept
<1>3. CASE OpenLoad
  <2>1. /\ pc' = "feed" /\ s' = [snap.sess EXCEPT !.cap = LoadCap]
        /\ UNCHANGED <<run, made, written, snap>>
    BY <1>3 DEF OpenLoad
  <2>2. s' \in SessionType /\ Describes(s')
    BY <2>1, LoadDescribes
  <2>3. FreshInv' /\ ReadyInv'
    BY <2>1 DEF FreshInv, ReadyInv
  <2> QED BY <1>t, <2>1, <2>2, <2>3, Kept
<1>4. CASE OpenRejects
  BY <1>4, ExitKeeps DEF OpenRejects
<1>5. CASE Feed
  <2> DEFINE u == Remember(Forward(s, run.prompt), run.prompt)
  <2>1. /\ pc' = "generate" /\ s' = u
        /\ UNCHANGED <<run, made, written, snap>>
    BY <1>5 DEF Feed
  <2>2. run.prompt \in Seq(Tokens) /\ run.prompt # <<>> /\ s.pos + Len(run.prompt) <= s.cap
    BY <1>5, <1>t, PromptsAssumption DEF Feed
  <2>3. Len(run.prompt) # 0
    BY <2>2, EmptySeq
  <2>4. u \in SessionType /\ Describes(u) /\ u.haveLogits
    BY <1>t, <2>2, <2>3, PassDescribes
  <2> HIDE DEF u
  <2>5. FreshInv' /\ ReadyInv'
    BY <2>1, <2>4 DEF FreshInv, ReadyInv
  <2> QED BY <1>t, <2>1, <2>4, <2>5, Kept
<1>6. CASE FeedNothing
  <2>1. /\ pc' = "generate" /\ s.haveLogits
        /\ UNCHANGED <<run, s, made, written, snap>>
    BY <1>6 DEF FeedNothing
  <2>2. FreshInv' /\ ReadyInv'
    BY <2>1 DEF FreshInv, ReadyInv
  <2> QED BY <1>t, <2>1, <2>2, Kept
<1>7. CASE FeedFails
  BY <1>7, ExitKeeps DEF FeedFails
<1>8. CASE Generate
  <2> DEFINE u == Remember(Forward(s, <<Choice>>), <<Choice>>)
  <2>1. /\ pc' = pc /\ pc = "generate" /\ made' = made + 1
        /\ s' = Forward(Remember(s, <<Choice>>), <<Choice>>)
        /\ UNCHANGED <<run, written, snap>> /\ s.pos < s.cap
    BY <1>8 DEF Generate, MayGoOn
  <2>2. Choice \in Tokens
    BY <1>t DEF Choice, PicksTokens, SessionType
  <2>3. /\ s.pos \in Nat /\ s.cap \in Int
        /\ <<Choice>> \in Seq(Tokens) /\ Len(<<Choice>>) = 1
    BY <1>t, <2>2, OneToken DEF SessionType
  <2>4. u \in SessionType /\ Describes(u) /\ u.haveLogits /\ s' = u
    <3>1. run.model \in Models /\ s.pos + Len(<<Choice>>) <= s.cap /\ Len(<<Choice>>) # 0
      BY <1>t, <2>1, <2>3
    <3> QED BY <1>t, <2>1, <2>3, <3>1, PassDescribes
  <2> HIDE DEF u
  <2>5. FreshInv' /\ ReadyInv'
    BY <2>1, <2>4 DEF FreshInv, ReadyInv
  <2> QED BY <1>t, <2>1, <2>4, <2>5, Kept
<1>9. CASE GenerateEnds
  <2>1. /\ pc' = "save" /\ pc = "generate" /\ UNCHANGED <<run, s, made, written, snap>>
    BY <1>9 DEF GenerateEnds
  <2>2. FreshInv' /\ ReadyInv'
    BY <2>1 DEF FreshInv, ReadyInv
  <2> QED BY <1>t, <2>1, <2>2, Kept
<1>10. CASE SaveOpen
  <2>1. /\ pc' = "write" /\ pc = "save" /\ written' = 0
        /\ snap' = [arch |-> Arch[run.model], hash |-> s.hist, sess |-> s]
        /\ UNCHANGED <<run, s, made>>
    BY <1>10 DEF SaveOpen
  <2>2. TypeOK'
    BY <1>t, <2>1, SizesAssumption DEF TypeOK, SessionType, Fields
  <2>3. Coherent' /\ FreshInv' /\ ReadyInv' /\ SaveInv'
    BY <1>t, <2>1 DEF Coherent, FreshInv, ReadyInv, SaveInv, Absent
  <2> QED BY <2>2, <2>3
<1>11. CASE SaveField
  <2>1. /\ pc = "write" /\ written' = written + 1 /\ written < Fields
        /\ UNCHANGED <<pc, run, s, made, snap>>
    BY <1>11 DEF SaveField
  <2>2. written \in 0..Fields /\ Fields \in Nat
    BY <2>1, SizesAssumption DEF TypeOK, SaveInv, Fields
  <2>3. TypeOK' /\ SaveInv'
    BY <2>1, <2>2 DEF TypeOK, SaveInv, Absent
  <2>4. Coherent' /\ FreshInv' /\ ReadyInv'
    BY <2>1 DEF Coherent, FreshInv, ReadyInv
  <2> QED BY <2>3, <2>4
<1>12. CASE SaveDone
  BY <1>12, ExitKeeps DEF SaveDone
<1>13. CASE Dies
  BY <1>13, ExitKeeps DEF Dies
<1>14. CASE Delete
  <2>1. /\ pc = "idle" /\ written' = Absent
        /\ snap' = [snap EXCEPT !.hash = <<>>, !.sess = NoSession]
        /\ UNCHANGED <<pc, run, s, made>>
    BY <1>14 DEF Delete
  <2>2. /\ snap' \in [arch : {Arch[m] : m \in Models}, hash : Seq(Tokens), sess : SessionType]
        /\ snap'.sess = NoSession
    BY <2>1, NoSessionType, EmptySeq DEF TypeOK
  <2>3. TypeOK'
    BY <2>1, <2>2 DEF TypeOK
  <2>4. Coherent' /\ FreshInv' /\ ReadyInv' /\ SaveInv'
    BY <2>1, <2>2, NoSessionDescribes DEF Coherent, FreshInv, ReadyInv, SaveInv
  <2> QED BY <2>3, <2>4
<1>15. CASE UNCHANGED vars
  <2>1. UNCHANGED <<pc, run, s, made, written, snap>>
    BY <1>15 DEF vars
  <2>2. TypeOK' /\ Coherent'
    BY <2>1 DEF TypeOK, Coherent
  <2>3. FreshInv' /\ ReadyInv' /\ SaveInv'
    BY <2>1 DEF FreshInv, ReadyInv, SaveInv
  <2> QED BY <2>2, <2>3
<1> QED
  BY <1>1, <1>2, <1>3, <1>4, <1>5, <1>6, <1>7, <1>8, <1>9, <1>10, <1>11, <1>12,
     <1>13, <1>14, <1>15 DEF Next

\* A session's parts never disagree, in memory or in FILE, whatever the runs'
\* prompts, -n and capacities, and wherever they die.
THEOREM SessionCoherent ==
  ASSUME PicksTokens
  PROVE  Spec => [](TypeOK /\ Coherent)
<1>1. Init => SInv
  BY SInvInit
<1>2. SInv /\ [Next]_vars => SInv'
  BY SInvStep
<1>3. SInv => TypeOK /\ Coherent
  BY DEF SInv
<1> QED BY <1>1, <1>2, <1>3, PTL DEF Spec

-----------------------------------------------------------------------------
(* One model per conversation.                                               *)

\* What the fingerprint would have to do.
DistinctArchs == \A m, n \in Models : Arch[m] = Arch[n] => m = n

\* A snapshot carries the fingerprint of every model that read into it.
SnapArchInv == \A i \in 1..Len(snap.sess.delta) : Arch[snap.sess.delta[i][1]] = snap.arch

MInv == SInv /\ ModelsMatch /\ SnapArchInv

LEMMA NothingRead == NoSession.delta = <<>> /\ 1..Len(NoSession.delta) = {}
BY DEF NoSession

LEMMA MInvStep ==
  DistinctArchs /\ PicksTokens /\ MInv /\ [Next]_vars => ModelsMatch' /\ SnapArchInv'
<1> SUFFICES ASSUME DistinctArchs, PicksTokens, MInv, [Next]_vars
             PROVE  ModelsMatch' /\ SnapArchInv'
  OBVIOUS
<1>t. /\ run.model \in Models /\ run.prompt \in Prompts /\ s \in SessionType /\ Describes(s)
      /\ snap.sess \in SessionType
  BY DEF MInv, SInv, TypeOK, Coherent
\* What a pass adds was read by the running model.
<1>p. ASSUME NEW ts \in Seq(Tokens), s'.delta = s.delta \o In(ts),
             UNCHANGED <<run, snap>>
      PROVE  ModelsMatch' /\ SnapArchInv'
  <2>1. In(ts) \in Seq(Models \X Tokens) /\ Len(In(ts)) = Len(ts) /\ Len(ts) \in Nat
    BY <1>t, ReadType, LenProperties DEF In, States
  <2>2. s.delta \in Seq(Models \X Tokens) /\ Len(s.delta) \in Nat
    BY <1>t, LenProperties DEF SessionType, States
  <2>3. ASSUME NEW i \in 1..Len(s'.delta)
        PROVE  s'.delta[i][1] = run.model
    <3>1. /\ i \in 1..(Len(s.delta) + Len(ts))
          /\ s'.delta[i] = IF i <= Len(s.delta) THEN s.delta[i] ELSE In(ts)[i - Len(s.delta)]
      BY <1>p, <2>1, <2>2, ConcatProperties
    <3>2. i <= Len(s.delta) => s.delta[i][1] = run.model
      BY <2>2, <3>1 DEF MInv, ModelsMatch
    <3>3. i > Len(s.delta) => In(ts)[i - Len(s.delta)][1] = run.model
      BY <2>1, <2>2, <3>1 DEF In
    <3> QED BY <2>2, <3>1, <3>2, <3>3
  <2>4. ModelsMatch'
    BY <1>p, <2>3 DEF ModelsMatch
  <2>5. SnapArchInv'
    BY <1>p DEF MInv, SnapArchInv
  <2> QED BY <2>4, <2>5
\* Nothing is read into an empty session.
<1>e. ASSUME s'.delta = <<>>, UNCHANGED snap
      PROVE  ModelsMatch' /\ SnapArchInv'
  <2>1. 1..Len(s'.delta) = {}
    BY <1>e
  <2> QED BY <1>e, <2>1 DEF MInv, ModelsMatch, SnapArchInv
<1>1. ASSUME NEW m \in Models, NEW p \in Prompts, NEW n \in NPredicts, Start(m, p, n)
      PROVE  ModelsMatch' /\ SnapArchInv'
  <2>1. s' = NoSession /\ UNCHANGED snap
    BY <1>1 DEF Start, MInv, SInv, FreshInv
  <2> QED BY <1>e, <2>1, NothingRead
<1>2. CASE OpenNew
  <2>1. s'.delta = <<>> /\ UNCHANGED snap
    BY <1>2 DEF OpenNew, NoSession
  <2> QED BY <1>e, <2>1
<1>3. CASE OpenLoad
  <2>1. /\ s'.delta = snap.sess.delta /\ UNCHANGED <<run, snap>>
        /\ snap.arch = Arch[run.model]
    BY <1>3, <1>t DEF OpenLoad, Loadable, SessionType
  <2>2. \A i \in 1..Len(snap.sess.delta) : snap.sess.delta[i][1] \in Models
    <3>1. snap.sess.delta \in Seq(Models \X Tokens)
      BY <1>t DEF SessionType, States
    <3> QED BY <3>1, ElementOfSeq
  <2>3. ModelsMatch'
    BY <1>t, <2>1, <2>2 DEF MInv, ModelsMatch, SnapArchInv, DistinctArchs
  <2>4. SnapArchInv'
    BY <2>1 DEF MInv, SnapArchInv
  <2> QED BY <2>3, <2>4
<1>4. CASE OpenRejects \/ FeedFails \/ SaveDone \/ Dies
  <2>1. s' = NoSession /\ UNCHANGED snap
    BY <1>4 DEF OpenRejects, FeedFails, SaveDone, Dies, Exit
  <2> QED BY <1>e, <2>1, NothingRead
<1>5. CASE Feed
  <2>1. /\ UNCHANGED <<run, snap>> /\ run.prompt \in Seq(Tokens)
        /\ s' = Remember(Forward(s, run.prompt), run.prompt)
    BY <1>5, <1>t, PromptsAssumption DEF Feed
  <2>2. Remember(Forward(s, run.prompt), run.prompt).delta = s.delta \o In(run.prompt)
    BY <1>t, PassDelta
  <2>3. s'.delta = s.delta \o In(run.prompt)
    BY <2>1, <2>2
  <2> QED BY <1>p, <2>1, <2>3
<1>6. CASE Generate
  <2>1. /\ UNCHANGED <<run, snap>>
        /\ s' = Forward(Remember(s, <<Choice>>), <<Choice>>)
    BY <1>6 DEF Generate
  <2>2. Choice \in Tokens
    BY <1>t DEF Choice, PicksTokens, SessionType
  <2>3. s'.delta = s.delta \o In(<<Choice>>)
    BY <1>t, <2>1, PassDelta
  <2> QED BY <1>p, <2>1, <2>2, <2>3, OneToken
<1>7. CASE FeedNothing \/ GenerateEnds \/ SaveField \/ UNCHANGED vars
  <2>1. UNCHANGED <<run, s, snap>>
    BY <1>7 DEF FeedNothing, GenerateEnds, SaveField, vars
  <2> QED BY <2>1 DEF MInv, ModelsMatch, SnapArchInv
<1>8. CASE SaveOpen
  <2>1. snap'.arch = Arch[run.model] /\ snap'.sess = s /\ UNCHANGED <<run, s>>
    BY <1>8 DEF SaveOpen
  <2> QED BY <2>1 DEF MInv, ModelsMatch, SnapArchInv
<1>9. CASE Delete
  <2>1. snap'.sess = NoSession /\ UNCHANGED <<run, s>>
    BY <1>9 DEF Delete, MInv, SInv, TypeOK
  <2>2. ModelsMatch'
    BY <2>1 DEF MInv, ModelsMatch
  <2>3. SnapArchInv'
    BY <2>1, NothingRead DEF SnapArchInv
  <2> QED BY <2>2, <2>3
<1> QED BY <1>1, <1>2, <1>3, <1>4, <1>5, <1>6, <1>7, <1>8, <1>9 DEF Next

\* If no two models had the same fingerprint, a conversation would only ever
\* be continued by the model that began it.
THEOREM FingerprintsSuffice ==
  ASSUME PicksTokens, DistinctArchs
  PROVE  Spec => []ModelsMatch
<1>1. Init => MInv
  <2> SUFFICES ASSUME Init PROVE MInv
    OBVIOUS
  <2>1. s = NoSession /\ snap.sess = NoSession
    BY DEF Init
  <2> QED BY <2>1, SInvInit, NothingRead DEF MInv, ModelsMatch, SnapArchInv
<1>2. MInv /\ [Next]_vars => MInv'
  BY SInvStep, MInvStep DEF MInv
<1>3. MInv => ModelsMatch
  BY DEF MInv
<1> QED BY <1>1, <1>2, <1>3, PTL DEF Spec

-----------------------------------------------------------------------------
(* The session implements the log.                                           *)

LEMMA LogInit == Init => Log!Init
BY DEF Init, Log!Init, NoSession, Absent, Fields

\* What one generated token adds to the conversation.
LEMMA ReadOne ==
  ASSUME NEW c
  PROVE  In(<<c>>) = << <<run.model, c>> >>
BY DEF In

LEMMA LogStep == PicksTokens /\ SInv /\ [Next]_vars => [Log!Next]_(Log!lvars)
<1> SUFFICES ASSUME PicksTokens, SInv, [Next]_vars PROVE [Log!Next]_(Log!lvars)
  OBVIOUS
<1> USE DEF Log!lvars
<1>t. /\ run.model \in Models /\ run.prompt \in Prompts /\ s \in SessionType /\ Describes(s)
      /\ snap.sess \in SessionType /\ run.model # "nobody"
      /\ written \in {Absent} \cup 0..Fields /\ Fields \in Nat
  BY ModelsAssumption, SizesAssumption DEF SInv, TypeOK, Coherent, Fields
<1>f. Fields # Absent /\ Fields # 0
  BY <1>t, SizesAssumption DEF Fields, Absent
<1>1. ASSUME NEW m \in Models, NEW p \in Prompts, NEW n \in NPredicts, Start(m, p, n)
      PROVE  UNCHANGED Log!lvars
  BY <1>1 DEF Start
<1>2. CASE OpenNew
  <2>1. /\ pc = "open" /\ pc' = "feed" /\ written = Absent /\ s'.delta = <<>>
        /\ UNCHANGED <<run, written, snap>>
    BY <1>2 DEF OpenNew, NoSession
  <2>2. Log!Begin(run.model)
    BY <1>f, <2>1 DEF Log!Begin
  <2> QED BY <1>t, <2>2 DEF Log!Next
<1>3. CASE OpenLoad
  <2>1. /\ pc = "open" /\ pc' = "feed" /\ written = Fields
        /\ s'.delta = snap.sess.delta /\ UNCHANGED <<run, written, snap>>
    BY <1>3, <1>t DEF OpenLoad, Loadable, SessionType
  <2>2. Log!Begin(run.model)
    BY <1>f, <2>1 DEF Log!Begin
  <2> QED BY <1>t, <2>2 DEF Log!Next
<1>4. CASE OpenRejects \/ FeedFails \/ SaveDone \/ Dies
  <2>1. /\ pc # "idle" /\ pc' = "idle" /\ s' = NoSession
        /\ UNCHANGED <<run, written, snap>>
    BY <1>4 DEF OpenRejects, FeedFails, SaveDone, Dies, Exit
  <2>2. CASE pc = "open"
    BY <2>1, <2>2 DEF SInv, FreshInv
  <2>3. CASE pc # "open"
    <3>1. Log!Quit
      BY <1>t, <2>1, <2>3, NothingRead DEF Log!Quit
    <3> QED BY <3>1 DEF Log!Next
  <2> QED BY <2>2, <2>3
<1>5. CASE Feed
  <2>1. /\ pc = "feed" /\ pc' = "generate" /\ UNCHANGED <<run, written, snap>>
        /\ s' = Remember(Forward(s, run.prompt), run.prompt)
    BY <1>5 DEF Feed
  <2>2. Remember(Forward(s, run.prompt), run.prompt).delta = s.delta \o In(run.prompt)
    BY <1>t, PassDelta
  <2>3. Log!Feed(run.prompt)
    BY <1>t, <2>1, <2>2 DEF Log!Feed, Log!Read, In
  <2> QED BY <1>t, <2>3 DEF Log!Next
<1>6. CASE Generate
  <2>1. /\ pc = "generate" /\ UNCHANGED <<pc, run, written, snap>> /\ Choice # Eos
        /\ s' = Forward(Remember(s, <<Choice>>), <<Choice>>)
    BY <1>6 DEF Generate, MayGoOn
  <2>2. s'.delta = s.delta \o << <<run.model, Choice>> >>
    BY <1>t, <2>1, PassDelta, ReadOne
  <2>3. Choice = Pick(run.model, s.delta)
    BY <1>t, <2>1 DEF Choice, Describes, SInv, ReadyInv
  <2>4. Choice \in Tokens /\ s.delta \in Seq(Models \X Tokens)
    BY <1>t DEF Choice, PicksTokens, SessionType, States
  <2>5. s'.delta = Append(s.delta, <<run.model, Choice>>)
    BY <1>t, <2>2, <2>4, AppendIsConcat
  <2>6. Log!Emit
    BY <1>t, <2>1, <2>3, <2>5 DEF Log!Emit
  <2> QED BY <2>6 DEF Log!Next
<1>7. CASE FeedNothing \/ GenerateEnds
  BY <1>7 DEF FeedNothing, GenerateEnds
<1>8. CASE SaveOpen
  <2>1. /\ pc = "save" /\ pc' = "write" /\ written' = 0 /\ UNCHANGED <<run, s>>
    BY <1>8 DEF SaveOpen
  <2>2. Log!Tear
    BY <1>t, <1>f, <2>1 DEF Log!Tear, Absent
  <2> QED BY <2>2 DEF Log!Next
<1>9. CASE SaveField
  <2>1. /\ pc = "write" /\ written < Fields /\ written' = written + 1
        /\ written # Absent /\ snap.sess = s /\ UNCHANGED <<pc, run, s, snap>>
    BY <1>9 DEF SaveField, SInv, SaveInv
  <2>2. written \in Nat /\ written # Fields /\ written' # Absent
    BY <1>t, <2>1 DEF Absent
  <2>3. CASE written' = Fields
    <3>1. Log!Commit
      BY <1>t, <1>f, <2>1, <2>2, <2>3 DEF Log!Commit
    <3> QED BY <3>1 DEF Log!Next
  <2>4. CASE written' # Fields
    BY <2>1, <2>2, <2>4
  <2> QED BY <2>3, <2>4
<1>10. CASE Delete
  <2>1. /\ pc = "idle" /\ written' = Absent /\ UNCHANGED <<pc, run, s>>
    BY <1>10 DEF Delete
  <2>2. Log!Delete
    BY <1>f, <2>1 DEF Log!Delete
  <2> QED BY <2>2 DEF Log!Next
<1>11. CASE UNCHANGED vars
  BY <1>11 DEF vars
<1> QED BY <1>1, <1>2, <1>3, <1>4, <1>5, <1>6, <1>7, <1>8, <1>9, <1>10, <1>11 DEF Next

\* Resuming from FILE is the same as never having stopped, and a torn save is
\* never resumed: every behaviour of the runs is one of the conversation log.
THEOREM SessionImplementsLog ==
  ASSUME PicksTokens
  PROVE  Spec => ContinuesLog
<1>1. Init => SInv
  BY SInvInit
<1>2. SInv /\ [Next]_vars => SInv'
  BY SInvStep
<1>3. Init => Log!Init
  BY LogInit
<1>4. SInv /\ [Next]_vars => [Log!Next]_(Log!lvars)
  BY LogStep
<1> QED BY <1>1, <1>2, <1>3, <1>4, PTL DEF Spec, ContinuesLog, Log!Spec
===============================================================================
