-------------------------- MODULE LedgerBuilderProofs --------------------------
(* What a builder makes is accepted, nobody is invited twice, and the key of a channel is
   within reach of exactly its actors: for any builders, identities and requests, and
   whatever throws in between. *)
EXTENDS LedgerBuilder, ApplicationLedgerProofs

-----------------------------------------------------------------------------
(* Sections run one after the other *)

\* One more section: the states before it are the same.
LEMMA RunAppend ==
    ASSUME NEW s \in State, NEW S, NEW sections \in Seq(S), NEW sec, NEW height \in Nat,
           \A i \in DOMAIN sections : WellFormed(sections[i]), WellFormed(sec)
    PROVE  LET more == Append(sections, sec)
               n == Len(sections)
           IN /\ CanRun(s, sections, height) /\ CanRun(s, more, height)
              /\ \A k \in 0 .. n : StatesOf(s, more, height)[k] = StatesOf(s, sections, height)[k]
              /\ Run(s, more, height) = Effect(Run(s, sections, height), sec, height)
    <1> DEFINE more == Append(sections, sec)
               n == Len(sections)
               p == StatesOf(s, sections, height)
               q == StatesOf(s, more, height)
    <1>1. /\ n \in Nat /\ Len(more) = n + 1 /\ more[n + 1] = sec
          /\ \A k \in 1 .. n : more[k] = sections[k]
        <2> DEFINE T == S \cup {sec}
        <2>1. sections \in Seq(T) /\ sec \in T  OBVIOUS
        <2> HIDE DEF T
        <2> QED  BY <2>1
    <1> HIDE DEF more
    <1>2. CanRun(s, sections, height)  BY <1>1 DEF CanRun
    <1>3. CanRun(s, more, height)
        <2>1. \A k \in 1 .. n + 1 : WellFormed(more[k])
            <3> SUFFICES ASSUME NEW k \in 1 .. n + 1 PROVE WellFormed(more[k])  OBVIOUS
            <3>1. CASE k = n + 1  BY <1>1, <3>1
            <3>2. CASE k # n + 1
                <4>1. k \in 1 .. n  BY <1>1, <3>2
                <4> QED  BY <1>1, <4>1
            <3> QED  BY <3>1, <3>2
        <2> QED  BY <1>1, <2>1 DEF CanRun
    <1>4. IsRun(p, s, sections, height, n)  BY <1>2, StatesOfIsRun
    <1>5. IsRun(q, s, more, height, n + 1)  BY <1>1, <1>3, StatesOfIsRun
    <1>6. \A k \in 0 .. n : q[k] = p[k]
        <2> HIDE DEF n, p, q
        <2>1. n <= n + 1 /\ n + 1 \in Nat  BY <1>1
        <2>2. \A k \in 1 .. n : sections[k] = more[k]  BY <1>1
        <2> QED  BY <1>1, <1>4, <1>5, <2>1, <2>2, RunsAgree
    <1>7. q[n + 1] = Effect(p[n], sec, height)
        <2> HIDE DEF n, p, q
        <2>1. n + 1 \in 1 .. n + 1 /\ (n + 1) - 1 = n /\ n \in 0 .. n  BY <1>1
        <2> QED  BY <1>1, <1>5, <1>6, <2>1 DEF IsRun
    <1>8. Run(s, more, height) = Effect(Run(s, sections, height), sec, height)
        BY <1>1, <1>7 DEF Run
    <1> QED  BY <1>2, <1>3, <1>6, <1>8 DEF more

\* None: nothing to reject, and the state is the same.
LEMMA RunNothing ==
    ASSUME NEW s \in State, NEW height \in Nat
    PROVE  Accepts(s, <<>>, height) /\ Run(s, <<>>, height) = s
    <1>1. CanRun(s, <<>>, height)  BY DEF CanRun
    <1>2. StatesOf(s, <<>>, height)[0] = s  BY <1>1, RunSteps
    <1>3. Run(s, <<>>, height) = StatesOf(s, <<>>, height)[0]  BY DEF Run
    <1>4. Accepts(s, <<>>, height)  BY DEF Accepts
    <1> QED  BY <1>2, <1>3, <1>4

LEMMA AcceptsAppend ==
    ASSUME NEW s \in State, NEW S, NEW sections \in Seq(S), NEW sec, NEW height \in Nat,
           \A i \in DOMAIN sections : WellFormed(sections[i]), WellFormed(sec),
           Accepts(s, sections, height), ~Rejected(Run(s, sections, height), sec)
    PROVE  Accepts(s, Append(sections, sec), height)
    <1> DEFINE more == Append(sections, sec)
               n == Len(sections)
    <1>1. /\ n \in Nat /\ DOMAIN more = 1 .. n + 1 /\ more[n + 1] = sec
          /\ DOMAIN sections = 1 .. n
          /\ \A k \in 1 .. n : more[k] = sections[k]
        <2> DEFINE T == S \cup {sec}
        <2>1. sections \in Seq(T) /\ sec \in T  OBVIOUS
        <2> HIDE DEF T
        <2> QED  BY <2>1
    <1>2. \A k \in 0 .. n : StatesOf(s, more, height)[k] = StatesOf(s, sections, height)[k]
        BY RunAppend
    <1> HIDE DEF more
    <1> SUFFICES ASSUME NEW k \in 1 .. n + 1
                 PROVE  ~Rejected(StatesOf(s, more, height)[k - 1], more[k])
        BY <1>1 DEF Accepts, more
    <1>3. k - 1 \in 0 .. n
        <2> HIDE DEF n
        <2> QED  BY <1>1
    <1>4. CASE k = n + 1
        <2>1. k - 1 = n
            <3> HIDE DEF n
            <3> QED  BY <1>1, <1>4
        <2>2. StatesOf(s, more, height)[k - 1] = Run(s, sections, height)
            BY <1>2, <1>3, <2>1 DEF Run
        <2> QED  BY <1>1, <1>4, <2>2
    <1>5. CASE k # n + 1
        <2>1. k \in 1 .. n
            <3> HIDE DEF n
            <3> QED  BY <1>1, <1>5
        <2> QED  BY <1>1, <1>2, <1>3, <2>1 DEF Accepts
    <1> QED  BY <1>4, <1>5

\* And what is accepted with a section more was accepted without.
LEMMA AcceptsPrefix ==
    ASSUME NEW s \in State, NEW S, NEW sections \in Seq(S), NEW sec, NEW height \in Nat,
           \A i \in DOMAIN sections : WellFormed(sections[i]), WellFormed(sec),
           Accepts(s, Append(sections, sec), height)
    PROVE  Accepts(s, sections, height) /\ ~Rejected(Run(s, sections, height), sec)
    <1> DEFINE more == Append(sections, sec)
               n == Len(sections)
    <1>1. /\ n \in Nat /\ DOMAIN more = 1 .. n + 1 /\ more[n + 1] = sec
          /\ DOMAIN sections = 1 .. n
          /\ \A k \in 1 .. n : more[k] = sections[k]
        <2> DEFINE T == S \cup {sec}
        <2>1. sections \in Seq(T) /\ sec \in T  OBVIOUS
        <2> HIDE DEF T
        <2> QED  BY <2>1
    <1>2. \A k \in 0 .. n : StatesOf(s, more, height)[k] = StatesOf(s, sections, height)[k]
        BY RunAppend
    <1>3. \A k \in DOMAIN more : ~Rejected(StatesOf(s, more, height)[k - 1], more[k])
        BY DEF Accepts
    <1> HIDE DEF more
    <1>4. ASSUME NEW k \in 1 .. n
          PROVE  ~Rejected(StatesOf(s, sections, height)[k - 1], sections[k])
        <2> HIDE DEF n
        <2>1. k \in DOMAIN more /\ k - 1 \in 0 .. n  BY <1>1
        <2> QED  BY <1>1, <1>2, <1>3, <2>1
    <1>5. ~Rejected(Run(s, sections, height), sec)
        <2>1. StatesOf(s, sections, height)[n] = Run(s, sections, height)  BY DEF Run
        <2> HIDE DEF n
        <2>2. n + 1 \in DOMAIN more /\ (n + 1) - 1 = n /\ n \in 0 .. n  BY <1>1
        <2> QED  BY <1>1, <1>2, <1>3, <2>1, <2>2
    <1> QED  BY <1>1, <1>4, <1>5 DEF Accepts

-----------------------------------------------------------------------------
(* Least and greatest *)

LEMMA LeastIn ==
    ASSUME NEW S \in SUBSET Nat, S # {}
    PROVE  Min(S) \in S /\ \A x \in S : Min(S) <= x
    <1>1. PICK n \in S : TRUE  OBVIOUS
    <1>2. \E m \in S : \A x \in S : m <= x
        <2> SUFFICES ASSUME \A m \in S : \E x \in S : x < m PROVE FALSE
            <3>1. ASSUME NEW m \in S, NEW x \in S PROVE ~(x < m) <=> m <= x  OBVIOUS
            <3> QED  BY <3>1
        <2> DEFINE T == {k \in 0 .. n : \A x \in S : k <= x}
        <2>1. 0 \in T  OBVIOUS
        <2>2. ASSUME NEW k \in 0 .. n - 1, k \in T PROVE k + 1 \in T
            <3>1. k \notin S  BY <2>2
            <3>2. ASSUME NEW x \in S PROVE k + 1 <= x
                <4>1. k <= x /\ x # k /\ x \in Nat  BY <2>2, <3>1
                <4> QED  BY <4>1
            <3> QED  BY <3>2
        <2>3. 0 .. n \subseteq T
            <3> HIDE DEF T
            <3> QED  BY <2>1, <2>2, IntervalInduction
        <2>4. \A x \in S : n <= x  BY <2>3
        <2> QED  BY <2>4
    <1> QED  BY <1>2 DEF Min

LEMMA GreatestIn ==
    ASSUME NEW n \in Nat, NEW S \in SUBSET (1 .. n), S # {}
    PROVE  Max(S) \in S
    <1> DEFINE T == {n - x : x \in S}
    <1>1. T \in SUBSET Nat /\ T # {}
        <2>1. \A x \in S : n - x \in Nat  OBVIOUS
        <2>2. PICK x \in S : TRUE  OBVIOUS
        <2>3. n - x \in T  OBVIOUS
        <2> QED  BY <2>1, <2>3
    <1>2. PICK m \in T : \A y \in T : m <= y
        <2> HIDE DEF T
        <2> QED  BY <1>1, LeastIn
    <1>3. PICK x \in S : m = n - x  BY <1>2
    <1>4. ASSUME NEW y \in S PROVE x >= y
        <2>1. n - y \in T  OBVIOUS
        <2>2. n - x <= n - y  BY <1>2, <1>3, <2>1
        <2> QED  BY <1>3, <2>2
    <1> QED  BY <1>4 DEF Max

-----------------------------------------------------------------------------
(* Keys *)

\* The sections of each height as one who works on a builder reads them.
View(blocks, st) ==
    [h \in 1 .. st.height + 1 |-> IF h <= st.height THEN blocks[h].sections ELSE st.sections]

SubscribesTo(sec, a) == sec.type = "subscription" /\ sec.actor = a
IsInvitation(sec, guest, channel) ==
    sec.type = "invitation" /\ sec.guest = guest /\ sec.channel = channel

SubscriptionsAt(at, h, a) == {i \in DOMAIN at[h] : SubscribesTo(at[h][i], a)}

\* An actor of s has the keys of an identity: where its key height leads there are
\* sections that say so, and none that says otherwise.
HasKeysOf(s, at, a, identity) ==
    LET h == s.actors[a].keyHeight
    IN /\ Subscribed(s, a) /\ h \in DOMAIN at
       /\ SubscriptionsAt(at, h, a) # {}
       /\ \A i \in SubscriptionsAt(at, h, a) : at[h][i].identity = identity

\* The key of a channel is the one its creator derives.
IsKeyOfChannel(s, at, c, key) ==
    /\ c \in DOMAIN s.channels
    /\ \E x \in Identities : /\ HasKeysOf(s, at, s.channels[c].creator, x)
                             /\ key = [seed |-> x, channel |-> c]

\* An invitation gives the key of the channel to its guest, who has not made the channel.
RightInvitation(s, at, sec) ==
    /\ sec.encrypted = [for |-> sec.encrypted.for, key |-> sec.encrypted.key]
    /\ HasKeysOf(s, at, sec.guest, sec.encrypted.for)
    /\ IsKeyOfChannel(s, at, sec.channel, sec.encrypted.key)
    /\ sec.guest # s.channels[sec.channel].creator

\* What a section says, for one who has s and reads at.
Truthful(s, at, sec) ==
    /\ sec.type = "subscription" => Subscribed(s, sec.actor)
    /\ sec.type = "invitation" =>
         /\ RightInvitation(s, at, sec)
         /\ \E inv \in s.invitations : inv.actor = sec.guest /\ inv.channel = sec.channel
    /\ sec.type = "data" => \A key \in sec.keys : IsKeyOfChannel(s, at, sec.channel, key)

\* A state and the sections that it can be looked up in.
Consistent(s, at) ==
    /\ WellNamed(s)
    /\ \A a \in DOMAIN s.actors :
         Subscribed(s, a) => \E x \in Identities : HasKeysOf(s, at, a, x)
    /\ \A c \in DOMAIN s.channels : Subscribed(s, s.channels[c].creator)
    /\ \A h \in DOMAIN at : \A i \in DOMAIN at[h] : Truthful(s, at, at[h][i])
    /\ \A inv \in s.invitations :
         /\ inv.height \in DOMAIN at
         /\ \E i \in DOMAIN at[inv.height] : IsInvitation(at[inv.height][i], inv.actor, inv.channel)

\* No section of height h invites whom another one did up to there.
InvitesFirst(at, h) ==
    \A i \in DOMAIN at[h] : \A g \in 1 .. h : \A j \in DOMAIN at[g] :
      /\ at[h][i].type = "invitation"
      /\ IsInvitation(at[g][j], at[h][i].guest, at[h][i].channel)
      => g = h /\ i = j

\* What makes a section that is not refused one to add.
Fitting(s, at, sec) ==
    /\ sec.type = "subscription" => sec.identity \in Identities
    /\ sec.type = "channel" => Subscribed(s, sec.creator)
    /\ sec.type = "invitation" => RightInvitation(s, at, sec)
    /\ sec.type = "data" => \A key \in sec.keys : IsKeyOfChannel(s, at, sec.channel, key)
    /\ sec.type # "secret"

LEMMA OneIdentity ==
    ASSUME NEW s, NEW at, NEW a, NEW x, NEW y, HasKeysOf(s, at, a, x), HasKeysOf(s, at, a, y)
    PROVE  x = y
    BY DEF HasKeysOf

LEMMA OneKey ==
    ASSUME NEW s, NEW at, NEW c, NEW k, NEW l,
           IsKeyOfChannel(s, at, c, k), IsKeyOfChannel(s, at, c, l)
    PROVE  k = l
    <1>1. PICK x : HasKeysOf(s, at, s.channels[c].creator, x) /\ k = [seed |-> x, channel |-> c]
        BY DEF IsKeyOfChannel
    <1>2. PICK y : HasKeysOf(s, at, s.channels[c].creator, y) /\ l = [seed |-> y, channel |-> c]
        BY DEF IsKeyOfChannel
    <1>3. x = y  BY <1>1, <1>2, OneIdentity
    <1> QED  BY <1>1, <1>2, <1>3

-----------------------------------------------------------------------------
(* What was said stays true *)

\* more is at, and at most section sec, at place n of height h, beside it.
Extends(more, at, h, n, sec) ==
    /\ DOMAIN at \subseteq DOMAIN more
    /\ \A g \in DOMAIN at : \A i \in DOMAIN at[g] : i \in DOMAIN more[g] /\ more[g][i] = at[g][i]
    /\ \A g \in DOMAIN more : \A i \in DOMAIN more[g] :
         (g \in DOMAIN at /\ i \in DOMAIN at[g]) \/ (g = h /\ i = n /\ more[g][i] = sec)

\* Whoever says something else of an actor's keys comes too late.
LEMMA KeysStay ==
    ASSUME NEW s, NEW t, Covers(t, s), NEW at, NEW more, NEW h, NEW n, NEW sec,
           Extends(more, at, h, n, sec), ~Rejected(s, sec),
           NEW a, NEW x, HasKeysOf(s, at, a, x)
    PROVE  HasKeysOf(t, more, a, x)
    <1> DEFINE k == s.actors[a].keyHeight
    <1>1. /\ Subscribed(s, a) /\ k \in DOMAIN at
          /\ SubscriptionsAt(at, k, a) # {}
          /\ \A i \in SubscriptionsAt(at, k, a) : at[k][i].identity = x
        BY DEF HasKeysOf
    <1>2. Subscribed(t, a) /\ t.actors[a].keyHeight = k  BY <1>1, CoversSubscribed
    <1>3. ~SubscribesTo(sec, a)
        BY <1>1 DEF SubscribesTo, Rejected, SubscriptionRejected
    <1> HIDE DEF k
    <1>4. k \in DOMAIN more  BY <1>1 DEF Extends
    <1>5. SubscriptionsAt(more, k, a) # {}
        BY <1>1 DEF Extends, SubscriptionsAt
    <1>6. \A i \in SubscriptionsAt(more, k, a) : more[k][i].identity = x
        <2> SUFFICES ASSUME NEW i \in SubscriptionsAt(more, k, a)
                     PROVE  more[k][i].identity = x
            OBVIOUS
        <2>1. i \in DOMAIN more[k] /\ SubscribesTo(more[k][i], a)  BY DEF SubscriptionsAt
        <2>2. k \in DOMAIN at /\ i \in DOMAIN at[k]  BY <1>3, <1>4, <2>1 DEF Extends
        <2>3. more[k][i] = at[k][i]  BY <2>2 DEF Extends
        <2>4. i \in SubscriptionsAt(at, k, a)  BY <2>1, <2>2, <2>3 DEF SubscriptionsAt
        <2> QED  BY <1>1, <2>3, <2>4
    <1> QED  BY <1>2, <1>4, <1>5, <1>6 DEF HasKeysOf

LEMMA ChannelKeyStays ==
    ASSUME NEW s, NEW t, Covers(t, s), NEW at, NEW more, NEW h, NEW n, NEW sec,
           Extends(more, at, h, n, sec), ~Rejected(s, sec),
           NEW c, NEW key, IsKeyOfChannel(s, at, c, key)
    PROVE  IsKeyOfChannel(t, more, c, key)
    <1>1. PICK x \in Identities : /\ HasKeysOf(s, at, s.channels[c].creator, x)
                                  /\ key = [seed |-> x, channel |-> c]
        BY DEF IsKeyOfChannel
    <1>2. c \in DOMAIN s.channels  BY DEF IsKeyOfChannel
    <1>3. c \in DOMAIN t.channels /\ t.channels[c] = s.channels[c]  BY <1>2 DEF Covers
    <1>4. HasKeysOf(t, more, s.channels[c].creator, x)  BY <1>1, KeysStay
    <1> QED  BY <1>1, <1>3, <1>4 DEF IsKeyOfChannel

LEMMA InvitationStays ==
    ASSUME NEW s, NEW t, Covers(t, s), NEW at, NEW more, NEW h, NEW n, NEW sec,
           Extends(more, at, h, n, sec), ~Rejected(s, sec),
           NEW old, RightInvitation(s, at, old)
    PROVE  RightInvitation(t, more, old)
    <1>1. HasKeysOf(t, more, old.guest, old.encrypted.for)
        BY KeysStay DEF RightInvitation
    <1>2. IsKeyOfChannel(t, more, old.channel, old.encrypted.key)
        BY ChannelKeyStays DEF RightInvitation
    <1>3. t.channels[old.channel] = s.channels[old.channel]
        BY DEF RightInvitation, IsKeyOfChannel, Covers
    <1> QED  BY <1>1, <1>2, <1>3 DEF RightInvitation

LEMMA TruthStays ==
    ASSUME NEW s, NEW t, Covers(t, s), NEW at, NEW more, NEW h, NEW n, NEW sec,
           Extends(more, at, h, n, sec), ~Rejected(s, sec),
           NEW old, Truthful(s, at, old)
    PROVE  Truthful(t, more, old)
    <1>1. ASSUME old.type = "subscription" PROVE Subscribed(t, old.actor)
        BY <1>1, CoversSubscribed DEF Truthful
    <1>2. ASSUME old.type = "invitation"
          PROVE  /\ RightInvitation(t, more, old)
                 /\ \E inv \in t.invitations : inv.actor = old.guest /\ inv.channel = old.channel
        <2>1. RightInvitation(s, at, old)  BY <1>2 DEF Truthful
        <2>2. RightInvitation(t, more, old)  BY <2>1, InvitationStays
        <2>3. PICK inv \in s.invitations : inv.actor = old.guest /\ inv.channel = old.channel
            BY <1>2 DEF Truthful
        <2>4. inv \in t.invitations  BY DEF Covers
        <2> QED  BY <2>2, <2>3, <2>4
    <1>3. ASSUME old.type = "data", NEW key \in old.keys
          PROVE  IsKeyOfChannel(t, more, old.channel, key)
        <2>1. IsKeyOfChannel(s, at, old.channel, key)  BY <1>3 DEF Truthful
        <2> QED  BY <2>1, ChannelKeyStays
    <1> QED  BY <1>1, <1>2, <1>3 DEF Truthful

\* A section that is not refused and that fits keeps a state and its sections consistent.
LEMMA ConsistentStep ==
    ASSUME NEW s \in State, NEW at, Consistent(s, at), NEW height \in Nat \ {0}, NEW n,
           NEW sec, WellFormed(sec), ~Rejected(s, sec), Fitting(s, at, sec),
           NEW more, Extends(more, at, height, n, sec),
           height \in DOMAIN more, n \in DOMAIN more[height], more[height][n] = sec
    PROVE  Consistent(Effect(s, sec, height), more)
    <1> DEFINE t == Effect(s, sec, height)
    <1>1. Covers(t, s)  BY EffectCovers
    <1>2. WellNamed(t)  BY EffectWellNamed DEF Consistent
    <1>3. ASSUME NEW a, Subscribed(t, a) PROVE \E x \in Identities : HasKeysOf(t, more, a, x)
        <2>1. CASE Subscribed(s, a)
            <3>1. a \in DOMAIN s.actors  BY <2>1 DEF Subscribed, ActorDefined
            <3>2. PICK x \in Identities : HasKeysOf(s, at, a, x)  BY <2>1, <3>1 DEF Consistent
            <3> HIDE DEF t
            <3>3. HasKeysOf(t, more, a, x)  BY <1>1, <3>2, KeysStay
            <3> QED  BY <3>3
        <2>2. CASE ~Subscribed(s, a)
            <3>1. SubscribesTo(sec, a) /\ t.actors[a].keyHeight = height
                BY <1>3, <2>2, NewSubscriber DEF SubscribesTo
            <3>2. sec.identity \in Identities  BY <3>1 DEF SubscribesTo, Fitting
            <3>3. n \in SubscriptionsAt(more, height, a)  BY <3>1 DEF SubscriptionsAt
            <3>4. ASSUME NEW i \in SubscriptionsAt(more, height, a)
                  PROVE  more[height][i] = sec
                <4>1. i \in DOMAIN more[height] /\ SubscribesTo(more[height][i], a)
                    BY DEF SubscriptionsAt
                <4>2. ASSUME height \in DOMAIN at, i \in DOMAIN at[height] PROVE FALSE
                    <5>1. SubscribesTo(at[height][i], a)  BY <4>1, <4>2 DEF Extends
                    <5>2. Truthful(s, at, at[height][i])  BY <4>2 DEF Consistent
                    <5> QED  BY <2>2, <5>1, <5>2 DEF Truthful, SubscribesTo
                <4> QED  BY <4>1, <4>2 DEF Extends
            <3> HIDE DEF t
            <3>5. HasKeysOf(t, more, a, sec.identity)
                BY <1>3, <3>1, <3>3, <3>4 DEF HasKeysOf
            <3> QED  BY <3>2, <3>5
        <2> QED  BY <2>1, <2>2
    <1>4. ASSUME NEW c \in DOMAIN t.channels PROVE Subscribed(t, t.channels[c].creator)
        <2>1. CASE t.channels = s.channels
            <3>1. Subscribed(s, s.channels[c].creator)  BY <2>1 DEF Consistent
            <3> HIDE DEF t
            <3> QED  BY <1>1, <2>1, <3>1, CoversSubscribed
        <2>2. CASE /\ sec.type = "channel"
                   /\ t.channels = Append(s.channels, [name |-> sec.name, creator |-> sec.creator])
            <3> DEFINE channel == [name |-> sec.name, creator |-> sec.creator]
            <3>1. channel \in Channel /\ channel.creator = sec.creator
                BY <2>2 DEF WellFormed, Channel
            <3>2. s.channels \in Seq(Channel) /\ t.channels = Append(s.channels, channel)
                BY <2>2 DEF State
            <3>3. Subscribed(s, sec.creator)  BY <2>2 DEF Fitting
            <3> HIDE DEF t, channel
            <3>4. \/ c \in DOMAIN s.channels /\ t.channels[c] = s.channels[c]
                  \/ t.channels[c] = channel
                BY <3>1, <3>2
            <3>5. Subscribed(s, t.channels[c].creator)  BY <3>1, <3>3, <3>4 DEF Consistent
            <3> QED  BY <1>1, <3>5, CoversSubscribed
        <2> QED  BY <2>1, <2>2, EffectChannels
    <1>5. Truthful(t, more, sec)
        <2>1. ASSUME sec.type = "subscription" PROVE Subscribed(t, sec.actor)
            BY <2>1, SubscriptionSubscribes
        <2>2. ASSUME sec.type = "invitation"
              PROVE  /\ RightInvitation(t, more, sec)
                     /\ \E inv \in t.invitations : inv.actor = sec.guest /\ inv.channel = sec.channel
            <3>1. RightInvitation(s, at, sec)  BY <2>2 DEF Fitting
            <3> DEFINE inv == [actor |-> sec.guest, channel |-> sec.channel, height |-> height]
            <3>2. inv \in t.invitations
                <4> DEFINE invitations == s.invitations \cup {inv}
                <4>1. ActorDefined(s, sec.guest)  BY <2>2 DEF Rejected
                <4>2. t = [s EXCEPT !.invitations = invitations]
                    BY <2>2, <4>1 DEF Effect, WithInvitation
                <4>3. inv \in invitations  OBVIOUS
                <4> HIDE DEF invitations, inv
                <4>4. t.invitations = invitations  BY <4>2 DEF State
                <4> QED  BY <4>3, <4>4
            <3>3. inv.actor = sec.guest /\ inv.channel = sec.channel  OBVIOUS
            <3> HIDE DEF t, inv
            <3>4. RightInvitation(t, more, sec)  BY <1>1, <3>1, InvitationStays
            <3> QED  BY <3>2, <3>3, <3>4
        <2>3. ASSUME sec.type = "data", NEW key \in sec.keys
              PROVE  IsKeyOfChannel(t, more, sec.channel, key)
            <3>1. IsKeyOfChannel(s, at, sec.channel, key)  BY <2>3 DEF Fitting
            <3> HIDE DEF t
            <3> QED  BY <1>1, <3>1, ChannelKeyStays
        <2> QED  BY <2>1, <2>2, <2>3 DEF Truthful
    <1>6. ASSUME NEW g \in DOMAIN more, NEW i \in DOMAIN more[g]
          PROVE  Truthful(t, more, more[g][i])
        <2> HIDE DEF t
        <2>1. CASE g \in DOMAIN at /\ i \in DOMAIN at[g]
            <3>1. more[g][i] = at[g][i]  BY <2>1 DEF Extends
            <3>2. Truthful(s, at, at[g][i])  BY <2>1 DEF Consistent
            <3> QED  BY <1>1, <3>1, <3>2, TruthStays
        <2>2. CASE more[g][i] = sec  BY <1>5, <2>2
        <2> QED  BY <2>1, <2>2 DEF Extends
    <1>7. ASSUME NEW inv \in t.invitations
          PROVE  /\ inv.height \in DOMAIN more
                 /\ \E i \in DOMAIN more[inv.height] :
                      IsInvitation(more[inv.height][i], inv.actor, inv.channel)
        <2>1. CASE inv \in s.invitations
            <3>1. inv.height \in DOMAIN at  BY <2>1 DEF Consistent
            <3>2. PICK i \in DOMAIN at[inv.height] :
                     IsInvitation(at[inv.height][i], inv.actor, inv.channel)
                BY <2>1 DEF Consistent
            <3> QED  BY <3>1, <3>2 DEF Extends
        <2>2. CASE inv \notin s.invitations
            <3> DEFINE new == [actor |-> sec.guest, channel |-> sec.channel, height |-> height]
            <3>1. \/ t.invitations = s.invitations
                  \/ sec.type = "invitation" /\ t.invitations = s.invitations \cup {new}
                BY EffectContents DEF SameContents
            <3>2. new.actor = sec.guest /\ new.channel = sec.channel /\ new.height = height
                OBVIOUS
            <3> HIDE DEF new, t
            <3>3. sec.type = "invitation" /\ inv = new  BY <2>2, <3>1
            <3> QED  BY <3>2, <3>3 DEF IsInvitation
        <2> QED  BY <2>1, <2>2
    <1> HIDE DEF t
    <1>8. Consistent(t, more)  BY <1>2, <1>3, <1>4, <1>6, <1>7 DEF Consistent
    <1> QED  BY <1>8 DEF t

\* So does a height at which there is nothing.
LEMMA ConsistentWider ==
    ASSUME NEW s, NEW at, Consistent(s, at), NEW more, DOMAIN at \subseteq DOMAIN more,
           \A g \in DOMAIN at : more[g] = at[g],
           \A g \in DOMAIN more : g \notin DOMAIN at => DOMAIN more[g] = {}
    PROVE  Consistent(s, more)
    <1> DEFINE none == [type |-> "none"]
    <1>1. Covers(s, s)  BY CoversItself
    <1>2. ~Rejected(s, none)  BY DEF Rejected
    <1> HIDE DEF none
    <1>3. Extends(more, at, 0, 0, none)  BY DEF Extends
    <1>4. \A a, x : HasKeysOf(s, at, a, x) => HasKeysOf(s, more, a, x)
        BY <1>1, <1>2, <1>3, KeysStay
    <1>5. \A sec : Truthful(s, at, sec) => Truthful(s, more, sec)
        BY <1>1, <1>2, <1>3, TruthStays
    <1>6. \A a \in DOMAIN s.actors :
             Subscribed(s, a) => \E x \in Identities : HasKeysOf(s, more, a, x)
        BY <1>4 DEF Consistent
    <1>7. \A g \in DOMAIN more : \A i \in DOMAIN more[g] : Truthful(s, more, more[g][i])
        BY <1>5 DEF Consistent
    <1>8. \A inv \in s.invitations :
            /\ inv.height \in DOMAIN more
            /\ \E i \in DOMAIN more[inv.height] :
                 IsInvitation(more[inv.height][i], inv.actor, inv.channel)
        BY DEF Consistent
    <1> QED  BY <1>6, <1>7, <1>8 DEF Consistent

LEMMA InvitesStep ==
    ASSUME NEW at, NEW h \in Nat, InvitesFirst(at, h), NEW more, NEW n, NEW sec,
           Extends(more, at, h, n, sec), DOMAIN at = 1 .. h, DOMAIN more = 1 .. h, h # 0,
           sec.type = "invitation" =>
             \A g \in DOMAIN at : \A j \in DOMAIN at[g] :
               ~IsInvitation(at[g][j], sec.guest, sec.channel)
    PROVE  InvitesFirst(more, h)
    <1> SUFFICES ASSUME NEW i \in DOMAIN more[h], NEW g \in 1 .. h, NEW j \in DOMAIN more[g],
                        more[h][i].type = "invitation",
                        IsInvitation(more[g][j], more[h][i].guest, more[h][i].channel)
                 PROVE  g = h /\ i = j
        BY DEF InvitesFirst
    <1>1. h \in 1 .. h  OBVIOUS
    <1>2. \/ i \in DOMAIN at[h] /\ more[h][i] = at[h][i]
          \/ i = n /\ more[h][i] = sec
        BY <1>1 DEF Extends
    <1>3. \/ j \in DOMAIN at[g] /\ more[g][j] = at[g][j]
          \/ g = h /\ j = n /\ more[g][j] = sec
        BY <1>1 DEF Extends
    <1>4. CASE i \in DOMAIN at[h] /\ more[h][i] = at[h][i]
        <2>1. CASE j \in DOMAIN at[g] /\ more[g][j] = at[g][j]
            BY <1>4, <2>1 DEF InvitesFirst
        <2>2. CASE g = h /\ j = n /\ more[g][j] = sec
            BY <1>1, <1>4, <2>2 DEF IsInvitation
        <2> QED  BY <1>3, <2>1, <2>2
    <1>5. CASE i = n /\ more[h][i] = sec
        <2>1. CASE j \in DOMAIN at[g] /\ more[g][j] = at[g][j]  BY <1>5, <2>1
        <2>2. CASE g = h /\ j = n /\ more[g][j] = sec  BY <1>5, <2>2
        <2> QED  BY <1>3, <2>1, <2>2
    <1> QED  BY <1>2, <1>4, <1>5

-----------------------------------------------------------------------------
(* A builder *)

IsBuilder(st) ==
    st = [height |-> st.height, ledger |-> st.ledger, sections |-> st.sections,
          calls |-> st.calls, updater |-> st.updater, returned |-> st.returned,
          spoilt |-> st.spoilt, threw |-> st.threw, offline |-> st.offline]

\* The state that one who has base comes to with what the builder made.
Replayed(st, base) == Run(base, st.sections, st.height + 1)

Listed(at) == \A h \in DOMAIN at : \E n \in Nat : DOMAIN at[h] = 1 .. n

\* What a builder on a chain of blocks reads, and what others will: as long as its
\* microblock can be accepted the state to come has all that the builder's has, and maybe
\* more, from sections that were added while the protocol state was out of reach.
Kept(st, base, blocks) ==
    LET at == View(blocks, st)
    IN /\ Listed(at)
       /\ WellNamed(st.ledger)
       /\ \A a \in DOMAIN st.ledger.actors : st.ledger.actors[a].keyHeight \in 0 .. st.height + 1
       /\ Accepts(base, st.sections, st.height + 1) =>
            Consistent(Replayed(st, base), at) /\ Covers(Replayed(st, base), st.ledger)
       /\ ~st.spoilt => InvitesFirst(at, st.height + 1)

\* What a builder has made so far, on top of a chain whose state is base: unless some call
\* threw, one who has that state accepts it and comes to the builder's.
Formed(st, base) ==
    /\ IsBuilder(st)
    /\ st.height \in Nat /\ base \in State /\ st.ledger \in State
    /\ \E S : st.sections \in Seq(S)
    /\ \A i \in DOMAIN st.sections : WellFormed(st.sections[i])
    /\ st.spoilt \in BOOLEAN /\ st.threw \in BOOLEAN
    /\ ~st.spoilt => /\ Accepts(base, st.sections, st.height + 1)
                     /\ Run(base, st.sections, st.height + 1) = st.ledger

\* And what it says of keys and members is so.
Sound(st, base) == Formed(st, base) /\ Kept(st, base, chain)

\* The sections of st are the first of t.
Continues(st, t) ==
    \A i \in DOMAIN st.sections : i \in DOMAIN t.sections /\ t.sections[i] = st.sections[i]

\* What an operation may make of it: what it has stays.
Grown(st, t, base) == /\ Sound(t, base)
                      /\ t.height = st.height
                      /\ Covers(t.ledger, st.ledger)
                      /\ Continues(st, t)

LEMMA ViewFields ==
    ASSUME NEW st, st.height \in Nat, NEW blocks
    PROVE  /\ DOMAIN View(blocks, st) = 1 .. st.height + 1
           /\ \A h \in 1 .. st.height : View(blocks, st)[h] = blocks[h].sections
           /\ View(blocks, st)[st.height + 1] = st.sections
           /\ st.height + 1 \in 1 .. st.height + 1
    BY DEF View

LEMMA SameView ==
    ASSUME NEW st, NEW t, t.height = st.height, t.sections = st.sections, NEW blocks
    PROVE  View(blocks, t) = View(blocks, st)
    BY DEF View

\* What a section added to the microblock has to be for those who read it.
Fits(st, base, sec) ==
    /\ Accepts(base, st.sections, st.height + 1) =>
         Fitting(Replayed(st, base), View(chain, st), sec)
    /\ sec.type = "invitation" => InvitationsOf(st, sec.guest, sec.channel) = {}

LEMMA KeyHeightsStay ==
    ASSUME NEW s \in State, NEW sec, WellFormed(sec), NEW h \in Nat,
           \A a \in DOMAIN s.actors : s.actors[a].keyHeight \in 0 .. h
    PROVE  \A a \in DOMAIN Effect(s, sec, h).actors : Effect(s, sec, h).actors[a].keyHeight \in 0 .. h
    <1> DEFINE t == Effect(s, sec, h)
    <1>1. t \in State  BY EffectTyped
    <1> SUFFICES ASSUME NEW a \in DOMAIN t.actors PROVE t.actors[a].keyHeight \in 0 .. h
        OBVIOUS
    <1>2. CASE Subscribed(s, a)
        <2>1. t.actors[a].keyHeight = s.actors[a].keyHeight
            BY <1>2, EffectCovers, CoversSubscribed
        <2> QED  BY <1>2, <2>1 DEF Subscribed, ActorDefined
    <1>3. CASE ~Subscribed(s, a) /\ Subscribed(t, a)
        <2>1. t.actors[a].keyHeight = h  BY <1>3, NewSubscriber
        <2> QED  BY <2>1
    <1>4. CASE ~Subscribed(t, a)
        <2> HIDE DEF t
        <2> QED  BY <1>4 DEF Subscribed, ActorDefined
    <1> QED  BY <1>2, <1>3, <1>4

\* A section that fits, in the microblock and perhaps in the builder's state.
LEMMA AddKept ==
    ASSUME NEW st, NEW base, st.height \in Nat, base \in State, st.ledger \in State,
           NEW S, st.sections \in Seq(S), \A i \in DOMAIN st.sections : WellFormed(st.sections[i]),
           ~st.spoilt => /\ Accepts(base, st.sections, st.height + 1)
                         /\ Replayed(st, base) = st.ledger,
           Kept(st, base, chain),
           NEW sec, WellFormed(sec), Fits(st, base, sec),
           NEW t, t.height = st.height, t.sections = Append(st.sections, sec),
           t.ledger \in {st.ledger, Effect(st.ledger, sec, st.height + 1)},
           ~t.spoilt => ~st.spoilt
    PROVE  Kept(t, base, chain)
    <1> DEFINE at == View(chain, st)
               more == View(chain, t)
               h == st.height + 1
               n == Len(st.sections) + 1
    <1>1. /\ h \in Nat \ {0} /\ n \in Nat
          /\ DOMAIN at = 1 .. h /\ DOMAIN more = 1 .. h
          /\ h \in DOMAIN at /\ at[h] = st.sections /\ more[h] = Append(st.sections, sec)
          /\ \A g \in DOMAIN at : g # h => more[g] = at[g]
        <2>1. Len(st.sections) \in Nat  OBVIOUS
        <2> HIDE DEF n
        <2>2. \A g \in 1 .. h : g # h => g \in 1 .. st.height  OBVIOUS
        <2>3. h \in Nat \ {0}  OBVIOUS
        <2>4. /\ DOMAIN at = 1 .. h /\ DOMAIN more = 1 .. h
              /\ h \in DOMAIN at /\ at[h] = st.sections /\ more[h] = Append(st.sections, sec)
              /\ \A g \in 1 .. st.height : more[g] = at[g]
            BY ViewFields
        <2>5. n \in Nat  BY <2>1 DEF n
        <2> HIDE DEF at, more, h
        <2> QED  BY <2>2, <2>3, <2>4, <2>5
    <1>2. /\ DOMAIN more[h] = 1 .. n /\ DOMAIN at[h] = 1 .. n - 1 /\ more[h][n] = sec
          /\ \A i \in DOMAIN at[h] : more[h][i] = at[h][i]
        <2> DEFINE T == S \cup {sec}
        <2>1. st.sections \in Seq(T) /\ sec \in T  OBVIOUS
        <2> HIDE DEF T
        <2>2. /\ DOMAIN Append(st.sections, sec) = 1 .. n /\ DOMAIN st.sections = 1 .. n - 1
              /\ Append(st.sections, sec)[n] = sec
              /\ \A i \in DOMAIN st.sections : Append(st.sections, sec)[i] = st.sections[i]
            BY <2>1
        <2> HIDE DEF at, more, h, n
        <2> QED  BY <1>1, <2>2
    <1>3. Extends(more, at, h, n, sec)
        <2> HIDE DEF at, more, h
        <2>1. n \in Nat  BY <1>1
        <2> HIDE DEF n
        <2>2. \A i \in DOMAIN more[h] : i \in DOMAIN at[h] \/ i = n  BY <1>2, <2>1
        <2>3. \A i \in DOMAIN at[h] : i \in DOMAIN more[h]  BY <1>2, <2>1
        <2> QED  BY <1>1, <1>2, <2>2, <2>3 DEF Extends
    <1>4. Listed(more)
        <2>1. Listed(at)  BY DEF Kept
        <2> HIDE DEF at, more, h, n
        <2> SUFFICES ASSUME NEW g \in DOMAIN more PROVE \E m \in Nat : DOMAIN more[g] = 1 .. m
            BY DEF Listed
        <2>2. CASE g = h  BY <1>1, <1>2, <2>2
        <2>3. CASE g # h  BY <1>1, <2>1, <2>3 DEF Listed
        <2> QED  BY <2>2, <2>3
    <1>5. WellNamed(t.ledger)
        BY <1>1, EffectWellNamed DEF Kept
    <1>6. \A a \in DOMAIN t.ledger.actors : t.ledger.actors[a].keyHeight \in 0 .. h
        <2>1. \A a \in DOMAIN st.ledger.actors : st.ledger.actors[a].keyHeight \in 0 .. h
            BY DEF Kept
        <2> HIDE DEF h
        <2> QED  BY <1>1, <2>1, KeyHeightsStay DEF h
    <1>7. ASSUME Accepts(base, t.sections, h)
          PROVE  Consistent(Replayed(t, base), more) /\ Covers(Replayed(t, base), t.ledger)
        <2> DEFINE r == Replayed(st, base)
        <2>1. Accepts(base, st.sections, h) /\ ~Rejected(r, sec)
            <3>1. Accepts(base, Append(st.sections, sec), h)  BY <1>7
            <3>2. h \in Nat  BY <1>1
            <3>3. /\ Accepts(base, st.sections, h)
                  /\ ~Rejected(Run(base, st.sections, h), sec)
                <4> HIDE DEF h
                <4> QED  BY <3>1, <3>2, AcceptsPrefix
            <3> QED  BY <3>3 DEF Replayed
        <2>2. r \in State /\ Replayed(t, base) = Effect(r, sec, h)
            <3>1. /\ CanRun(base, st.sections, h)
                  /\ Run(base, Append(st.sections, sec), h) =
                       Effect(Run(base, st.sections, h), sec, h)
                <4>1. h \in Nat  BY <1>1
                <4> HIDE DEF h
                <4> QED  BY <4>1, RunAppend
            <3>2. Replayed(t, base) = Effect(r, sec, h)  BY <3>1 DEF Replayed
            <3> QED  BY <3>1, <3>2, RunSteps DEF Replayed
        <2>3. Consistent(r, at) /\ Covers(r, st.ledger)  BY <2>1 DEF Kept
        <2>4. Fitting(r, at, sec)  BY <2>1 DEF Fits
        <2> HIDE DEF r, at, more, n
        <2>5. n \in DOMAIN more[h]  BY <1>1, <1>2
        <2> HIDE DEF h
        <2>6. h \in DOMAIN more  BY <1>1
        <2>7. Consistent(Effect(r, sec, h), more)
            BY <1>1, <1>2, <1>3, <2>1, <2>2, <2>3, <2>4, <2>5, <2>6, ConsistentStep
        <2>8. Covers(Effect(r, sec, h), r)  BY <2>2, EffectCovers
        <2>9. Covers(Effect(r, sec, h), st.ledger)  BY <2>3, <2>8, CoversTransitive
        <2>10. Covers(Effect(r, sec, h), Effect(st.ledger, sec, h))
            BY <1>1, <2>1, <2>2, <2>3, <2>4, EffectsCover DEF Fitting
        <2> QED  BY <2>2, <2>7, <2>9, <2>10 DEF h
    <1>8. ASSUME ~t.spoilt PROVE InvitesFirst(more, h)
        <2>1. ~st.spoilt  BY <1>8
        <2>2. Accepts(base, st.sections, h) /\ Replayed(st, base) = st.ledger  BY <2>1
        <2>3. Consistent(st.ledger, at) /\ InvitesFirst(at, h)  BY <2>1, <2>2 DEF Kept
        <2>4. ASSUME sec.type = "invitation", NEW g \in DOMAIN at, NEW j \in DOMAIN at[g],
                     IsInvitation(at[g][j], sec.guest, sec.channel)
              PROVE  FALSE
            <3>1. Truthful(st.ledger, at, at[g][j])  BY <2>3 DEF Consistent
            <3>2. PICK inv \in st.ledger.invitations :
                     inv.actor = sec.guest /\ inv.channel = sec.channel
                BY <2>4, <3>1 DEF Truthful, IsInvitation
            <3>3. inv \in InvitationsOf(st, sec.guest, sec.channel)  BY <3>2 DEF InvitationsOf
            <3> QED  BY <2>4, <3>3 DEF Fits
        <2> HIDE DEF at, more, h, n
        <2> QED  BY <1>1, <1>3, <2>3, <2>4, InvitesStep
    <1> QED  BY <1>4, <1>5, <1>6, <1>7, <1>8 DEF Kept


LEMMA GrownReflexive ==
    ASSUME NEW st, NEW base, Sound(st, base)
    PROVE  Grown(st, st, base)
    BY CoversItself DEF Grown, Continues

LEMMA GrownTransitive ==
    ASSUME NEW st, NEW t, NEW u, NEW base, Grown(st, t, base), Grown(t, u, base)
    PROVE  Grown(st, u, base)
    <1>1. Covers(u.ledger, st.ledger)  BY CoversTransitive DEF Grown
    <1>2. Continues(st, u)  BY DEF Grown, Continues
    <1> QED  BY <1>1, <1>2 DEF Grown

\* What a call that throws leaves alone.
LEMMA FailFields ==
    ASSUME NEW st, IsBuilder(st)
    PROVE  LET t == Fail(st) IN
           /\ IsBuilder(t) /\ t.height = st.height /\ t.ledger = st.ledger
           /\ t.sections = st.sections /\ t.offline = st.offline
           /\ t.calls = st.calls /\ t.updater = st.updater /\ t.returned = st.returned
           /\ t.spoilt = TRUE /\ t.threw = TRUE
    <1> DEFINE yes == TRUE
               u == [st EXCEPT !.threw = yes]
               t == [u EXCEPT !.spoilt = yes]
    <1>1. t = Fail(st)  BY Zenon DEF Fail
    <1>2. yes = TRUE  OBVIOUS
    <1> HIDE DEF yes
    <1>3. /\ IsBuilder(u) /\ u.height = st.height /\ u.ledger = st.ledger
          /\ u.sections = st.sections /\ u.offline = st.offline
          /\ u.calls = st.calls /\ u.updater = st.updater /\ u.returned = st.returned
          /\ u.threw = yes
        BY DEF IsBuilder
    <1> HIDE DEF u
    <1>4. /\ IsBuilder(t) /\ t.height = u.height /\ t.ledger = u.ledger
          /\ t.sections = u.sections /\ t.offline = u.offline
          /\ t.calls = u.calls /\ t.updater = u.updater /\ t.returned = u.returned
          /\ t.spoilt = yes /\ t.threw = u.threw
        BY <1>3 DEF IsBuilder
    <1> HIDE DEF t
    <1> QED  BY <1>1, <1>2, <1>3, <1>4

\* What does not touch the ledger and the sections.
LEMMA SameKept ==
    ASSUME NEW st, NEW base, NEW blocks, Kept(st, base, blocks), NEW t,
           t.height = st.height, t.ledger = st.ledger, t.sections = st.sections,
           ~t.spoilt => ~st.spoilt
    PROVE  Kept(t, base, blocks)
    <1>1. View(blocks, t) = View(blocks, st)  BY SameView
    <1>2. Replayed(t, base) = Replayed(st, base)  BY DEF Replayed
    <1> QED  BY <1>1, <1>2 DEF Kept

LEMMA FailSound ==
    ASSUME NEW st, NEW base, Sound(st, base)
    PROVE  Grown(st, Fail(st), base) /\ Fail(st).threw
    <1> DEFINE t == Fail(st)
    <1>1. /\ IsBuilder(t) /\ t.height = st.height /\ t.ledger = st.ledger
          /\ t.sections = st.sections /\ t.spoilt = TRUE /\ t.threw = TRUE
        BY FailFields DEF Sound, Formed
    <1> HIDE DEF t
    <1>2. Formed(t, base)  BY <1>1 DEF Sound, Formed
    <1>3. Kept(t, base, chain)  BY <1>1, SameKept DEF Sound
    <1>4. Covers(t.ledger, st.ledger) /\ Continues(st, t)
        BY <1>1, CoversItself DEF Continues
    <1> QED  BY <1>1, <1>2, <1>3, <1>4 DEF Grown, Sound, t

\* The section in the microblock, not yet in the state.
Pushed(st, sec) == [st EXCEPT !.sections = Append(st.sections, sec)]
\* And in the state.
Updated(st, sec) == [Pushed(st, sec) EXCEPT !.ledger = Effect(st.ledger, sec, st.height + 1),
                                            !.updater = TRUE]

LEMMA AddCases ==
    ASSUME NEW st, NEW sec
    PROVE  Add(st, sec) = IF st.offline THEN Fail(Pushed(st, sec))
                          ELSE IF Rejected(st.ledger, sec) THEN Fail(Updated(st, sec))
                          ELSE Updated(st, sec)
    BY DEF Add, Pushed, Updated

LEMMA PushedFields ==
    ASSUME NEW st, IsBuilder(st), NEW sec
    PROVE  LET t == Pushed(st, sec) IN
           /\ IsBuilder(t) /\ t.height = st.height /\ t.ledger = st.ledger
           /\ t.sections = Append(st.sections, sec) /\ t.offline = st.offline
           /\ t.calls = st.calls /\ t.updater = st.updater /\ t.returned = st.returned
           /\ t.spoilt = st.spoilt /\ t.threw = st.threw
    <1> DEFINE more == Append(st.sections, sec)
               t == [st EXCEPT !.sections = more]
    <1>1. t = Pushed(st, sec)  BY DEF Pushed
    <1> HIDE DEF more
    <1>2. /\ IsBuilder(t) /\ t.height = st.height /\ t.ledger = st.ledger
          /\ t.sections = more /\ t.offline = st.offline
          /\ t.calls = st.calls /\ t.updater = st.updater /\ t.returned = st.returned
          /\ t.spoilt = st.spoilt /\ t.threw = st.threw
        BY DEF IsBuilder
    <1> QED  BY <1>1, <1>2 DEF more

LEMMA UpdatedFields ==
    ASSUME NEW st, IsBuilder(st), NEW sec
    PROVE  LET t == Updated(st, sec) IN
           /\ IsBuilder(t) /\ t.height = st.height
           /\ t.ledger = Effect(st.ledger, sec, st.height + 1)
           /\ t.sections = Append(st.sections, sec) /\ t.offline = st.offline
           /\ t.calls = st.calls /\ t.updater = TRUE /\ t.returned = st.returned
           /\ t.spoilt = st.spoilt /\ t.threw = st.threw
    <1> DEFINE u == Pushed(st, sec)
               ledger == Effect(st.ledger, sec, st.height + 1)
               yes == TRUE
               v == [u EXCEPT !.ledger = ledger]
               t == [v EXCEPT !.updater = yes]
    <1>1. /\ IsBuilder(u) /\ u.height = st.height
          /\ u.sections = Append(st.sections, sec) /\ u.offline = st.offline
          /\ u.calls = st.calls /\ u.returned = st.returned
          /\ u.spoilt = st.spoilt /\ u.threw = st.threw
        BY PushedFields
    <1>2. t = Updated(st, sec)  BY Zenon DEF Updated
    <1>5. yes = TRUE  OBVIOUS
    <1> HIDE DEF u, ledger, yes
    <1>3. /\ IsBuilder(v) /\ v.height = u.height /\ v.ledger = ledger
          /\ v.sections = u.sections /\ v.offline = u.offline
          /\ v.calls = u.calls /\ v.returned = u.returned
          /\ v.spoilt = u.spoilt /\ v.threw = u.threw
        BY <1>1 DEF IsBuilder
    <1> HIDE DEF v
    <1>4. /\ IsBuilder(t) /\ t.height = v.height /\ t.ledger = v.ledger
          /\ t.sections = v.sections /\ t.offline = v.offline
          /\ t.calls = v.calls /\ t.updater = yes /\ t.returned = v.returned
          /\ t.spoilt = v.spoilt /\ t.threw = v.threw
        BY <1>3 DEF IsBuilder
    <1> HIDE DEF t
    <1> QED  BY <1>1, <1>2, <1>3, <1>4, <1>5 DEF ledger

\* A section added leaves what was made sound, whether or not it throws: a section that
\* does not throw is one that is accepted.
LEMMA AddSound ==
    ASSUME NEW st, NEW base, Sound(st, base), NEW sec, WellFormed(sec), Fits(st, base, sec)
    PROVE  /\ Grown(st, Add(st, sec), base)
           /\ \/ Add(st, sec).threw
              \/ /\ Add(st, sec) = Updated(st, sec)
                 /\ ~Rejected(st.ledger, sec)
           /\ Add(st, sec).ledger \in {st.ledger, Effect(st.ledger, sec, st.height + 1)}
           /\ Add(st, sec).sections = Append(st.sections, sec)
           /\ \E S : st.sections \in Seq(S) /\ sec \in S
    <1> DEFINE next == Effect(st.ledger, sec, st.height + 1)
               more == Append(st.sections, sec)
    <1>1. /\ IsBuilder(st) /\ st.height \in Nat /\ base \in State /\ st.ledger \in State
          /\ st.height + 1 \in Nat
          /\ st.spoilt \in BOOLEAN /\ st.threw \in BOOLEAN
        BY DEF Sound, Formed
    <1>2. next \in State /\ Covers(next, st.ledger)  BY <1>1, EffectTyped, EffectCovers
    <1>3. PICK S : st.sections \in Seq(S) /\ sec \in S
        <2>1. PICK R : st.sections \in Seq(R)  BY DEF Sound, Formed
        <2>2. st.sections \in Seq(R \cup {sec})  BY <2>1
        <2> QED  BY <2>2
    <1>4. /\ \E T : more \in Seq(T)
          /\ \A i \in DOMAIN more : WellFormed(more[i])
          /\ \A i \in DOMAIN st.sections : i \in DOMAIN more /\ more[i] = st.sections[i]
        <2>2. /\ more \in Seq(S)
              /\ \A i \in DOMAIN more : more[i] = sec \/ (i \in DOMAIN st.sections /\ more[i] = st.sections[i])
              /\ \A i \in DOMAIN st.sections : i \in DOMAIN more /\ more[i] = st.sections[i]
            BY <1>3
        <2>3. \A i \in DOMAIN st.sections : WellFormed(st.sections[i])  BY DEF Sound, Formed
        <2> HIDE DEF more
        <2> QED  BY <2>2, <2>3
    <1>5. ASSUME NEW t, t.height = st.height, t.sections = more, t.ledger \in {st.ledger, next},
                 ~t.spoilt => ~st.spoilt
          PROVE  Kept(t, base, chain) /\ Covers(t.ledger, st.ledger) /\ Continues(st, t)
        <2>1. Kept(t, base, chain)
            <3>1. ~st.spoilt => /\ Accepts(base, st.sections, st.height + 1)
                                /\ Replayed(st, base) = st.ledger
                BY DEF Sound, Formed, Replayed
            <3>2. /\ \A i \in DOMAIN st.sections : WellFormed(st.sections[i])
                  /\ Kept(st, base, chain)
                BY DEF Sound, Formed
            <3> QED  BY <1>1, <1>3, <1>5, <3>1, <3>2, AddKept
        <2>2. Covers(t.ledger, st.ledger)  BY <1>2, <1>5, CoversItself
        <2> HIDE DEF more
        <2>3. Continues(st, t)  BY <1>4, <1>5 DEF Continues
        <2> QED  BY <2>1, <2>2, <2>3
    <1>6. CASE st.offline
        <2> DEFINE u == Pushed(st, sec)
                   t == Fail(u)
        <2>1. Add(st, sec) = t  BY <1>6, AddCases
        <2>2. IsBuilder(u) /\ u.height = st.height /\ u.ledger = st.ledger /\ u.sections = more
            BY <1>1, PushedFields
        <2> HIDE DEF u
        <2>3. /\ IsBuilder(t) /\ t.height = u.height /\ t.ledger = u.ledger
              /\ t.sections = u.sections /\ t.spoilt = TRUE /\ t.threw = TRUE
            BY <2>2, FailFields
        <2> HIDE DEF t, more, next
        <2>4. Formed(t, base)  BY <1>1, <1>4, <2>2, <2>3 DEF Formed
        <2>5. Kept(t, base, chain) /\ Covers(t.ledger, st.ledger) /\ Continues(st, t)
            BY <1>5, <2>2, <2>3
        <2> QED  BY <1>3, <2>1, <2>2, <2>3, <2>4, <2>5 DEF Grown, Sound, more, next
    <1>7. CASE ~st.offline /\ Rejected(st.ledger, sec)
        <2> DEFINE u == Updated(st, sec)
                   t == Fail(u)
        <2>1. Add(st, sec) = t  BY <1>7, AddCases
        <2>2. IsBuilder(u) /\ u.height = st.height /\ u.ledger = next /\ u.sections = more
            BY <1>1, UpdatedFields
        <2> HIDE DEF u
        <2>3. /\ IsBuilder(t) /\ t.height = u.height /\ t.ledger = u.ledger
              /\ t.sections = u.sections /\ t.spoilt = TRUE /\ t.threw = TRUE
            BY <2>2, FailFields
        <2> HIDE DEF t, more, next
        <2>4. Formed(t, base)  BY <1>1, <1>2, <1>4, <2>2, <2>3 DEF Formed
        <2>5. Kept(t, base, chain) /\ Covers(t.ledger, st.ledger) /\ Continues(st, t)
            BY <1>5, <2>2, <2>3
        <2> QED  BY <1>3, <2>1, <2>2, <2>3, <2>4, <2>5 DEF Grown, Sound, more, next
    <1>8. CASE ~st.offline /\ ~Rejected(st.ledger, sec)
        <2> DEFINE t == Updated(st, sec)
        <2>1. Add(st, sec) = t  BY <1>8, AddCases
        <2>2. /\ IsBuilder(t) /\ t.height = st.height /\ t.ledger = next /\ t.sections = more
              /\ t.spoilt = st.spoilt /\ t.threw = st.threw
            BY <1>1, UpdatedFields
        <2>3. ASSUME ~st.spoilt
              PROVE  Accepts(base, more, st.height + 1) /\ Run(base, more, st.height + 1) = next
            <3>1. /\ Accepts(base, st.sections, st.height + 1)
                  /\ Run(base, st.sections, st.height + 1) = st.ledger
                  /\ \A i \in DOMAIN st.sections : WellFormed(st.sections[i])
                BY <2>3 DEF Sound, Formed
            <3>2. Accepts(base, more, st.height + 1)  BY <1>1, <1>3, <1>8, <3>1, AcceptsAppend
            <3>3. Run(base, more, st.height + 1) = next  BY <1>1, <1>3, <3>1, RunAppend
            <3> QED  BY <3>2, <3>3
        <2> HIDE DEF t, more, next
        <2>4. Formed(t, base)  BY <1>1, <1>2, <1>4, <2>2, <2>3 DEF Formed
        <2>5. Kept(t, base, chain) /\ Covers(t.ledger, st.ledger) /\ Continues(st, t)
            BY <1>5, <2>2
        <2> QED  BY <1>3, <1>8, <2>1, <2>2, <2>4, <2>5 DEF Grown, Sound, t, more, next
    <1> QED  BY <1>6, <1>7, <1>8

-----------------------------------------------------------------------------
(* What a builder looks up *)

LEMMA SectionsFound ==
    ASSUME NEW st, NEW base, Sound(st, base), NEW h \in 1 .. st.height + 1
    PROVE  h \in DOMAIN View(chain, st) /\ SectionsAt(st, h) = View(chain, st)[h]
    <1>1. st.height \in Nat  BY DEF Sound, Formed
    <1>2. CASE h \in 1 .. st.height
        <2>1. SectionsAt(st, h) = chain[h].sections  BY <1>1, <1>2 DEF SectionsAt
        <2> QED  BY <1>1, <1>2, <2>1, ViewFields
    <1>3. CASE h \notin 1 .. st.height
        <2>1. h = st.height + 1  BY <1>1, <1>3
        <2>2. SectionsAt(st, h) = st.sections  BY <1>1, <1>3, <2>1 DEF SectionsAt
        <2> QED  BY <1>1, <2>1, <2>2, ViewFields
    <1> QED  BY <1>2, <1>3

\* Where the key of a subscribed actor is found.
LEMMA SubscriptionsFound ==
    ASSUME NEW st, NEW base, Sound(st, base), NEW a, Subscribed(st.ledger, a)
    PROVE  LET h == st.ledger.actors[a].keyHeight
               at == View(chain, st)
           IN /\ h \in 1 .. st.height + 1 /\ h \in DOMAIN at /\ SectionsAt(st, h) = at[h]
              /\ Subscriptions(st, a) = SubscriptionsAt(at, h, a)
              /\ Subscriptions(st, a) \in SUBSET Nat
              /\ \A i : IdentityAt(st, a, i) = at[h][i].identity
    <1> DEFINE h == st.ledger.actors[a].keyHeight
               at == View(chain, st)
    <1>1. h \in 1 .. st.height + 1
        <2>1. /\ \A b \in DOMAIN st.ledger.actors : st.ledger.actors[b].keyHeight \in 0 .. st.height + 1
              /\ st.height \in Nat
            BY DEF Sound, Formed, Kept
        <2>2. a \in DOMAIN st.ledger.actors /\ h # 0  BY DEF Subscribed, ActorDefined
        <2>3. h \in 0 .. st.height + 1  BY <2>1, <2>2
        <2> HIDE DEF h
        <2> QED  BY <2>1, <2>2, <2>3
    <1>2. SectionsAt(st, h) = at[h] /\ h \in DOMAIN at
        <2> HIDE DEF h
        <2> QED  BY <1>1, SectionsFound
    <1>3. Subscriptions(st, a) = SubscriptionsAt(at, h, a)
        <2> HIDE DEF at
        <2> QED  BY <1>2 DEF Subscriptions, SubscriptionsAt, SubscribesTo
    <1>4. \A i : IdentityAt(st, a, i) = at[h][i].identity
        <2> HIDE DEF at
        <2> QED  BY <1>2 DEF IdentityAt
    <1>5. Subscriptions(st, a) \in SUBSET Nat
        <2>1. PICK n \in Nat : DOMAIN at[h] = 1 .. n  BY <1>2 DEF Sound, Kept, Listed
        <2> HIDE DEF at, h
        <2>2. SubscriptionsAt(at, h, a) \subseteq 1 .. n  BY <2>1 DEF SubscriptionsAt
        <2> QED  BY <1>3, <2>1, <2>2
    <1> QED  BY <1>1, <1>2, <1>3, <1>4, <1>5

\* As long as the microblock can be accepted, the key found is the actor's.
LEMMA KeysOfActor ==
    ASSUME NEW st, NEW base, Sound(st, base), Accepts(base, st.sections, st.height + 1),
           NEW a, Subscribed(st.ledger, a)
    PROVE  /\ HasKeysOf(Replayed(st, base), View(chain, st), a, KeyOf(st, a))
           /\ KeyOf(st, a) \in Identities
           /\ \A x : a \in ActorsOf(st, x) <=> KeyOf(st, a) = x
    <1> DEFINE t == Replayed(st, base)
               at == View(chain, st)
               h == st.ledger.actors[a].keyHeight
    <1>1. Consistent(t, at) /\ Covers(t, st.ledger)  BY DEF Sound, Kept
    <1>2. Subscribed(t, a) /\ t.actors[a].keyHeight = h  BY <1>1, CoversSubscribed
    <1>3. PICK x \in Identities : HasKeysOf(t, at, a, x)
        BY <1>1, <1>2 DEF Consistent, Subscribed, ActorDefined
    <1>4. /\ Subscriptions(st, a) = SubscriptionsAt(at, h, a)
          /\ Subscriptions(st, a) \in SUBSET Nat
          /\ \A i : IdentityAt(st, a, i) = at[h][i].identity
        BY SubscriptionsFound
    <1> HIDE DEF t, at, h
    <1>5. /\ Subscriptions(st, a) # {}
          /\ \A i \in Subscriptions(st, a) : IdentityAt(st, a, i) = x
        BY <1>2, <1>3, <1>4 DEF HasKeysOf
    <1>6. Min(Subscriptions(st, a)) \in Subscriptions(st, a)  BY <1>4, <1>5, LeastIn
    <1>7. KeyOf(st, a) = x  BY <1>5, <1>6 DEF KeyOf
    <1>8. a \in DOMAIN st.ledger.actors  BY DEF Subscribed, ActorDefined
    <1>9. \A y : a \in ActorsOf(st, y) <=> x = y  BY <1>5, <1>8 DEF ActorsOf
    <1> QED  BY <1>3, <1>7, <1>9 DEF t, at

\* So is the invitation.
LEMMA InvitedKeyFound ==
    ASSUME NEW st, NEW base, Sound(st, base), Accepts(base, st.sections, st.height + 1),
           NEW actor, NEW channel, InvitationsOf(st, actor, channel) # {}
    PROVE  LET at == View(chain, st)
           IN \E h \in DOMAIN at : \E i \in DOMAIN at[h] :
                /\ IsInvitation(at[h][i], actor, channel)
                /\ InvitedKey(st, actor, channel) = at[h][i].encrypted
    <1> DEFINE t == Replayed(st, base)
               at == View(chain, st)
               H == {inv.height : inv \in InvitationsOf(st, actor, channel)}
               h == Min(H)
               P == {i \in DOMAIN SectionsAt(st, h) :
                       /\ SectionsAt(st, h)[i].type = "invitation"
                       /\ SectionsAt(st, h)[i].guest = actor
                       /\ SectionsAt(st, h)[i].channel = channel}
    <1>1. Consistent(t, at) /\ Covers(t, st.ledger) /\ Listed(at)  BY DEF Sound, Kept
    <1>2. H \in SUBSET Nat /\ H # {}
        <2>1. st.ledger.invitations \subseteq Invitation  BY DEF Sound, Formed, State
        <2>2. \A inv \in InvitationsOf(st, actor, channel) : inv.height \in Nat
            BY <2>1 DEF InvitationsOf, Invitation
        <2> QED  BY <2>2
    <1>3. h \in H
        <2> HIDE DEF H
        <2> QED  BY <1>2, LeastIn
    <1>4. PICK inv \in InvitationsOf(st, actor, channel) : inv.height = h  BY <1>3
    <1>5. inv \in t.invitations /\ inv.actor = actor /\ inv.channel = channel
        BY <1>1 DEF Covers, InvitationsOf
    <1> HIDE DEF h
    <1>6. h \in DOMAIN at /\ \E i \in DOMAIN at[h] : IsInvitation(at[h][i], actor, channel)
        BY <1>1, <1>4, <1>5 DEF Consistent
    <1>7. SectionsAt(st, h) = at[h]
        <2>1. st.height \in Nat  BY DEF Sound, Formed
        <2>2. h \in 1 .. st.height + 1  BY <1>6, <2>1, ViewFields
        <2> QED  BY <2>2, SectionsFound
    <1>8. P # {} /\ \A i \in P : i \in DOMAIN at[h] /\ IsInvitation(at[h][i], actor, channel)
        <2> HIDE DEF at
        <2> QED  BY <1>6, <1>7 DEF IsInvitation
    <1>9. PICK n \in Nat : DOMAIN at[h] = 1 .. n  BY <1>1, <1>6 DEF Listed
    <1>10. InvitedKey(st, actor, channel) = at[h][Max(P)].encrypted
        <2>1. InvitedKey(st, actor, channel) = SectionsAt(st, h)[Max(P)].encrypted
            BY DEF InvitedKey, h
        <2> QED  BY <1>7, <2>1
    <1> HIDE DEF P, at
    <1>11. P \in SUBSET (1 .. n)  BY <1>8, <1>9
    <1>12. Max(P) \in P  BY <1>8, <1>11, GreatestIn
    <1> QED  BY <1>6, <1>8, <1>10, <1>12 DEF at

LEMMA ChannelFound ==
    ASSUME NEW st, NEW base, Sound(st, base), Accepts(base, st.sections, st.height + 1),
           NEW c \in DOMAIN st.ledger.channels
    PROVE  LET t == Replayed(st, base)
           IN /\ c \in DOMAIN t.channels /\ t.channels[c] = st.ledger.channels[c]
              /\ c \in Nat \ {0}
    <1>1. Covers(Replayed(st, base), st.ledger)  BY DEF Sound, Kept
    <1>2. st.ledger.channels \in Seq(Channel)  BY DEF Sound, Formed, State
    <1> QED  BY <1>1, <1>2 DEF Covers

\* The key an invitation gives is the guest's to decrypt, and the channel's.
LEMMA InvitedKeyRight ==
    ASSUME NEW st, NEW base, Sound(st, base), Accepts(base, st.sections, st.height + 1),
           NEW actor, NEW channel, InvitationsOf(st, actor, channel) # {}
    PROVE  LET t == Replayed(st, base)
               at == View(chain, st)
               e == InvitedKey(st, actor, channel)
           IN /\ e = [for |-> e.for, key |-> e.key]
              /\ HasKeysOf(t, at, actor, e.for)
              /\ IsKeyOfChannel(t, at, channel, e.key)
    <1> DEFINE t == Replayed(st, base)
               at == View(chain, st)
    <1>1. PICK h \in DOMAIN at : \E i \in DOMAIN at[h] :
                /\ IsInvitation(at[h][i], actor, channel)
                /\ InvitedKey(st, actor, channel) = at[h][i].encrypted
        BY InvitedKeyFound
    <1>2. PICK i \in DOMAIN at[h] : /\ IsInvitation(at[h][i], actor, channel)
                                    /\ InvitedKey(st, actor, channel) = at[h][i].encrypted
        BY <1>1
    <1>3. Consistent(t, at)  BY DEF Sound, Kept
    <1> HIDE DEF t, at
    <1>4. Truthful(t, at, at[h][i])  BY <1>3 DEF Consistent
    <1>5. RightInvitation(t, at, at[h][i])  BY <1>2, <1>4 DEF Truthful, IsInvitation
    <1> QED  BY <1>2, <1>5 DEF RightInvitation, IsInvitation, t, at

\* Who recovers the key of a channel with the own keys has the channel's key.
LEMMA KeysForRight ==
    ASSUME NEW st, NEW base, Sound(st, base), Accepts(base, st.sections, st.height + 1),
           NEW identity \in Identities, NEW actor \in ActorsOf(st, identity),
           NEW channel \in DOMAIN st.ledger.channels,
           NEW key \in KeysFor(st, actor, channel, identity)
    PROVE  IsKeyOfChannel(Replayed(st, base), View(chain, st), channel, key)
    <1> DEFINE t == Replayed(st, base)
               at == View(chain, st)
               e == InvitedKey(st, actor, channel)
    <1>1. Subscribed(st.ledger, actor)  BY DEF ActorsOf
    <1>2. HasKeysOf(t, at, actor, identity)
        <2>1. KeyOf(st, actor) = identity  BY <1>1, KeysOfActor
        <2> QED  BY <1>1, <2>1, KeysOfActor
    <1>3. channel \in DOMAIN t.channels /\ t.channels[channel] = st.ledger.channels[channel]
        BY ChannelFound
    <1>4. CASE st.ledger.channels[channel].creator = actor
        <2>1. key = [seed |-> identity, channel |-> channel]  BY <1>4 DEF KeysFor
        <2> HIDE DEF t, at
        <2>2. IsKeyOfChannel(t, at, channel, key)  BY <1>2, <1>3, <1>4, <2>1 DEF IsKeyOfChannel
        <2> QED  BY <2>2 DEF t, at
    <1>5. CASE st.ledger.channels[channel].creator # actor
        <2>1. InvitationsOf(st, actor, channel) # {} /\ key = e.key  BY <1>5 DEF KeysFor
        <2> QED  BY <2>1, InvitedKeyRight
    <1> QED  BY <1>4, <1>5

\* And who is in a channel recovers it.
LEMMA KeysForMember ==
    ASSUME NEW st, NEW base, Sound(st, base), Accepts(base, st.sections, st.height + 1),
           NEW actor, Subscribed(st.ledger, actor),
           NEW channel \in DOMAIN st.ledger.channels, IsActorInChannel(st, channel, actor)
    PROVE  \E key : /\ KeysFor(st, actor, channel, KeyOf(st, actor)) = {key}
                    /\ IsKeyOfChannel(Replayed(st, base), View(chain, st), channel, key)
    <1> DEFINE t == Replayed(st, base)
               at == View(chain, st)
               x == KeyOf(st, actor)
               e == InvitedKey(st, actor, channel)
    <1>1. HasKeysOf(t, at, actor, x) /\ x \in Identities  BY KeysOfActor
    <1>2. /\ channel \in DOMAIN t.channels /\ t.channels[channel] = st.ledger.channels[channel]
          /\ channel \in Nat \ {0}
        BY ChannelFound
    <1> HIDE DEF x
    <1>3. CASE st.ledger.channels[channel].creator = actor
        <2> DEFINE key == [seed |-> x, channel |-> channel]
        <2>1. KeysFor(st, actor, channel, x) = {key}  BY <1>3 DEF KeysFor
        <2> HIDE DEF t, at
        <2>2. IsKeyOfChannel(t, at, channel, key)  BY <1>1, <1>2, <1>3 DEF IsKeyOfChannel
        <2> QED  BY <2>1, <2>2 DEF t, at, x
    <1>4. CASE st.ledger.channels[channel].creator # actor
        <2>1. InvitationsOf(st, actor, channel) # {}  BY <1>4 DEF IsActorInChannel
        <2>2. /\ e = [for |-> e.for, key |-> e.key]
              /\ HasKeysOf(t, at, actor, e.for)
              /\ IsKeyOfChannel(t, at, channel, e.key)
            BY <2>1, InvitedKeyRight
        <2>3. KeysFor(st, actor, channel, x) =
                {d.key : d \in {e} \cap [for : {x}, key : ChannelKey]}
            BY <1>4, <2>1 DEF KeysFor
        <2> HIDE DEF e, t, at
        <2>4. e.for = x  BY <1>1, <2>2, OneIdentity
        <2>5. e.key \in ChannelKey  BY <1>2, <2>2 DEF IsKeyOfChannel, ChannelKey
        <2>6. e \in [for : {x}, key : ChannelKey]  BY <2>2, <2>4, <2>5
        <2>7. KeysFor(st, actor, channel, x) = {e.key}  BY <2>3, <2>6
        <2> QED  BY <2>2, <2>7 DEF t, at, x
    <1> QED  BY <1>3, <1>4

-----------------------------------------------------------------------------
(* The author of a request *)

LEMMA ActorIdDefined ==
    ASSUME NEW st, NEW base, Sound(st, base), NEW name, ActorNamed(st.ledger, name)
    PROVE  /\ ActorId(st, name) \in DOMAIN st.ledger.actors
           /\ st.ledger.actors[ActorId(st, name)].name = name
           /\ ActorId(st, name) \in Nat
    <1>1. /\ ActorId(st, name) \in DOMAIN st.ledger.actors
          /\ st.ledger.actors[ActorId(st, name)].name = name
        BY DEF ActorNamed, ActorId
    <1>2. st.ledger.actors \in Seq(Actor)  BY DEF Sound, Formed, State
    <1> QED  BY <1>1, <1>2

LEMMA ChannelIdDefined ==
    ASSUME NEW st, NEW base, Sound(st, base), NEW name, ChannelNamed(st.ledger, name)
    PROVE  ChannelId(st, name) \in DOMAIN st.ledger.channels /\ ChannelId(st, name) \in Nat
    <1>1. ChannelId(st, name) \in DOMAIN st.ledger.channels
        BY DEF ChannelNamed, ChannelId
    <1>2. st.ledger.channels \in Seq(Channel)  BY DEF Sound, Formed, State
    <1> QED  BY <1>1, <1>2

\* The identifier of a name stays.
LEMMA GrownActorId ==
    ASSUME NEW st, NEW t, NEW base, Sound(st, base), Grown(st, t, base),
           NEW name, ActorNamed(st.ledger, name)
    PROVE  ActorNamed(t.ledger, name) /\ ActorId(t, name) = ActorId(st, name)
    <1> DEFINE a == ActorId(st, name)
    <1>1. a \in DOMAIN st.ledger.actors /\ st.ledger.actors[a].name = name  BY ActorIdDefined
    <1> HIDE DEF a
    <1>2. a \in DOMAIN t.ledger.actors /\ t.ledger.actors[a].name = name
        BY <1>1 DEF Grown, Covers, KeepsActors
    <1>3. ActorNamed(t.ledger, name)  BY <1>2 DEF ActorNamed
    <1>4. /\ ActorId(t, name) \in DOMAIN t.ledger.actors
          /\ t.ledger.actors[ActorId(t, name)].name = name
        BY <1>3, ActorIdDefined DEF Grown
    <1>5. UniqueActors(t.ledger)  BY DEF Grown, Sound, Kept, WellNamed
    <1> QED  BY <1>2, <1>3, <1>4, <1>5 DEF UniqueActors, a

\* The author has the host's keys.
ActsAs(st, author, host) ==
    ActorNamed(st.ledger, author) /\ ActorId(st, author) \in ActorsOf(st, host)

\* Whoever acts as the host goes on to.
LEMMA GrownActs ==
    ASSUME NEW st, NEW t, NEW base, Sound(st, base), Grown(st, t, base),
           NEW author, NEW host, ActsAs(st, author, host)
    PROVE  ActsAs(t, author, host)
    <1> DEFINE a == ActorId(st, author)
               h == st.ledger.actors[a].keyHeight
    <1>1. ActorNamed(t.ledger, author) /\ ActorId(t, author) = a
        BY GrownActorId DEF ActsAs
    <1>2. a \in DOMAIN st.ledger.actors /\ Subscribed(st.ledger, a)  BY DEF ActsAs, ActorsOf
    <1>3. PICK i \in Subscriptions(st, a) : IdentityAt(st, a, i) = host  BY DEF ActsAs, ActorsOf
    <1> HIDE DEF a
    <1>4. /\ Subscribed(t.ledger, a) /\ t.ledger.actors[a].keyHeight = h
          /\ a \in DOMAIN t.ledger.actors
        BY <1>2, CoversSubscribed DEF Grown, Subscribed, ActorDefined
    <1>5. h \in 1 .. st.height + 1 /\ st.height \in Nat /\ t.height = st.height
        BY <1>2, SubscriptionsFound DEF Grown, Sound, Formed
    <1> HIDE DEF h
    <1>6. \A j \in DOMAIN SectionsAt(st, h) : /\ j \in DOMAIN SectionsAt(t, h)
                                             /\ SectionsAt(t, h)[j] = SectionsAt(st, h)[j]
        <2>1. CASE h \in 1 .. st.height
            <3>1. SectionsAt(t, h) = SectionsAt(st, h)  BY <1>5, <2>1 DEF SectionsAt
            <3> QED  BY <3>1
        <2>2. CASE h \notin 1 .. st.height
            <3>1. h = st.height + 1  BY <1>5, <2>2
            <3>2. SectionsAt(t, h) = t.sections /\ SectionsAt(st, h) = st.sections
                BY <1>5, <2>2, <3>1 DEF SectionsAt
            <3> QED  BY <3>2 DEF Grown, Continues
        <2> QED  BY <2>1, <2>2
    <1>7. i \in Subscriptions(t, a) /\ IdentityAt(t, a, i) = host
        BY <1>3, <1>4, <1>6 DEF Subscriptions, IdentityAt, h
    <1>8. a \in ActorsOf(t, host)  BY <1>4, <1>7 DEF ActorsOf
    <1> QED  BY <1>1, <1>8 DEF ActsAs

\* A section that defines an actor gives nobody else a name.
LEMMA EffectNames ==
    ASSUME NEW s \in State, NEW sec, WellFormed(sec), sec.type = "actor", NEW height,
           NEW name, ActorNamed(Effect(s, sec, height), name)
    PROVE  ActorNamed(s, name) \/ name = sec.name
    <1> DEFINE t == Effect(s, sec, height)
    <1>1. s.actors \in Seq(Actor)  BY DEF State
    <1> HIDE DEF t
    <1>2. CASE t.actors = s.actors  BY <1>2 DEF ActorNamed, t
    <1>3. CASE t.actors = Append(s.actors, [name |-> sec.name, keyHeight |-> 0])
        <2> DEFINE actor == [name |-> sec.name, keyHeight |-> 0]
        <2>1. actor \in Actor /\ actor.name = sec.name  BY DEF WellFormed, Actor
        <2>2. t.actors = Append(s.actors, actor)  BY <1>3
        <2> HIDE DEF actor
        <2>3. \A b \in DOMAIN t.actors : \/ b \in DOMAIN s.actors /\ t.actors[b] = s.actors[b]
                                         \/ t.actors[b] = actor
            BY <1>1, <2>1, <2>2
        <2> QED  BY <2>1, <2>3 DEF ActorNamed, t
    <1> QED  BY <1>2, <1>3, EffectContents DEF SameContents, t

-----------------------------------------------------------------------------
(* The parts of a request *)

\* A section that defines an actor gives it its name.
LEMMA CreateActorSound ==
    ASSUME NEW st, NEW base, Sound(st, base), NEW name \in Names
    PROVE  /\ Grown(st, CreateActor(st, name), base)
           /\ CreateActor(st, name).threw \/ ActorNamed(CreateActor(st, name).ledger, name)
           /\ \A other : ActorNamed(CreateActor(st, name).ledger, other)
                         => ActorNamed(st.ledger, other) \/ other = name
    <1> DEFINE sec == [type |-> "actor", id |-> Len(st.ledger.actors) + 1, name |-> name]
               actor == [name |-> name, keyHeight |-> 0]
    <1>1. CASE ActorNamed(st.ledger, name)
        <2>1. CreateActor(st, name) = st  BY <1>1 DEF CreateActor
        <2> QED  BY <1>1, <2>1, GrownReflexive
    <1>2. CASE ~ActorNamed(st.ledger, name)
        <2>1. CreateActor(st, name) = Add(st, sec)  BY <1>2 DEF CreateActor
        <2>2. st.ledger.actors \in Seq(Actor) /\ Len(st.ledger.actors) \in Nat
              /\ st.ledger \in State
            BY DEF Sound, Formed, State
        <2>3. WellFormed(sec) /\ sec.type = "actor" /\ sec.name = name  BY <2>2 DEF WellFormed
        <2>4. Fits(st, base, sec)
            <3> HIDE DEF sec
            <3> QED  BY <2>3 DEF Fits, Fitting
        <2>5. /\ Grown(st, Add(st, sec), base)
              /\ \/ Add(st, sec).threw
                 \/ Add(st, sec) = Updated(st, sec) /\ ~Rejected(st.ledger, sec)
              /\ Add(st, sec).ledger \in {st.ledger, Effect(st.ledger, sec, st.height + 1)}
            BY <2>3, <2>4, AddSound
        <2>6. ASSUME Add(st, sec) = Updated(st, sec), ~Rejected(st.ledger, sec)
              PROVE  ActorNamed(Add(st, sec).ledger, name)
            <3>1. Updated(st, sec).ledger = Effect(st.ledger, sec, st.height + 1)
                BY UpdatedFields DEF Sound, Formed
            <3>2. Effect(st.ledger, sec, st.height + 1) = WithActor(st.ledger, sec)
                BY <2>6 DEF Effect, Rejected
            <3>3. WithActor(st.ledger, sec).actors = Append(st.ledger.actors, actor)
                <4> DEFINE actors == Append(st.ledger.actors, [name |-> sec.name, keyHeight |-> 0])
                <4>1. st.ledger \in State  BY <2>2
                <4>2. WithActor(st.ledger, sec) = [st.ledger EXCEPT !.actors = actors]
                    BY DEF WithActor
                <4>3. actors = Append(st.ledger.actors, actor)  OBVIOUS
                <4> HIDE DEF actors
                <4>4. [st.ledger EXCEPT !.actors = actors].actors = actors
                    BY <4>1 DEF State
                <4> QED  BY <4>2, <4>3, <4>4
            <3>4. Add(st, sec).ledger.actors = Append(st.ledger.actors, actor)
                BY <2>6, <3>1, <3>2, <3>3
            <3>5. \E a \in DOMAIN Append(st.ledger.actors, actor) :
                     Append(st.ledger.actors, actor)[a].name = name
                <4> DEFINE a == Len(st.ledger.actors) + 1
                <4>1. actor \in Actor  BY DEF Actor
                <4>2. /\ a \in DOMAIN Append(st.ledger.actors, actor)
                      /\ Append(st.ledger.actors, actor)[a] = actor
                    BY <2>2, <4>1
                <4> HIDE DEF a
                <4> QED  BY <4>2
            <3> QED  BY <3>4, <3>5 DEF ActorNamed
        <2>7. ASSUME NEW other, ActorNamed(Add(st, sec).ledger, other)
              PROVE  ActorNamed(st.ledger, other) \/ other = name
            <3> HIDE DEF sec
            <3> QED  BY <2>2, <2>3, <2>5, <2>7, EffectNames
        <2> QED  BY <2>1, <2>5, <2>6, <2>7
    <1> QED  BY <1>1, <1>2

\* An actor that is subscribed with the keys of an identity acts as it.
LEMMA SubscribeSound ==
    ASSUME NEW st, NEW base, Sound(st, base), NEW name, ActorNamed(st.ledger, name),
           NEW identity \in Identities
    PROVE  /\ Grown(st, Subscribe(st, name, identity), base)
           /\ \/ Subscribe(st, name, identity).threw
              \/ ActsAs(Subscribe(st, name, identity), name, identity)
    <1> DEFINE a == ActorId(st, name)
               sec == [type |-> "subscription", actor |-> a,
                       sig |-> Scheme, pke |-> Scheme, identity |-> identity]
               t == Add(st, sec)
               n == Len(st.sections) + 1
    <1>1. WellFormed(sec)  BY ActorIdDefined DEF WellFormed
    <1>2. /\ sec.type = "subscription" /\ sec.identity = identity /\ sec.actor = a
          /\ Subscribe(st, name, identity) = t
        BY DEF Subscribe
    <1>3. Fits(st, base, sec)
        <2> HIDE DEF sec
        <2> QED  BY <1>2 DEF Fits, Fitting
    <1> HIDE DEF sec, a
    <1>4. /\ Grown(st, t, base)
          /\ t.threw \/ (t = Updated(st, sec) /\ ~Rejected(st.ledger, sec))
          /\ t.sections = Append(st.sections, sec)
          /\ \E S : st.sections \in Seq(S) /\ sec \in S
        BY <1>1, <1>3, AddSound
    <1> HIDE DEF t
    <1>5. ASSUME t = Updated(st, sec), ~Rejected(st.ledger, sec)
          PROVE  ActsAs(t, name, identity)
        <2>1. st.ledger \in State /\ st.height \in Nat /\ st.height + 1 \in Nat \ {0}
            BY DEF Sound, Formed
        <2>2. t.ledger = Effect(st.ledger, sec, st.height + 1) /\ t.height = st.height
            BY <1>5, UpdatedFields DEF Sound, Formed
        <2>3. Subscribed(t.ledger, a) /\ t.ledger.actors[a].keyHeight = st.height + 1
            BY <1>1, <1>2, <1>5, <2>1, <2>2, SubscriptionSubscribes
        <2>4. SectionsAt(t, st.height + 1) = Append(st.sections, sec)
            <3>1. st.height + 1 \notin 1 .. t.height /\ st.height + 1 = t.height + 1
                BY <2>1, <2>2
            <3> QED  BY <1>4, <3>1 DEF SectionsAt
        <2>5. n \in DOMAIN Append(st.sections, sec) /\ Append(st.sections, sec)[n] = sec
            BY <1>4
        <2> HIDE DEF n
        <2>6. n \in Subscriptions(t, a) /\ IdentityAt(t, a, n) = identity
            BY <1>2, <2>3, <2>4, <2>5 DEF Subscriptions, IdentityAt
        <2>7. a \in ActorsOf(t, identity)
            BY <2>3, <2>6 DEF ActorsOf, Subscribed, ActorDefined
        <2>8. ActorNamed(t.ledger, name) /\ ActorId(t, name) = a
            BY <1>4, GrownActorId DEF a
        <2> QED  BY <2>7, <2>8 DEF ActsAs
    <1> QED  BY <1>2, <1>4, <1>5

\* Before the author is checked: the ledger is new, or the author acts as the host, or is
\* not there and none of those that are created.
Prepared(st, author, host, names) ==
    \/ st.height = 0
    \/ ActsAs(st, author, host)
    \/ ~ActorNamed(st.ledger, author) /\ author \notin names

\* What comes after the author is checked can count on the keys.
LEMMA CheckAuthorSound ==
    ASSUME NEW st, NEW base, Sound(st, base), NEW author, NEW host \in Identities, NEW names,
           Prepared(st, author, host, names)
    PROVE  /\ Grown(st, CheckAuthor(st, author, host), base)
           /\ \/ CheckAuthor(st, author, host).threw
              \/ ActsAs(CheckAuthor(st, author, host), author, host)
    <1>1. CASE ~ActorNamed(st.ledger, author)
        BY <1>1, FailSound DEF CheckAuthor
    <1>2. CASE ActorNamed(st.ledger, author) /\ st.height = 0
        BY <1>2, SubscribeSound DEF CheckAuthor
    <1>3. CASE ActorNamed(st.ledger, author) /\ st.height # 0
        BY <1>3, GrownReflexive DEF CheckAuthor, Prepared
    <1> QED  BY <1>1, <1>2, <1>3

LEMMA CreateChannelSound ==
    ASSUME NEW st, NEW base, Sound(st, base), NEW name \in Names,
           NEW author, NEW host, ActsAs(st, author, host)
    PROVE  Grown(st, CreateChannel(st, name, author), base)
    <1> DEFINE sec == [type |-> "channel", id |-> Len(st.ledger.channels) + 1, name |-> name,
                       creator |-> ActorId(st, author)]
    <1>1. st.ledger.channels \in Seq(Channel) /\ Len(st.ledger.channels) \in Nat
        BY DEF Sound, Formed, State
    <1>2. WellFormed(sec)  BY <1>1, ActorIdDefined DEF WellFormed, ActsAs
    <1>3. Fits(st, base, sec)
        <2>1. sec.type = "channel" /\ sec.creator = ActorId(st, author)  OBVIOUS
        <2> HIDE DEF sec
        <2>2. Subscribed(st.ledger, sec.creator)  BY <2>1 DEF ActsAs, ActorsOf
        <2>3. ASSUME Accepts(base, st.sections, st.height + 1)
              PROVE  Subscribed(Replayed(st, base), sec.creator)
            <3>1. Covers(Replayed(st, base), st.ledger)  BY <2>3 DEF Sound, Kept
            <3> QED  BY <2>2, <3>1, CoversSubscribed
        <2> QED  BY <2>1, <2>3 DEF Fits, Fitting
    <1>4. Grown(st, Add(st, sec), base)  BY <1>2, <1>3, AddSound
    <1> QED  BY <1>4 DEF CreateChannel

\* The key that the host recovers is the channel's, and it is encrypted for the guest's.
LEMMA InviteSound ==
    ASSUME NEW st, NEW base, Sound(st, base), NEW guest \in Nat,
           NEW channel \in DOMAIN st.ledger.channels, channel \in Nat,
           ~IsActorInChannel(st, channel, guest),
           NEW host \in Identities, NEW hostActor \in ActorsOf(st, host)
    PROVE  Grown(st, Invite(st, guest, channel, hostActor, host), base)
    <1> DEFINE keys == KeysFor(st, hostActor, channel, host)
               key == CHOOSE k \in keys : TRUE
               sec == [type |-> "invitation", guest |-> guest, channel |-> channel,
                       host |-> hostActor, encrypted |-> [for |-> KeyOf(st, guest), key |-> key]]
    <1>1. WellFormed(sec)  BY DEF WellFormed
    <1>2. CASE keys = {} \/ ~Subscribed(st.ledger, guest)
        <2>1. Invite(st, guest, channel, hostActor, host) = Fail(st)
            BY <1>2, Zenon DEF Invite
        <2> QED  BY <2>1, FailSound
    <1>3. CASE keys # {} /\ Subscribed(st.ledger, guest)
        <2>1. Invite(st, guest, channel, hostActor, host) = Add(st, sec)
            BY <1>3, Zenon DEF Invite
        <2>2. /\ sec.type = "invitation" /\ sec.guest = guest /\ sec.channel = channel
              /\ sec.encrypted = [for |-> KeyOf(st, guest), key |-> key]
              /\ sec.encrypted.for = KeyOf(st, guest) /\ sec.encrypted.key = key
            OBVIOUS
        <2>3. key \in keys  BY <1>3
        <2> HIDE DEF sec, key
        <2>4. ASSUME Accepts(base, st.sections, st.height + 1)
              PROVE  RightInvitation(Replayed(st, base), View(chain, st), sec)
            <3> DEFINE t == Replayed(st, base)
                       at == View(chain, st)
            <3>1. HasKeysOf(t, at, guest, KeyOf(st, guest))  BY <1>3, <2>4, KeysOfActor
            <3>2. IsKeyOfChannel(t, at, channel, key)  BY <2>3, <2>4, KeysForRight
            <3>3. t.channels[channel] = st.ledger.channels[channel]  BY <2>4, ChannelFound
            <3> HIDE DEF t, at
            <3>4. guest # t.channels[channel].creator  BY <3>3 DEF IsActorInChannel
            <3>5. RightInvitation(t, at, sec)  BY <2>2, <3>1, <3>2, <3>4 DEF RightInvitation
            <3> QED  BY <3>5 DEF t, at
        <2>5. InvitationsOf(st, guest, channel) = {}  BY DEF IsActorInChannel
        <2>6. Fits(st, base, sec)  BY <2>2, <2>4, <2>5 DEF Fits, Fitting
        <2>7. Grown(st, Add(st, sec), base)
            <3>1. WellFormed(sec)  BY <1>1 DEF sec, key
            <3> QED  BY <2>6, <3>1, AddSound
        <2> QED  BY <2>1, <2>7 DEF sec, key
    <1> QED  BY <1>2, <1>3

LEMMA AssignActorSound ==
    ASSUME NEW st, NEW base, Sound(st, base), NEW actorName, NEW channelName,
           NEW host \in Identities
    PROVE  Grown(st, AssignActor(st, actorName, channelName, host), base)
    <1> DEFINE t == AssignActor(st, actorName, channelName, host)
               guest == ActorId(st, actorName)
               channel == ChannelId(st, channelName)
               hostActor == ActingActor(st, host)
    <1>1. CASE \/ ~ActorNamed(st.ledger, actorName)
               \/ ActorsOf(st, host) = {}
               \/ ~ChannelNamed(st.ledger, channelName)
        <2>1. t = Fail(st)  BY <1>1, Zenon DEF AssignActor
        <2> QED  BY <2>1, FailSound
    <1>2. CASE /\ ActorNamed(st.ledger, actorName)
               /\ ActorsOf(st, host) # {}
               /\ ChannelNamed(st.ledger, channelName)
        <2>1. /\ guest \in Nat
              /\ channel \in DOMAIN st.ledger.channels /\ channel \in Nat
            BY <1>2, ActorIdDefined, ChannelIdDefined
        <2>2. hostActor \in ActorsOf(st, host)
            <3>1. st.ledger.actors \in Seq(Actor)  BY DEF Sound, Formed, State
            <3>2. DOMAIN st.ledger.actors \in SUBSET Nat  BY <3>1
            <3>3. ActorsOf(st, host) \in SUBSET Nat  BY <3>2 DEF ActorsOf
            <3> QED  BY <1>2, <3>3, LeastIn DEF ActingActor
        <2>3. CASE IsActorInChannel(st, channel, guest) \/ hostActor = guest
            <3>1. t = st  BY <1>2, <2>3, Zenon DEF AssignActor
            <3> QED  BY <3>1, GrownReflexive
        <2>4. CASE ~IsActorInChannel(st, channel, guest) /\ hostActor # guest
            <3>1. t = Invite(st, guest, channel, hostActor, host)
                BY <1>2, <2>4, Zenon DEF AssignActor
            <3> HIDE DEF t, guest, channel, hostActor
            <3>2. Grown(st, Invite(st, guest, channel, hostActor, host), base)
                BY <2>1, <2>2, <2>4, InviteSound
            <3> QED  BY <3>1, <3>2 DEF t
        <2> QED  BY <2>3, <2>4
    <1> QED  BY <1>1, <1>2

\* The author posts under the channel's key.
LEMMA PostDataSound ==
    ASSUME NEW st, NEW base, Sound(st, base), NEW channel \in DOMAIN st.ledger.channels,
           NEW author, NEW host \in Identities, ActsAs(st, author, host)
    PROVE  Grown(st, PostData(st, channel, author, host), base)
    <1> DEFINE keys == KeysFor(st, ActorId(st, author), channel, host)
               clear == [type |-> "data", channel |-> channel, keys |-> {}]
               secret == [type |-> "data", channel |-> channel, keys |-> keys]
    <1>1. PostData(st, channel, author, host) \in {Add(st, clear), Add(st, secret), Fail(st)}
        BY Zenon DEF PostData
    <1>2. ASSUME Accepts(base, st.sections, st.height + 1), NEW key \in keys
          PROVE  IsKeyOfChannel(Replayed(st, base), View(chain, st), channel, key)
        BY <1>2, KeysForRight DEF ActsAs
    <1> HIDE DEF keys
    <1>3. WellFormed(clear) /\ WellFormed(secret)  BY DEF WellFormed
    <1>4. /\ clear.type = "data" /\ clear.keys = {}
          /\ secret.type = "data" /\ secret.keys = keys /\ secret.channel = channel
        OBVIOUS
    <1> HIDE DEF clear, secret
    <1>5. Fits(st, base, clear)  BY <1>4 DEF Fits, Fitting
    <1>6. Fits(st, base, secret)  BY <1>2, <1>4 DEF Fits, Fitting
    <1>7. Grown(st, Add(st, clear), base) /\ Grown(st, Add(st, secret), base)
        BY <1>3, <1>5, <1>6, AddSound
    <1> QED  BY <1>1, <1>7, FailSound

LEMMA AskEndorsementSound ==
    ASSUME NEW st, NEW base, Sound(st, base), NEW endorser
    PROVE  Grown(st, AskEndorsement(st, endorser), base)
    <1> DEFINE sec == [type |-> "endorsement", actor |-> ActorId(st, endorser)]
    <1>1. AskEndorsement(st, endorser) \in {Fail(st), Add(st, sec)}
        BY Zenon DEF AskEndorsement
    <1>2. WellFormed(sec) /\ sec.type = "endorsement"  BY DEF WellFormed
    <1> HIDE DEF sec
    <1>3. Fits(st, base, sec)  BY <1>2 DEF Fits, Fitting
    <1>4. Grown(st, Add(st, sec), base)  BY <1>2, <1>3, AddSound
    <1> QED  BY <1>1, <1>4, FailSound

-----------------------------------------------------------------------------
(* The channels of a request, one after the other *)

\* p lists the builders that the first n channels leave.
Posts(p, st, names, author, host, n) ==
    /\ p = [c \in 0 .. n |-> p[c]]
    /\ p[0] = st
    /\ \A c \in 1 .. n :
         p[c] = IF p[c - 1].threw \/ st.ledger.channels[c].name \notin names THEN p[c - 1]
                ELSE PostData(p[c - 1], c, author, host)

\* The recursive function in the definition of PostAll exists.
LEMMA PostsExist ==
    ASSUME NEW st, NEW names, NEW author, NEW host, NEW n \in Nat
    PROVE  \E p : Posts(p, st, names, author, host, n)
    <1> DEFINE S == {m \in 0 .. n : \E p : Posts(p, st, names, author, host, m)}
    <1>1. 0 \in S
        <2>1. Posts([c \in 0 .. 0 |-> st], st, names, author, host, 0)  BY DEF Posts
        <2> QED  BY <2>1
    <1>2. ASSUME NEW m \in 0 .. n - 1, m \in S PROVE m + 1 \in S
        <2>1. PICK p : Posts(p, st, names, author, host, m)  BY <1>2
        <2> DEFINE next == IF p[m].threw \/ st.ledger.channels[m + 1].name \notin names THEN p[m]
                           ELSE PostData(p[m], m + 1, author, host)
                   q == [c \in 0 .. m + 1 |-> IF c <= m THEN p[c] ELSE next]
        <2>2. q = [c \in 0 .. m + 1 |-> q[c]] /\ q[0] = st  BY <2>1 DEF Posts
        <2>3. ASSUME NEW c \in 1 .. m + 1
              PROVE  q[c] = IF q[c - 1].threw \/ st.ledger.channels[c].name \notin names
                            THEN q[c - 1]
                            ELSE PostData(q[c - 1], c, author, host)
            <3>1. CASE c <= m
                <4>1. c \in 1 .. m /\ c - 1 \in 0 .. m + 1 /\ c - 1 <= m  BY <3>1
                <4>2. q[c] = p[c] /\ q[c - 1] = p[c - 1]  BY <4>1
                <4> HIDE DEF q
                <4> QED  BY <2>1, <4>1, <4>2 DEF Posts
            <3>2. CASE c = m + 1
                <4>1. q[c] = next /\ c - 1 = m /\ q[c - 1] = p[m]  BY <3>2
                <4> HIDE DEF q
                <4> QED  BY <3>2, <4>1
            <3> QED  BY <3>1, <3>2
        <2> HIDE DEF q
        <2>4. Posts(q, st, names, author, host, m + 1)  BY <2>2, <2>3 DEF Posts
        <2> QED  BY <2>4
    <1>3. 0 .. n \subseteq S
        <2> HIDE DEF S
        <2> QED  BY <1>1, <1>2, IntervalInduction
    <1>4. n \in S  BY <1>3
    <1> QED  BY <1>4

LEMMA PostAllSteps ==
    ASSUME NEW st, NEW base, Sound(st, base), NEW names, NEW author, NEW host
    PROVE  \/ PostAll(st, names, author, host) = Fail(st)
           \/ \E p : /\ Posts(p, st, names, author, host, Len(st.ledger.channels))
                     /\ PostAll(st, names, author, host) = p[Len(st.ledger.channels)]
    <1> DEFINE n == Len(st.ledger.channels)
               Is(f) == f = [c \in 0 .. n |->
                               IF c = 0 THEN st
                               ELSE IF f[c - 1].threw \/ st.ledger.channels[c].name \notin names
                                    THEN f[c - 1]
                               ELSE PostData(f[c - 1], c, author, host)]
               posted == CHOOSE f : Is(f)
    <1>1. n \in Nat  BY DEF Sound, Formed, State
    <1>2. PostAll(st, names, author, host) = IF \E m \in names : ~ChannelNamed(st.ledger, m)
                                             THEN Fail(st) ELSE posted[n]
        BY DEF PostAll
    <1> HIDE DEF n
    <1>3. PICK p : Posts(p, st, names, author, host, n)  BY <1>1, PostsExist
    <1>4. Is(p)
        <2> DEFINE q == [c \in 0 .. n |->
                           IF c = 0 THEN st
                           ELSE IF p[c - 1].threw \/ st.ledger.channels[c].name \notin names
                                THEN p[c - 1]
                           ELSE PostData(p[c - 1], c, author, host)]
        <2>1. p = [c \in 0 .. n |-> p[c]]  BY <1>3 DEF Posts
        <2>2. ASSUME NEW c \in 0 .. n PROVE p[c] = q[c]
            <3>1. CASE c = 0  BY <1>1, <1>3, <3>1 DEF Posts
            <3>2. CASE c # 0
                <4>1. c \in 1 .. n  BY <1>1, <3>2
                <4> QED  BY <1>3, <3>2, <4>1 DEF Posts
            <3> QED  BY <3>1, <3>2
        <2>3. q = [c \in 0 .. n |-> q[c]]  OBVIOUS
        <2>4. p = q
            <3> HIDE DEF q
            <3> QED  BY <2>1, <2>2, <2>3
        <2> QED  BY <2>4
    <1>5. Is(posted)
        <2> HIDE DEF Is
        <2> QED  BY <1>4
    <1>6. Posts(posted, st, names, author, host, n)
        <2> HIDE DEF posted
        <2>1. posted = [c \in 0 .. n |-> posted[c]]  BY <1>5
        <2>2. posted[0] = st  BY <1>1, <1>5
        <2>3. ASSUME NEW c \in 1 .. n
              PROVE  posted[c] = IF posted[c - 1].threw \/ st.ledger.channels[c].name \notin names
                                 THEN posted[c - 1]
                                 ELSE PostData(posted[c - 1], c, author, host)
            <3>1. c \in 0 .. n /\ c # 0  BY <1>1
            <3> QED  BY <1>5, <3>1
        <2> QED  BY <2>1, <2>2, <2>3 DEF Posts
    <1> HIDE DEF posted
    <1> QED  BY <1>2, <1>6 DEF n

LEMMA PostAllSound ==
    ASSUME NEW st, NEW base, Sound(st, base), NEW names, NEW author,
           NEW host \in Identities, ActsAs(st, author, host)
    PROVE  Grown(st, PostAll(st, names, author, host), base)
    <1>1. CASE PostAll(st, names, author, host) = Fail(st)  BY <1>1, FailSound
    <1>2. CASE \E p : /\ Posts(p, st, names, author, host, Len(st.ledger.channels))
                      /\ PostAll(st, names, author, host) = p[Len(st.ledger.channels)]
        <2> DEFINE n == Len(st.ledger.channels)
        <2>1. PICK p : /\ Posts(p, st, names, author, host, n)
                       /\ PostAll(st, names, author, host) = p[n]
            BY <1>2
        <2>2. n \in Nat /\ DOMAIN st.ledger.channels = 1 .. n  BY DEF Sound, Formed, State
        <2> HIDE DEF n
        <2> DEFINE S == {c \in 0 .. n : Grown(st, p[c], base)}
        <2>3. 0 \in S  BY <2>1, <2>2, GrownReflexive DEF Posts
        <2>4. ASSUME NEW c \in 0 .. n - 1, c \in S PROVE c + 1 \in S
            <3> DEFINE next == PostData(p[c], c + 1, author, host)
            <3>1. c + 1 \in 1 .. n /\ (c + 1) - 1 = c /\ c + 1 \in 0 .. n  BY <2>2
            <3>2. p[c + 1] \in {p[c], next}
                <4> HIDE DEF next
                <4>1. p[c + 1] = IF p[c].threw \/ st.ledger.channels[c + 1].name \notin names
                                 THEN p[c] ELSE next
                    BY <2>1, <3>1 DEF Posts, next
                <4> QED  BY <4>1
            <3>3. Grown(st, p[c], base) /\ Sound(p[c], base)  BY <2>4 DEF Grown
            <3>4. Grown(p[c], next, base)
                <4>1. c + 1 \in DOMAIN p[c].ledger.channels
                    BY <2>2, <3>1, <3>3 DEF Grown, Covers
                <4>2. ActsAs(p[c], author, host)  BY <3>3, GrownActs
                <4> QED  BY <3>3, <4>1, <4>2, PostDataSound
            <3>5. Grown(st, next, base)  BY <3>3, <3>4, GrownTransitive
            <3> HIDE DEF next
            <3> QED  BY <3>1, <3>2, <3>3, <3>5
        <2>5. 0 .. n \subseteq S
            <3> HIDE DEF S
            <3> QED  BY <2>2, <2>3, <2>4, IntervalInduction
        <2>6. Grown(st, p[n], base)  BY <2>2, <2>5
        <2> QED  BY <2>1, <2>6
    <1> QED  BY <1>1, <1>2, PostAllSteps

-----------------------------------------------------------------------------
(* What there is to do *)

Later == [do : {"channel", "endorse"}, name : Names] \cup [do : {"data"}]
         \cup [do : {"assign"}, actor : Names, channel : Names]
Task == [do : {"actor"}, name : Names] \cup [do : {"author"}] \cup Later

\* todo: first actors of those names, then at m the author, then the rest.
Arranged(todo, m, names) ==
    /\ todo \in Seq(Task) /\ m \in 1 .. Len(todo)
    /\ \A i \in 1 .. m - 1 : todo[i] \in [do : {"actor"}, name : names]
    /\ todo[m].do = "author"
    /\ \A i \in m + 1 .. Len(todo) : todo[i] \in Later

LEMMA ArrangedThen ==
    ASSUME NEW todo, NEW m, NEW names, Arranged(todo, m, names), NEW more \in Seq(Later)
    PROVE  Arranged(todo \o more, m, names)
    <1> DEFINE t == todo \o more
               n == Len(todo)
    <1>1. todo \in Seq(Task) /\ more \in Seq(Task) /\ m \in 1 .. n /\ n \in Nat
        BY DEF Arranged, Task
    <1>2. /\ t \in Seq(Task) /\ Len(t) = n + Len(more) /\ Len(more) \in Nat
          /\ \A i \in 1 .. n : t[i] = todo[i]
          /\ \A i \in n + 1 .. Len(t) : t[i] = more[i - n]
        BY <1>1
    <1> HIDE DEF t, n
    <1>3. ASSUME NEW i \in m + 1 .. Len(t) PROVE t[i] \in Later
        <2>1. CASE i <= n
            <3>1. i \in 1 .. n /\ i \in m + 1 .. n  BY <1>1, <1>2, <2>1
            <3> QED  BY <1>2, <3>1 DEF Arranged, n
        <2>2. CASE i > n
            <3>1. i \in n + 1 .. Len(t) /\ i - n \in 1 .. Len(more)  BY <1>1, <1>2, <2>2
            <3> QED  BY <1>2, <3>1
        <2> QED  BY <1>1, <2>1, <2>2
    <1>4. /\ m \in 1 .. Len(t) /\ m \in 1 .. n
          /\ \A i \in 1 .. m - 1 : i \in 1 .. n
        BY <1>1, <1>2
    <1>5. /\ \A i \in 1 .. m - 1 : t[i] \in [do : {"actor"}, name : names]
          /\ t[m].do = "author"
        BY <1>2, <1>4 DEF Arranged
    <1>6. Arranged(t, m, names)  BY <1>2, <1>3, <1>4, <1>5 DEF Arranged
    <1> QED  BY <1>6 DEF t

LEMMA TodoArranged ==
    ASSUME NEW r \in Requests
    PROVE  \E m : Arranged(Todo(r), m, ToSet(r.actors)) /\ ToSet(r.actors) \subseteq Names
    <1> DEFINE actors == [i \in DOMAIN r.actors |-> [do |-> "actor", name |-> r.actors[i]]]
               channels == [i \in DOMAIN r.channels |-> [do |-> "channel", name |-> r.channels[i]]]
               assign == [i \in DOMAIN r.assign |->
                            [do |-> "assign", actor |-> r.assign[i][1], channel |-> r.assign[i][2]]]
               data == <<[do |-> "data"]>>
               endorser == [i \in DOMAIN r.endorser |-> [do |-> "endorse", name |-> r.endorser[i]]]
               author == <<[do |-> "author"]>>
               first == actors \o author
               m == Len(actors) + 1
               names == ToSet(r.actors)
    <1>1. /\ r.actors \in Seq(Names) /\ r.channels \in Seq(Names)
          /\ r.assign \in Seq(Names \X Names) /\ r.endorser \in Seq(Names)
        BY RequestsAssumption
    <1>2. /\ actors \in Seq(Task) /\ names \subseteq Names
          /\ \A i \in 1 .. Len(actors) : actors[i] \in [do : {"actor"}, name : names]
        <2>1. \A i \in DOMAIN r.actors : r.actors[i] \in names  BY DEF ToSet
        <2>2. \A i \in DOMAIN r.actors : actors[i] \in [do : {"actor"}, name : names]
            <3> HIDE DEF names
            <3> QED  BY <2>1
        <2>3. DOMAIN r.actors = 1 .. Len(r.actors) /\ Len(r.actors) \in Nat  BY <1>1
        <2>4. names \subseteq Names  BY <1>1 DEF ToSet
        <2> HIDE DEF names
        <2>5. actors \in [1 .. Len(r.actors) -> [do : {"actor"}, name : names]]  BY <2>2, <2>3
        <2> HIDE DEF actors
        <2>6. actors \in [1 .. Len(r.actors) -> Task]  BY <2>4, <2>5 DEF Task
        <2> QED  BY <2>3, <2>4, <2>5, <2>6
    <1>3. channels \in Seq(Later)
        <2>1. \A i \in DOMAIN r.channels : r.channels[i] \in Names  BY <1>1
        <2>2. \A i \in DOMAIN r.channels : channels[i] \in Later
            BY <2>1 DEF Later
        <2>3. DOMAIN r.channels = 1 .. Len(r.channels) /\ Len(r.channels) \in Nat  BY <1>1
        <2>4. channels \in [1 .. Len(r.channels) -> Later]  BY <2>2, <2>3
        <2> HIDE DEF channels
        <2> QED  BY <2>3, <2>4
    <1>4. assign \in Seq(Later)
        <2>1. \A i \in DOMAIN r.assign : r.assign[i][1] \in Names /\ r.assign[i][2] \in Names
            BY <1>1
        <2>2. \A i \in DOMAIN r.assign : assign[i] \in Later
            BY <2>1 DEF Later
        <2>3. DOMAIN r.assign = 1 .. Len(r.assign) /\ Len(r.assign) \in Nat  BY <1>1
        <2>4. assign \in [1 .. Len(r.assign) -> Later]  BY <2>2, <2>3
        <2> HIDE DEF assign
        <2> QED  BY <2>3, <2>4
    <1>5. data \in Seq(Later)
        <2>1. [do |-> "data"] \in Later  BY DEF Later
        <2> QED  BY <2>1
    <1>6. endorser \in Seq(Later)
        <2>1. \A i \in DOMAIN r.endorser : r.endorser[i] \in Names  BY <1>1
        <2>2. \A i \in DOMAIN r.endorser : endorser[i] \in Later
            BY <2>1 DEF Later
        <2>3. DOMAIN r.endorser = 1 .. Len(r.endorser) /\ Len(r.endorser) \in Nat  BY <1>1
        <2>4. endorser \in [1 .. Len(r.endorser) -> Later]  BY <2>2, <2>3
        <2> HIDE DEF endorser
        <2> QED  BY <2>3, <2>4
    <1>7. Todo(r) = first \o channels \o assign \o data \o endorser
        BY Zenon DEF Todo
    <1> HIDE DEF channels, assign, data, endorser
    <1>8. Arranged(first, m, names)
        <2>1. actors \in Seq(Task)  BY <1>2
        <2>2. [do |-> "author"] \in Task  BY DEF Task
        <2>3. /\ first \in Seq(Task) /\ Len(first) = m /\ m \in 1 .. Len(first)
              /\ \A i \in 1 .. m - 1 : first[i] = actors[i] /\ i \in 1 .. Len(actors)
              /\ first[m] = [do |-> "author"]
            <3> HIDE DEF actors
            <3> QED  BY <2>1, <2>2
        <2>4. first[m].do = "author"  BY <2>3
        <2>5. \A i \in 1 .. m - 1 : first[i] \in [do : {"actor"}, name : names]
            <3> HIDE DEF actors, first, m, names
            <3>1. \A i \in 1 .. Len(actors) : actors[i] \in [do : {"actor"}, name : names]
                BY <1>2
            <3> QED  BY <2>3, <3>1
        <2>6. \A i \in m + 1 .. Len(first) : FALSE
            <3> HIDE DEF first
            <3>1. m \in Nat  BY <2>3, <1>2
            <3> HIDE DEF m
            <3> QED  BY <2>3, <3>1
        <2> HIDE DEF first, m, names
        <2> QED  BY <2>3, <2>4, <2>5, <2>6 DEF Arranged
    <1> HIDE DEF first, m, names
    <1>9. Arranged(first \o channels, m, names)  BY <1>3, <1>8, ArrangedThen
    <1>10. Arranged(first \o channels \o assign, m, names)  BY <1>4, <1>9, ArrangedThen
    <1>11. Arranged(first \o channels \o assign \o data, m, names)  BY <1>5, <1>10, ArrangedThen
    <1>12. Arranged(Todo(r), m, names)  BY <1>6, <1>7, <1>11, ArrangedThen
    <1> QED  BY <1>2, <1>12 DEF names

-----------------------------------------------------------------------------
(* A request *)

\* p lists the builders that the first n tasks leave.
Works(p, st, r, host, n) ==
    /\ p = [i \in 0 .. n |-> p[i]]
    /\ p[0] = st
    /\ \A i \in 1 .. n : p[i] = Do(p[i - 1], Todo(r)[i], r, host)

\* The recursive function in the definition of Built exists.
LEMMA WorksExist ==
    ASSUME NEW st, NEW r, NEW host, NEW n \in Nat
    PROVE  \E p : Works(p, st, r, host, n)
    <1> DEFINE S == {m \in 0 .. n : \E p : Works(p, st, r, host, m)}
    <1>1. 0 \in S
        <2>1. Works([i \in 0 .. 0 |-> st], st, r, host, 0)  BY DEF Works
        <2> QED  BY <2>1
    <1>2. ASSUME NEW m \in 0 .. n - 1, m \in S PROVE m + 1 \in S
        <2>1. PICK p : Works(p, st, r, host, m)  BY <1>2
        <2> DEFINE next == Do(p[m], Todo(r)[m + 1], r, host)
                   q == [i \in 0 .. m + 1 |-> IF i <= m THEN p[i] ELSE next]
        <2>2. q = [i \in 0 .. m + 1 |-> q[i]] /\ q[0] = st  BY <2>1 DEF Works
        <2>3. ASSUME NEW i \in 1 .. m + 1
              PROVE  q[i] = Do(q[i - 1], Todo(r)[i], r, host)
            <3>1. CASE i <= m
                <4>1. i \in 1 .. m /\ i - 1 \in 0 .. m + 1 /\ i - 1 <= m  BY <3>1
                <4>2. q[i] = p[i] /\ q[i - 1] = p[i - 1]  BY <4>1
                <4> HIDE DEF q
                <4> QED  BY <2>1, <4>1, <4>2 DEF Works
            <3>2. CASE i = m + 1
                <4>1. q[i] = next /\ i - 1 = m /\ q[i - 1] = p[m]  BY <3>2
                <4> HIDE DEF q
                <4> QED  BY <3>2, <4>1
            <3> QED  BY <3>1, <3>2
        <2> HIDE DEF q
        <2>4. Works(q, st, r, host, m + 1)  BY <2>2, <2>3 DEF Works
        <2> QED  BY <2>4
    <1>3. 0 .. n \subseteq S
        <2> HIDE DEF S
        <2> QED  BY <1>1, <1>2, IntervalInduction
    <1>4. n \in S  BY <1>3
    <1> QED  BY <1>4

LEMMA BuiltSteps ==
    ASSUME NEW st, NEW r, NEW host, Len(Todo(r)) \in Nat
    PROVE  \E p : /\ Works(p, st, r, host, Len(Todo(r)))
                  /\ Built(st, r, host) = p[Len(Todo(r))]
    <1> DEFINE n == Len(Todo(r))
               Is(f) == f = [i \in 0 .. n |->
                               IF i = 0 THEN st ELSE Do(f[i - 1], Todo(r)[i], r, host)]
               done == CHOOSE f : Is(f)
    <1>1. Built(st, r, host) = done[n]  BY DEF Built
    <1>2. n \in Nat  OBVIOUS
    <1> HIDE DEF n
    <1>3. PICK p : Works(p, st, r, host, n)  BY <1>2, WorksExist
    <1>4. Is(p)
        <2> DEFINE q == [i \in 0 .. n |-> IF i = 0 THEN st ELSE Do(p[i - 1], Todo(r)[i], r, host)]
        <2>1. p = [i \in 0 .. n |-> p[i]]  BY <1>3 DEF Works
        <2>2. ASSUME NEW i \in 0 .. n PROVE p[i] = q[i]
            <3>1. CASE i = 0  BY <1>2, <1>3, <3>1 DEF Works
            <3>2. CASE i # 0
                <4>1. i \in 1 .. n  BY <1>2, <3>2
                <4> QED  BY <1>3, <3>2, <4>1 DEF Works
            <3> QED  BY <3>1, <3>2
        <2>3. q = [i \in 0 .. n |-> q[i]]  OBVIOUS
        <2>4. p = q
            <3> HIDE DEF q
            <3> QED  BY <2>1, <2>2, <2>3
        <2> QED  BY <2>4
    <1>5. Is(done)
        <2> HIDE DEF Is
        <2> QED  BY <1>4
    <1>6. Works(done, st, r, host, n)
        <2> HIDE DEF done
        <2>1. done = [i \in 0 .. n |-> done[i]]  BY <1>5
        <2>2. done[0] = st  BY <1>2, <1>5
        <2>3. ASSUME NEW i \in 1 .. n
              PROVE  done[i] = Do(done[i - 1], Todo(r)[i], r, host)
            <3>1. i \in 0 .. n /\ i # 0  BY <1>2
            <3> QED  BY <1>5, <3>1
        <2> QED  BY <2>1, <2>2, <2>3 DEF Works
    <1> HIDE DEF done
    <1> QED  BY <1>1, <1>6 DEF n

\* Each task, where it comes.
LEMMA ActorTask ==
    ASSUME NEW st, NEW base, Sound(st, base), NEW r, NEW host, NEW names \in SUBSET Names,
           NEW task \in [do : {"actor"}, name : names], Prepared(st, r.author, host, names)
    PROVE  /\ Grown(st, Do(st, task, r, host), base)
           /\ Prepared(Do(st, task, r, host), r.author, host, names)
    <1>1. CASE st.threw
        <2>1. Do(st, task, r, host) = st  BY <1>1, Zenon DEF Do
        <2> QED  BY <2>1, GrownReflexive
    <1>2. CASE ~st.threw
        <2> DEFINE t == CreateActor(st, task.name)
        <2>1. Do(st, task, r, host) = t  BY <1>2 DEF Do
        <2>2. task.name \in names /\ task.name \in Names  OBVIOUS
        <2>3. /\ Grown(st, t, base)
              /\ \A other : ActorNamed(t.ledger, other) => ActorNamed(st.ledger, other) \/ other = task.name
            BY <2>2, CreateActorSound
        <2> HIDE DEF t
        <2>4. CASE st.height = 0  BY <2>1, <2>3, <2>4 DEF Grown, Prepared
        <2>5. CASE ActsAs(st, r.author, host)
            <3>1. ActsAs(t, r.author, host)  BY <2>3, <2>5, GrownActs
            <3> QED  BY <2>1, <2>3, <3>1 DEF Prepared
        <2>6. CASE ~ActorNamed(st.ledger, r.author) /\ r.author \notin names
            BY <2>1, <2>2, <2>3, <2>6 DEF Prepared
        <2> QED  BY <2>4, <2>5, <2>6 DEF Prepared
    <1> QED  BY <1>1, <1>2

LEMMA AuthorTask ==
    ASSUME NEW st, NEW base, Sound(st, base), NEW r, NEW host \in Identities, NEW names,
           NEW task, task.do = "author", Prepared(st, r.author, host, names)
    PROVE  /\ Grown(st, Do(st, task, r, host), base)
           /\ \/ Do(st, task, r, host).threw
              \/ ActsAs(Do(st, task, r, host), r.author, host)
    <1>1. CASE st.threw
        <2>1. Do(st, task, r, host) = st  BY <1>1 DEF Do
        <2> QED  BY <1>1, <2>1, GrownReflexive
    <1>2. CASE ~st.threw
        <2>1. Do(st, task, r, host) = CheckAuthor(st, r.author, host)  BY <1>2 DEF Do
        <2> QED  BY <2>1, CheckAuthorSound
    <1> QED  BY <1>1, <1>2

LEMMA LaterTask ==
    ASSUME NEW st, NEW base, Sound(st, base), NEW r, NEW host \in Identities,
           NEW task \in Later, st.threw \/ ActsAs(st, r.author, host)
    PROVE  Grown(st, Do(st, task, r, host), base)
    <1>1. CASE st.threw
        <2>1. Do(st, task, r, host) = st  BY <1>1 DEF Do
        <2> QED  BY <2>1, GrownReflexive
    <1>2. CASE ~st.threw /\ task.do = "channel"
        <2>1. Do(st, task, r, host) = CreateChannel(st, task.name, r.author)  BY <1>2 DEF Do
        <2>2. task.name \in Names  BY <1>2 DEF Later
        <2> QED  BY <1>2, <2>1, <2>2, CreateChannelSound
    <1>3. CASE ~st.threw /\ task.do = "assign"
        <2>1. Do(st, task, r, host) = AssignActor(st, task.actor, task.channel, host)
            BY <1>3 DEF Do
        <2> QED  BY <2>1, AssignActorSound
    <1>4. CASE ~st.threw /\ task.do = "data"
        <2>1. Do(st, task, r, host) = PostAll(st, r.data, r.author, host)  BY <1>4 DEF Do
        <2> QED  BY <1>4, <2>1, PostAllSound
    <1>5. CASE ~st.threw /\ task.do = "endorse"
        <2>1. Do(st, task, r, host) = AskEndorsement(st, task.name)  BY <1>5 DEF Do
        <2> QED  BY <2>1, AskEndorsementSound
    <1>6. task.do \in {"channel", "assign", "data", "endorse"}  BY DEF Later
    <1> QED  BY <1>1, <1>2, <1>3, <1>4, <1>5, <1>6

\* All of them: what follows the author works for an actor that has the host's keys.
LEMMA BuiltSound ==
    ASSUME NEW st, NEW base, Sound(st, base), NEW r \in Requests, NEW host \in Identities,
           Prepared(st, r.author, host, ToSet(r.actors))
    PROVE  Grown(st, Built(st, r, host), base)
    <1> DEFINE n == Len(Todo(r))
               names == ToSet(r.actors)
    <1>1. PICK m : Arranged(Todo(r), m, names) /\ names \subseteq Names  BY TodoArranged
    <1>2. n \in Nat /\ m \in 1 .. n /\ m \in Nat  BY <1>1 DEF Arranged
    <1>3. PICK p : Works(p, st, r, host, n) /\ Built(st, r, host) = p[n]  BY <1>2, BuiltSteps
    <1>4. /\ \A i \in 1 .. m - 1 : Todo(r)[i] \in [do : {"actor"}, name : names]
          /\ Todo(r)[m].do = "author"
          /\ \A i \in m + 1 .. n : Todo(r)[i] \in Later
        BY <1>1 DEF Arranged
    <1>5. Prepared(st, r.author, host, names) /\ names \in SUBSET Names  BY <1>1
    <1> HIDE DEF n, names
    <1> DEFINE Before(i) == i < m => Prepared(p[i], r.author, host, names)
               After(i) == i >= m => p[i].threw \/ ActsAs(p[i], r.author, host)
               S == {i \in 0 .. n : Grown(st, p[i], base) /\ Before(i) /\ After(i)}
    <1>6. 0 \in S
        <2>1. p[0] = st  BY <1>3 DEF Works
        <2>2. Grown(st, p[0], base)  BY <2>1, GrownReflexive
        <2> QED  BY <1>2, <1>5, <2>1, <2>2
    <1>7. ASSUME NEW i \in 0 .. n - 1, i \in S PROVE i + 1 \in S
        <2> DEFINE task == Todo(r)[i + 1]
        <2>1. i + 1 \in 1 .. n /\ (i + 1) - 1 = i /\ i + 1 \in 0 .. n  BY <1>2
        <2>2. p[i + 1] = Do(p[i], task, r, host)  BY <1>3, <2>1 DEF Works
        <2>3. Grown(st, p[i], base) /\ Sound(p[i], base) /\ Before(i) /\ After(i)
            BY <1>7 DEF Grown
        <2> HIDE DEF S
        <2>4. CASE i + 1 < m
            <3>1. i + 1 \in 1 .. m - 1 /\ ~(i + 1 >= m) /\ i < m  BY <1>2, <2>1, <2>4
            <3>2. /\ Grown(p[i], p[i + 1], base)
                  /\ Prepared(p[i + 1], r.author, host, names)
                BY <1>4, <1>5, <2>2, <2>3, <3>1, ActorTask
            <3>3. Grown(st, p[i + 1], base)  BY <2>3, <3>2, GrownTransitive
            <3> QED  BY <2>1, <3>1, <3>2, <3>3 DEF S
        <2>5. CASE i + 1 = m
            <3>1. task.do = "author" /\ i < m /\ ~(i + 1 < m)  BY <1>2, <1>4, <2>5
            <3>2. /\ Grown(p[i], p[i + 1], base)
                  /\ p[i + 1].threw \/ ActsAs(p[i + 1], r.author, host)
                BY <2>2, <2>3, <3>1, AuthorTask
            <3>3. Grown(st, p[i + 1], base)  BY <2>3, <3>2, GrownTransitive
            <3> QED  BY <2>1, <3>1, <3>2, <3>3 DEF S
        <2>6. CASE i + 1 > m
            <3>1. i + 1 \in m + 1 .. n /\ i >= m /\ ~(i + 1 < m)  BY <1>2, <2>1, <2>6
            <3>2. task \in Later  BY <1>4, <3>1
            <3>3. p[i].threw \/ ActsAs(p[i], r.author, host)  BY <2>3, <3>1
            <3>4. Grown(p[i], p[i + 1], base)  BY <2>2, <2>3, <3>2, <3>3, LaterTask
            <3>5. Grown(st, p[i + 1], base)  BY <2>3, <3>4, GrownTransitive
            <3>6. p[i + 1].threw \/ ActsAs(p[i + 1], r.author, host)
                <4>1. CASE p[i].threw
                    <5>1. p[i + 1] = p[i]  BY <2>2, <4>1 DEF Do
                    <5> QED  BY <4>1, <5>1
                <4>2. CASE ActsAs(p[i], r.author, host)  BY <2>3, <3>4, <4>2, GrownActs
                <4> QED  BY <3>3, <4>1, <4>2
            <3> QED  BY <2>1, <3>1, <3>5, <3>6 DEF S
        <2> QED  BY <1>2, <2>1, <2>4, <2>5, <2>6
    <1>8. 0 .. n \subseteq S
        <2> HIDE DEF S
        <2> QED  BY <1>2, <1>6, <1>7, IntervalInduction
    <1>9. Grown(st, p[n], base)  BY <1>2, <1>8
    <1> QED  BY <1>3, <1>9

-----------------------------------------------------------------------------
(* The invariant *)

\* A builder that would extend the chain as it is works on the state of the node: the
\* chain it was made on is a prefix of the node's, and of the same height the same.
Working(st) ==
    \E base : /\ Sound(st, base)
              /\ st.height <= Len(chain)
              /\ st.height = Len(chain) => base = node

\* No microblock none of whose calls threw invites somebody again.
CleanInvites ==
    \A h \in DOMAIN chain : chain[h].clean => InvitesFirst(View(chain, Loaded), h)

BuildersSound ==
    /\ \E C : chain \in Seq(C)
    /\ node \in State
    /\ chain = <<>> => node = InitialState
    /\ Kept(Loaded, node, chain)
    /\ CleanInvites
    /\ builder = [b \in Builders |-> builder[b]]
    /\ \A b \in Builders : builder[b] # NoBuilder => Working(builder[b])

LEMMA InitialStateTyped == InitialState \in State
    <1>1. /\ <<>> \in Seq(Accounts) /\ <<>> \in Seq(Actor) /\ <<>> \in Seq(Channel)
          /\ {} \in SUBSET Schemes /\ {} \in SUBSET Secret /\ {} \in SUBSET Invitation
        OBVIOUS
    <1>2. FALSE \in BOOLEAN  OBVIOUS
    <1> QED  BY <1>1, <1>2 DEF InitialState, State

LEMMA NewBuilderFormed ==
    ASSUME NEW height \in Nat, NEW ledger \in State
    PROVE  Formed(NewBuilder(height, ledger), ledger)
    <1> DEFINE st == NewBuilder(height, ledger)
    <1>1. /\ IsBuilder(st) /\ st.height = height /\ st.ledger = ledger /\ st.sections = <<>>
          /\ st.spoilt = FALSE /\ st.threw = FALSE
        BY DEF IsBuilder, NewBuilder
    <1>2. \E S : <<>> \in Seq(S)
        <2>1. <<>> \in Seq({})  OBVIOUS
        <2> QED  BY <2>1
    <1>3. height + 1 \in Nat  OBVIOUS
    <1>4. Accepts(ledger, <<>>, height + 1) /\ Run(ledger, <<>>, height + 1) = ledger
        BY <1>3, RunNothing
    <1>5. DOMAIN <<>> = {}  OBVIOUS
    <1> HIDE DEF st
    <1>6. Formed(st, ledger)  BY <1>1, <1>2, <1>4, <1>5 DEF Formed
    <1> QED  BY <1>6 DEF st

\* What one who loads the ledger reads is what has been published, and has to be consistent.
LEMMA NewBuilderKept ==
    ASSUME NEW height \in Nat, NEW ledger \in State, NEW blocks,
           \A h \in 1 .. height : \E n \in Nat : DOMAIN blocks[h].sections = 1 .. n,
           Consistent(ledger, View(blocks, NewBuilder(height, ledger)))
    PROVE  Kept(NewBuilder(height, ledger), ledger, blocks)
    <1> DEFINE st == NewBuilder(height, ledger)
               at == View(blocks, st)
    <1>1. st.height = height /\ st.ledger = ledger /\ st.sections = <<>>  BY DEF NewBuilder
    <1> HIDE DEF st
    <1>2. /\ DOMAIN at = 1 .. height + 1
          /\ \A h \in 1 .. height : at[h] = blocks[h].sections
          /\ at[height + 1] = <<>>
          /\ DOMAIN <<>> = 1 .. 0
        BY <1>1, ViewFields
    <1> HIDE DEF at
    <1>3. Listed(at)
        <2> SUFFICES ASSUME NEW h \in 1 .. height + 1 PROVE \E n \in Nat : DOMAIN at[h] = 1 .. n
            BY <1>2 DEF Listed
        <2>1. CASE h \in 1 .. height  BY <1>2, <2>1
        <2>2. CASE h = height + 1  BY <1>2, <2>2
        <2> QED  BY <2>1, <2>2
    <1>4. Replayed(st, ledger) = ledger
        <2>1. height + 1 \in Nat  OBVIOUS
        <2> QED  BY <1>1, <2>1, RunNothing DEF Replayed
    <1>5. Consistent(ledger, at)  BY DEF at, st
    <1>6. WellNamed(ledger)  BY <1>5 DEF Consistent
    <1>7. \A a \in DOMAIN ledger.actors : ledger.actors[a].keyHeight \in 0 .. height + 1
        <2> SUFFICES ASSUME NEW a \in DOMAIN ledger.actors
                     PROVE  ledger.actors[a].keyHeight \in 0 .. height + 1
            OBVIOUS
        <2>1. CASE Subscribed(ledger, a)
            <3>1. ledger.actors[a].keyHeight \in DOMAIN at  BY <1>5, <2>1 DEF Consistent, HasKeysOf
            <3> QED  BY <1>2, <3>1
        <2>2. CASE ~Subscribed(ledger, a)
            <3>1. ledger.actors[a].keyHeight = 0  BY <2>2 DEF Subscribed, ActorDefined
            <3> QED  BY <3>1
        <2> QED  BY <2>1, <2>2
    <1>8. Covers(ledger, ledger)  BY CoversItself
    <1>9. InvitesFirst(at, height + 1)
        <2>1. DOMAIN at[height + 1] = {}  BY <1>2
        <2> QED  BY <2>1 DEF InvitesFirst
    <1>10. Kept(st, ledger, blocks)
        <2>1. \A a \in DOMAIN st.ledger.actors : st.ledger.actors[a].keyHeight \in 0 .. st.height + 1
            BY <1>1, <1>7
        <2>2. InvitesFirst(at, st.height + 1)  BY <1>1, <1>9
        <2> QED  BY <1>1, <1>3, <1>4, <1>5, <1>6, <1>8, <2>1, <2>2 DEF Kept, at
    <1> QED  BY <1>10 DEF st

LEMMA EmptyKept ==
    ASSUME NEW blocks
    PROVE  Kept(NewBuilder(0, InitialState), InitialState, blocks)
    <1> DEFINE st == NewBuilder(0, InitialState)
               at == View(blocks, st)
    <1>1. st.height = 0 /\ st.sections = <<>>  BY DEF NewBuilder
    <1> HIDE DEF st
    <1>2. DOMAIN at = 1 .. 1 /\ at[1] = <<>> /\ DOMAIN <<>> = {}
        <2>1. st.height \in Nat /\ st.height + 1 = 1  BY <1>1
        <2>2. DOMAIN at = 1 .. st.height + 1 /\ at[st.height + 1] = st.sections
            BY <2>1, ViewFields
        <2> QED  BY <1>1, <2>1, <2>2
    <1> HIDE DEF at
    <1>3. /\ InitialState.actors = <<>> /\ InitialState.channels = <<>>
          /\ InitialState.invitations = {}
        BY DEF InitialState
    <1>4. Consistent(InitialState, at)
        BY <1>2, <1>3 DEF Consistent, WellNamed, UniqueActors, UniqueChannels, CreatorsExist
    <1> QED  BY <1>4, InitialStateTyped, NewBuilderKept DEF at, st

\* What frames a call changes nothing that Sound is about.
LEMMA SameWork ==
    ASSUME NEW st, NEW base, Sound(st, base), NEW t, IsBuilder(t),
           t.height = st.height, t.ledger = st.ledger, t.sections = st.sections,
           t.spoilt = st.spoilt, t.threw \in BOOLEAN
    PROVE  Sound(t, base)
    <1>1. Formed(t, base)  BY DEF Sound, Formed
    <1>2. Kept(t, base, chain)  BY SameKept DEF Sound
    <1> QED  BY <1>1, <1>2 DEF Sound

LEMMA CalledSound ==
    ASSUME NEW b, NEW base, Sound(builder[b], base), NEW offline
    PROVE  LET t == Called(b, offline) IN
           /\ Sound(t, base)
           /\ t.height = builder[b].height /\ t.ledger = builder[b].ledger
           /\ t.sections = builder[b].sections
    <1> DEFINE st == builder[b]
               calls == st.calls + 1
               u == [st EXCEPT !.calls = calls]
               t == [u EXCEPT !.offline = offline]
    <1>1. t = Called(b, offline)  BY Zenon DEF Called
    <1>2. IsBuilder(st) /\ st.threw \in BOOLEAN  BY DEF Sound, Formed
    <1> HIDE DEF st, calls
    <1>3. /\ IsBuilder(u) /\ u.height = st.height /\ u.ledger = st.ledger
          /\ u.sections = st.sections /\ u.spoilt = st.spoilt /\ u.threw = st.threw
        BY <1>2 DEF IsBuilder
    <1> HIDE DEF u
    <1>4. /\ IsBuilder(t) /\ t.height = u.height /\ t.ledger = u.ledger
          /\ t.sections = u.sections /\ t.spoilt = u.spoilt /\ t.threw = u.threw
        BY <1>3 DEF IsBuilder
    <1> HIDE DEF t
    <1>5. /\ Sound(t, base) /\ t.height = st.height /\ t.ledger = st.ledger
          /\ t.sections = st.sections
        BY <1>2, <1>3, <1>4, SameWork DEF st
    <1> QED  BY <1>1, <1>5 DEF st

LEMMA AfterCallSound ==
    ASSUME NEW st, NEW base, Sound(st, base)
    PROVE  Sound(AfterCall(st), base) /\ AfterCall(st).height = st.height
    <1> DEFINE no == FALSE
               u == [st EXCEPT !.threw = no]
               t == [u EXCEPT !.offline = no]
    <1>1. t = AfterCall(st)  BY Zenon DEF AfterCall
    <1>2. IsBuilder(st) /\ no \in BOOLEAN  BY DEF Sound, Formed
    <1> HIDE DEF no
    <1>3. /\ IsBuilder(u) /\ u.height = st.height /\ u.ledger = st.ledger
          /\ u.sections = st.sections /\ u.spoilt = st.spoilt /\ u.threw = no
        BY <1>2 DEF IsBuilder
    <1> HIDE DEF u
    <1>4. /\ IsBuilder(t) /\ t.height = u.height /\ t.ledger = u.ledger
          /\ t.sections = u.sections /\ t.spoilt = u.spoilt /\ t.threw = u.threw
        BY <1>3 DEF IsBuilder
    <1> HIDE DEF t
    <1>5. Sound(t, base) /\ t.height = st.height
        BY <1>2, <1>3, <1>4, SameWork
    <1> QED  BY <1>1, <1>5

LEMMA ReturnedSound ==
    ASSUME NEW st, NEW base, Sound(st, base), NEW x
    PROVE  /\ Sound([st EXCEPT !.returned = x], base)
           /\ [st EXCEPT !.returned = x].height = st.height
    <1> DEFINE t == [st EXCEPT !.returned = x]
    <1>1. IsBuilder(st) /\ st.threw \in BOOLEAN  BY DEF Sound, Formed
    <1>2. /\ IsBuilder(t) /\ t.height = st.height /\ t.ledger = st.ledger
          /\ t.sections = st.sections /\ t.spoilt = st.spoilt /\ t.threw = st.threw
        BY <1>1 DEF IsBuilder
    <1> HIDE DEF t
    <1>3. Sound(t, base)  BY <1>1, <1>2, SameWork
    <1> QED  BY <1>2, <1>3 DEF t

\* A request that speaks for itself is prepared, on the builder as the call finds it.
LEMMA SpeaksPrepared ==
    ASSUME NEW st, NEW r, NEW host, SpeaksForItself(st, r, host), st.height \in Nat,
           NEW t, t.height = st.height, t.ledger = st.ledger, t.sections = st.sections
    PROVE  Prepared(t, r.author, host, ToSet(r.actors))
    <1>1. Prepared(st, r.author, host, ToSet(r.actors))
        BY DEF Prepared, SpeaksForItself, ActsAs
    <1>2. \A h : SectionsAt(t, h) = SectionsAt(st, h)  BY DEF SectionsAt
    <1>3. ActorId(t, r.author) = ActorId(st, r.author)  BY DEF ActorId
    <1>4. \A a : /\ Subscriptions(t, a) = Subscriptions(st, a)
                 /\ \A i : IdentityAt(t, a, i) = IdentityAt(st, a, i)
        BY <1>2 DEF Subscriptions, IdentityAt
    <1>5. ActorsOf(t, host) = ActorsOf(st, host)  BY <1>4 DEF ActorsOf
    <1> QED  BY <1>1, <1>3, <1>5 DEF Prepared, ActsAs

LEMMA SubscribeActorSound ==
    ASSUME NEW st, NEW base, Sound(st, base), NEW name \in Names,
           NEW identity \in Identities
    PROVE  LET created == CreateActor(st, name)
           IN Grown(st, IF created.threw THEN created ELSE Subscribe(created, name, identity), base)
    <1> DEFINE created == CreateActor(st, name)
    <1>1. /\ Grown(st, created, base)
          /\ created.threw \/ ActorNamed(created.ledger, name)
        BY CreateActorSound
    <1> HIDE DEF created
    <1>2. CASE created.threw  BY <1>1, <1>2 DEF created
    <1>3. CASE ~created.threw
        <2>1. Sound(created, base)  BY <1>1 DEF Grown
        <2>2. Grown(created, Subscribe(created, name, identity), base)
            BY <1>1, <1>3, <2>1, SubscribeSound
        <2>3. Grown(st, Subscribe(created, name, identity), base)
            BY <1>1, <2>2, GrownTransitive
        <2> QED  BY <1>3, <2>3 DEF created
    <1> QED  BY <1>2, <1>3

-----------------------------------------------------------------------------
(* Every step keeps it *)

\* A step of one builder on which the chain depends for nothing.
LEMMA BuilderStep ==
    ASSUME BuildersSound, NEW b \in Builders, NEW st,
           builder' = [builder EXCEPT ![b] = st], UNCHANGED <<chain, node>>,
           st # NoBuilder => Working(st)
    PROVE  BuildersSound'
    <1>1. builder' = [c \in Builders |-> builder'[c]]  BY DEF BuildersSound
    <1>2. ASSUME NEW c \in Builders, builder'[c] # NoBuilder PROVE Working(builder'[c])
        <2>1. CASE c = b
            <3>1. builder'[c] = st  BY <2>1 DEF BuildersSound
            <3> QED  BY <1>2, <3>1
        <2>2. CASE c # b
            <3>1. builder'[c] = builder[c]  BY <2>2 DEF BuildersSound
            <3> QED  BY <1>2, <3>1 DEF BuildersSound
        <2> QED  BY <2>1, <2>2
    <1>3. ASSUME NEW c \in Builders, builder'[c] # NoBuilder PROVE Working(builder[c])'
        BY <1>2, <1>3, Zenon DEF Working, Sound
    <1>4. (NoBuilder)' = NoBuilder  BY DEF NoBuilder
    <1>5. Kept(Loaded, node, chain)' /\ CleanInvites'
        BY DEF BuildersSound, CleanInvites, Loaded
    <1> QED  BY <1>1, <1>3, <1>4, <1>5 DEF BuildersSound

LEMMA CreateFromEmptyKeeps ==
    ASSUME BuildersSound, NEW b \in Builders, CreateFromEmpty(b)
    PROVE  BuildersSound'
    <1> DEFINE new == NewBuilder(0, InitialState)
               sec == [type |-> "creation"]
               st == Add(new, sec)
    <1>1. Sound(new, InitialState) /\ new.height = 0
        <2>1. new.height = 0  BY DEF NewBuilder
        <2> QED  BY <2>1, InitialStateTyped, NewBuilderFormed, EmptyKept DEF Sound
    <1>2. WellFormed(sec) /\ sec.type = "creation"  BY DEF WellFormed
    <1> HIDE DEF new
    <1>3. Sound(st, InitialState) /\ st.height = 0
        <2> HIDE DEF sec
        <2>1. Fits(new, InitialState, sec)  BY <1>2 DEF Fits, Fitting
        <2> QED  BY <1>1, <1>2, <2>1, AddSound DEF Grown
    <1>4. builder' = [builder EXCEPT ![b] = st] /\ UNCHANGED <<chain, node>>
        BY DEF CreateFromEmpty, new
    <1> HIDE DEF st
    <1>5. Working(st)
        <2>1. PICK C : chain \in Seq(C)  BY DEF BuildersSound
        <2>2. 0 <= Len(chain) /\ (0 = Len(chain) => chain = <<>>)  BY <2>1
        <2>3. 0 = Len(chain) => InitialState = node  BY <2>2 DEF BuildersSound
        <2> QED  BY <1>3, <2>2, <2>3 DEF Working
    <1> QED  BY <1>4, <1>5, BuilderStep

\* One who loads the ledger now.
LEMMA LoadedSound ==
    ASSUME BuildersSound
    PROVE  Sound(Loaded, node) /\ Loaded.height = Len(chain) /\ Loaded.ledger = node
    <1>1. PICK C : chain \in Seq(C)  BY DEF BuildersSound
    <1>2. Len(chain) \in Nat /\ node \in State  BY <1>1 DEF BuildersSound
    <1>3. Formed(Loaded, node)  BY <1>2, NewBuilderFormed DEF Loaded
    <1>4. Loaded.height = Len(chain) /\ Loaded.ledger = node  BY DEF Loaded, NewBuilder
    <1> QED  BY <1>3, <1>4 DEF Sound, BuildersSound

LEMMA CreateFromVirtualBlockchainKeeps ==
    ASSUME BuildersSound, NEW b \in Builders, CreateFromVirtualBlockchain(b)
    PROVE  BuildersSound'
    <1>1. PICK C : chain \in Seq(C)  BY DEF BuildersSound
    <1>2. Len(chain) <= Len(chain)  BY <1>1
    <1>3. Working(Loaded)  BY <1>2, LoadedSound DEF Working
    <1>4. builder' = [builder EXCEPT ![b] = Loaded] /\ UNCHANGED <<chain, node>>
        BY DEF CreateFromVirtualBlockchain, Loaded
    <1> QED  BY <1>3, <1>4, BuilderStep

LEMMA SubscribeActorKeeps ==
    ASSUME BuildersSound, NEW b \in Builders, NEW name \in Names, NEW identity \in Identities,
           NEW offline, SubscribeActor(b, name, identity, offline)
    PROVE  BuildersSound'
    <1> DEFINE called == Called(b, offline)
               created == CreateActor(called, name)
               st == IF created.threw THEN created ELSE Subscribe(created, name, identity)
               t == AfterCall(st)
    <1>1. builder' = [builder EXCEPT ![b] = t] /\ UNCHANGED <<chain, node>>
        BY DEF SubscribeActor
    <1>2. builder[b] # NoBuilder  BY DEF SubscribeActor, Ready
    <1>3. PICK base : /\ Sound(builder[b], base)
                      /\ builder[b].height <= Len(chain)
                      /\ builder[b].height = Len(chain) => base = node
        BY <1>2 DEF BuildersSound, Working
    <1>4. Sound(called, base) /\ called.height = builder[b].height  BY <1>3, CalledSound
    <1> HIDE DEF called
    <1>5. Sound(st, base) /\ st.height = called.height
        BY <1>4, SubscribeActorSound DEF Grown
    <1> HIDE DEF st
    <1>6. Sound(t, base) /\ t.height = st.height  BY <1>5, AfterCallSound
    <1> HIDE DEF t
    <1>7. Working(t)  BY <1>3, <1>4, <1>5, <1>6 DEF Working
    <1> QED  BY <1>1, <1>7, BuilderStep

LEMMA RequestKeeps ==
    ASSUME BuildersSound, NEW b \in Builders, NEW r \in Requests, NEW host \in Identities,
           NEW offline, Request(b, r, host, offline)
    PROVE  BuildersSound'
    <1> DEFINE called == Called(b, offline)
               st == Built(called, r, host)
               returned == builder[b].returned \/ ~st.threw
               told == [st EXCEPT !.returned = returned]
               t == AfterCall(told)
    <1>1. builder' = [builder EXCEPT ![b] = t] /\ UNCHANGED <<chain, node>>
        BY DEF Request
    <1>2. builder[b] # NoBuilder /\ SpeaksForItself(builder[b], r, host)
        BY DEF Request, Ready
    <1>3. PICK base : /\ Sound(builder[b], base)
                      /\ builder[b].height <= Len(chain)
                      /\ builder[b].height = Len(chain) => base = node
        BY <1>2 DEF BuildersSound, Working
    <1>4. /\ Sound(called, base) /\ called.height = builder[b].height
          /\ called.ledger = builder[b].ledger /\ called.sections = builder[b].sections
        BY <1>3, CalledSound
    <1> HIDE DEF called
    <1>5. Prepared(called, r.author, host, ToSet(r.actors))
        <2>1. builder[b].height \in Nat  BY <1>3 DEF Sound, Formed
        <2> QED  BY <1>2, <1>4, <2>1, SpeaksPrepared
    <1>6. Sound(st, base) /\ st.height = called.height
        BY <1>4, <1>5, BuiltSound DEF Grown
    <1> HIDE DEF st, returned
    <1>7. Sound(told, base) /\ told.height = st.height  BY <1>6, ReturnedSound
    <1> HIDE DEF told
    <1>8. Sound(t, base) /\ t.height = told.height  BY <1>7, AfterCallSound
    <1> HIDE DEF t
    <1>9. Working(t)  BY <1>3, <1>4, <1>6, <1>7, <1>8 DEF Working
    <1> QED  BY <1>1, <1>9, BuilderStep

LEMMA DropKeeps ==
    ASSUME BuildersSound, NEW b \in Builders, Drop(b)
    PROVE  BuildersSound'
    BY BuilderStep DEF Drop

\* What is published is read in the place it was made for.
LEMMA PublishedKept ==
    ASSUME NEW C, NEW blocks \in Seq(C), NEW st, NEW base, Formed(st, base),
           Kept(st, base, blocks), st.height = Len(blocks),
           Accepts(base, st.sections, st.height + 1),
           NEW block, block.sections = st.sections
    PROVE  LET n == Len(blocks)
               t == Replayed(st, base)
               new == NewBuilder(n + 1, t)
           IN /\ t \in State
              /\ Kept(new, t, Append(blocks, block))
              /\ \A h \in 1 .. n + 1 : View(Append(blocks, block), new)[h] = View(blocks, st)[h]
    <1> DEFINE n == Len(blocks)
               t == Replayed(st, base)
               new == NewBuilder(n + 1, t)
               next == Append(blocks, block)
               at == View(blocks, st)
               more == View(next, new)
    <1>1. /\ n \in Nat /\ next[n + 1] = block
          /\ \A h \in 1 .. n : next[h] = blocks[h]
        <2> DEFINE D == C \cup {block}
        <2>1. blocks \in Seq(D) /\ block \in D  OBVIOUS
        <2> HIDE DEF D
        <2> QED  BY <2>1
    <1> HIDE DEF next
    <1>2. t \in State
        <2>1. PICK S : st.sections \in Seq(S)  BY DEF Formed
        <2>2. \A i \in DOMAIN st.sections : WellFormed(st.sections[i])  BY DEF Formed
        <2>3. base \in State /\ st.height \in Nat /\ st.height + 1 \in Nat  BY DEF Formed
        <2>4. CanRun(base, st.sections, st.height + 1)  BY <2>1, <2>2, <2>3 DEF CanRun
        <2> QED  BY <2>4, RunSteps DEF Replayed
    <1>3. Consistent(t, at) /\ Listed(at)  BY DEF Kept
    <1> HIDE DEF t
    <1>4. st.height = n /\ new.height = n + 1 /\ new.sections = <<>>  BY DEF NewBuilder
    <1> HIDE DEF n, new
    <1>5. /\ DOMAIN at = 1 .. n + 1 /\ at[n + 1] = st.sections
          /\ \A h \in 1 .. n : at[h] = blocks[h].sections
        BY <1>1, <1>4, ViewFields
    <1>6. /\ DOMAIN more = 1 .. (n + 1) + 1 /\ more[(n + 1) + 1] = <<>>
          /\ \A h \in 1 .. n + 1 : more[h] = next[h].sections
        <2>1. new.height \in Nat  BY <1>1, <1>4
        <2>2. /\ DOMAIN more = 1 .. new.height + 1 /\ more[new.height + 1] = new.sections
              /\ \A h \in 1 .. new.height : more[h] = next[h].sections
            BY <2>1, ViewFields
        <2> HIDE DEF more
        <2> QED  BY <1>4, <2>2
    <1> HIDE DEF at, more
    <1>7. \A h \in 1 .. n + 1 : more[h] = at[h]
        <2> SUFFICES ASSUME NEW h \in 1 .. n + 1 PROVE more[h] = at[h]  OBVIOUS
        <2>1. CASE h \in 1 .. n  BY <1>1, <1>5, <1>6, <2>1
        <2>2. CASE h \notin 1 .. n
            <3>1. h = n + 1  BY <1>1, <2>2
            <3> QED  BY <1>1, <1>5, <1>6, <3>1
        <2> QED  BY <2>1, <2>2
    <1>8. Consistent(t, more)
        <2>1. /\ DOMAIN at \subseteq DOMAIN more
              /\ \A g \in DOMAIN more : g \in DOMAIN at \/ g = (n + 1) + 1
            BY <1>1, <1>5, <1>6
        <2>2. DOMAIN <<>> = {}  OBVIOUS
        <2>3. \A g \in DOMAIN more : g \notin DOMAIN at => DOMAIN more[g] = {}
            BY <1>6, <2>1, <2>2
        <2>4. \A g \in DOMAIN at : more[g] = at[g]  BY <1>5, <1>7
        <2> QED  BY <1>3, <2>1, <2>3, <2>4, ConsistentWider
    <1>9. \A h \in 1 .. n + 1 : \E m \in Nat : DOMAIN next[h].sections = 1 .. m
        BY <1>3, <1>5, <1>6, <1>7 DEF Listed
    <1>10. Kept(new, t, next)
        <2>1. n + 1 \in Nat  BY <1>1
        <2>2. Consistent(t, View(next, NewBuilder(n + 1, t)))  BY <1>8 DEF more, new
        <2>3. Kept(NewBuilder(n + 1, t), t, next)  BY <1>2, <1>9, <2>1, <2>2, NewBuilderKept
        <2> QED  BY <2>3 DEF new
    <1> QED  BY <1>2, <1>7, <1>10 DEF n, t, new, next, at, more

LEMMA SameInvites ==
    ASSUME NEW at, NEW more, NEW h \in Nat \ {0}, \A g \in 1 .. h : more[g] = at[g],
           InvitesFirst(at, h)
    PROVE  InvitesFirst(more, h)
    <1>1. h \in 1 .. h  OBVIOUS
    <1> QED  BY <1>1 DEF InvitesFirst

\* One who works on an older chain reads the same as before.
LEMMA LongerKept ==
    ASSUME NEW st, NEW base, NEW blocks, NEW more, Kept(st, base, blocks), st.height \in Nat,
           \A h \in 1 .. st.height : more[h] = blocks[h]
    PROVE  Kept(st, base, more)
    <1>1. View(more, st) = View(blocks, st)
        <2>1. ASSUME NEW h \in 1 .. st.height + 1, h <= st.height
              PROVE  more[h].sections = blocks[h].sections
            <3>1. h \in 1 .. st.height  BY <2>1
            <3> QED  BY <3>1
        <2> QED  BY <2>1 DEF View
    <1> QED  BY <1>1 DEF Kept

\* A builder on a shorter chain is on a prefix of the new one.
LEMMA PublishKeeps ==
    ASSUME BuildersSound, NEW b \in Builders, Publish(b)
    PROVE  BuildersSound'
    <1> DEFINE st == builder[b]
               block == [sections |-> st.sections, clean |-> ~st.spoilt]
               n == Len(chain)
    <1>1. /\ chain' = Append(chain, block)
          /\ node' = Run(node, st.sections, n + 1)
          /\ builder' = [builder EXCEPT ![b] = NoBuilder]
          /\ st # NoBuilder /\ st.height = n
          /\ Accepts(node, st.sections, n + 1)
        BY DEF Publish
    <1>2. block.sections = st.sections /\ (block.clean <=> ~st.spoilt)  OBVIOUS
    <1>3. Sound(st, node)  BY <1>1 DEF BuildersSound, Working
    <1>4. PICK C : chain \in Seq(C)  BY DEF BuildersSound
    <1> HIDE DEF block, st
    <1>5. /\ \E T : chain' \in Seq(T)
          /\ Len(chain') = n + 1 /\ n \in Nat
          /\ chain' # <<>>
          /\ DOMAIN chain' = 1 .. n + 1 /\ DOMAIN chain = 1 .. n
          /\ \A h \in 1 .. n : chain'[h] = chain[h]
          /\ chain'[n + 1] = block
        <2> DEFINE T == C \cup {block}
        <2>1. chain \in Seq(T) /\ block \in T  BY <1>4
        <2> HIDE DEF T
        <2>2. /\ chain' \in Seq(T) /\ Len(chain') = n + 1 /\ n \in Nat
              /\ DOMAIN chain' = 1 .. n + 1 /\ DOMAIN chain = 1 .. n
              /\ \A h \in 1 .. n : chain'[h] = chain[h]
              /\ chain'[n + 1] = block
            BY <1>1, <2>1
        <2> QED  BY <2>2
    <1>6. /\ node' \in State
          /\ Kept(NewBuilder(n + 1, node'), node', chain')
          /\ \A h \in 1 .. n + 1 : View(chain', NewBuilder(n + 1, node'))[h] = View(chain, st)[h]
        <2>1. node' = Replayed(st, node)  BY <1>1 DEF Replayed
        <2> QED  BY <1>1, <1>2, <1>3, <1>4, <2>1, PublishedKept DEF Sound
    <1> HIDE DEF n
    <1>7. Kept(Loaded, node, chain)'  BY <1>5, <1>6 DEF Loaded
    <1>8. ASSUME NEW h \in 1 .. n + 1, chain'[h].clean
          PROVE  InvitesFirst(View(chain', NewBuilder(n + 1, node')), h)
        <2> DEFINE at == View(chain, st)
                   more == View(chain', NewBuilder(n + 1, node'))
        <2>1. h \in Nat \ {0} /\ \A g \in 1 .. h : g \in 1 .. n + 1  BY <1>5
        <2>2. InvitesFirst(at, h)
            <3>1. CASE h \in 1 .. n
                <4> DEFINE old == View(chain, Loaded)
                <4>1. InvitesFirst(old, h)
                    BY <1>5, <1>8, <3>1 DEF BuildersSound, CleanInvites
                <4>2. Loaded.height = n  BY LoadedSound DEF n
                <4>3. \A g \in 1 .. n : old[g] = chain[g].sections /\ at[g] = chain[g].sections
                    BY <1>1, <1>5, <4>2, ViewFields
                <4> HIDE DEF old, at
                <4>4. \A g \in 1 .. h : at[g] = old[g]  BY <1>5, <3>1, <4>3
                <4> QED  BY <2>1, <4>1, <4>4, SameInvites
            <3>2. CASE h \notin 1 .. n
                <4>1. h = n + 1  BY <1>5, <3>2
                <4>2. ~st.spoilt  BY <1>2, <1>5, <1>8, <4>1
                <4>3. InvitesFirst(at, st.height + 1)  BY <1>3, <4>2 DEF Sound, Kept
                <4> QED  BY <1>1, <4>1, <4>3
            <3> QED  BY <3>1, <3>2
        <2>3. \A g \in 1 .. h : more[g] = at[g]  BY <1>6, <2>1
        <2> HIDE DEF at, more
        <2>4. InvitesFirst(more, h)  BY <2>1, <2>2, <2>3, SameInvites
        <2> QED  BY <2>4 DEF more
    <1>9. CleanInvites'  BY <1>5, <1>8 DEF CleanInvites, Loaded
    <1>10. builder' = [c \in Builders |-> builder'[c]]  BY <1>1 DEF BuildersSound
    <1>11. ASSUME NEW c \in Builders, builder'[c] # NoBuilder
           PROVE  \E base : /\ Formed(builder'[c], base) /\ Kept(builder'[c], base, chain')
                            /\ builder'[c].height <= Len(chain')
                            /\ builder'[c].height = Len(chain') => base = node'
        <2>1. builder'[c] = builder[c]  BY <1>1, <1>11 DEF BuildersSound
        <2>2. PICK base : Sound(builder[c], base) /\ builder[c].height <= n
            BY <1>11, <2>1 DEF BuildersSound, Working, n
        <2>3. builder[c].height \in Nat  BY <2>2 DEF Sound, Formed
        <2>4. builder[c].height <= Len(chain') /\ builder[c].height # Len(chain')
            BY <1>5, <2>2, <2>3
        <2>5. Kept(builder[c], base, chain')
            <3>1. \A h \in 1 .. builder[c].height : h \in 1 .. n  BY <1>5, <2>2, <2>3
            <3>2. \A h \in 1 .. builder[c].height : chain'[h] = chain[h]  BY <1>5, <3>1
            <3> QED  BY <2>2, <2>3, <3>2, LongerKept DEF Sound
        <2> QED  BY <2>1, <2>2, <2>4, <2>5 DEF Sound
    <1>12. ASSUME NEW c \in Builders, builder'[c] # NoBuilder PROVE Working(builder[c])'
        BY <1>11, <1>12, Zenon DEF Working, Sound
    <1>13. (NoBuilder)' = NoBuilder  BY DEF NoBuilder
    <1> QED  BY <1>5, <1>6, <1>7, <1>9, <1>10, <1>12, <1>13 DEF BuildersSound

LEMMA BuildersStaySound == Spec => []BuildersSound
    <1>1. Init => BuildersSound
        <2> SUFFICES ASSUME Init PROVE BuildersSound  OBVIOUS
        <2>1. \E C : <<>> \in Seq(C)
            <3>1. <<>> \in Seq({})  OBVIOUS
            <3> QED  BY <3>1
        <2>2. \A b \in Builders : builder[b] = NoBuilder  BY DEF Init
        <2>3. builder = [b \in Builders |-> builder[b]]  BY DEF Init
        <2>4. Loaded = NewBuilder(0, InitialState) /\ DOMAIN chain = {}  BY DEF Init, Loaded
        <2>5. Kept(Loaded, node, chain)  BY <2>4, EmptyKept DEF Init
        <2>6. CleanInvites  BY <2>4 DEF CleanInvites
        <2> QED  BY <2>1, <2>2, <2>3, <2>5, <2>6, InitialStateTyped DEF Init, BuildersSound
    <1>2. BuildersSound /\ [Next]_vars => BuildersSound'
        <2> SUFFICES ASSUME BuildersSound, [Next]_vars PROVE BuildersSound'  OBVIOUS
        <2>1. CASE UNCHANGED vars
            BY <2>1 DEF vars, BuildersSound, CleanInvites, Loaded, Working, Sound
        <2>2. ASSUME NEW b \in Builders, CreateFromEmpty(b) PROVE BuildersSound'
            BY <2>2, CreateFromEmptyKeeps
        <2>3. ASSUME NEW b \in Builders, CreateFromVirtualBlockchain(b) PROVE BuildersSound'
            BY <2>3, CreateFromVirtualBlockchainKeeps
        <2>4. ASSUME NEW b \in Builders, NEW offline \in BOOLEAN, NEW identity \in Identities,
                     NEW name \in Names, SubscribeActor(b, name, identity, offline)
              PROVE  BuildersSound'
            BY <2>4, SubscribeActorKeeps
        <2>5. ASSUME NEW b \in Builders, NEW offline \in BOOLEAN, NEW identity \in Identities,
                     NEW r \in Requests, Request(b, r, identity, offline)
              PROVE  BuildersSound'
            BY <2>5, RequestKeeps
        <2>6. ASSUME NEW b \in Builders, Publish(b) PROVE BuildersSound'  BY <2>6, PublishKeeps
        <2>7. ASSUME NEW b \in Builders, Drop(b) PROVE BuildersSound'  BY <2>7, DropKeeps
        <2> QED  BY <2>1, <2>2, <2>3, <2>4, <2>5, <2>6, <2>7 DEF Next
    <1> QED  BY <1>1, <1>2, PTL DEF Spec

-----------------------------------------------------------------------------
(* What it gives *)

\* Whatever requests are made of however many builders, in whatever order, and wherever
\* they throw: a microblock that was returned and that no call threw on is accepted by a
\* node whose chain it extends, and gives the node the state that the builder has
\* (updateStateWithSection, createMicroblockFromStateUpdateRequest, appendMicroBlock).
THEOREM BuildersAreSound == Spec => []BuiltIsAccepted
    <1>1. BuildersSound => BuiltIsAccepted
        <2> SUFFICES ASSUME BuildersSound, NEW b \in Builders, builder[b] # NoBuilder,
                            ~builder[b].spoilt, builder[b].height = Len(chain)
                     PROVE  /\ Accepts(node, builder[b].sections, Len(chain) + 1)
                            /\ Run(node, builder[b].sections, Len(chain) + 1) = builder[b].ledger
            BY DEF BuiltIsAccepted
        <2>1. Sound(builder[b], node)  BY DEF BuildersSound, Working
        <2> QED  BY <2>1 DEF Sound, Formed
    <1> QED  BY <1>1, BuildersStaySound, PTL

\* The state that one who loads the ledger has is the one that goes with all its sections.
LEMMA LoadedConsistent ==
    ASSUME BuildersSound
    PROVE  /\ Accepts(node, Loaded.sections, Loaded.height + 1)
           /\ Replayed(Loaded, node) = node
           /\ Consistent(node, View(chain, Loaded))
    <1>1. Sound(Loaded, node)  BY LoadedSound
    <1>2. Loaded.sections = <<>> /\ Loaded.height + 1 \in Nat /\ node \in State
        <2>1. Loaded.sections = <<>>  BY DEF Loaded, NewBuilder
        <2>2. Loaded.height \in Nat  BY <1>1 DEF Sound, Formed
        <2> QED  BY <1>1, <2>1, <2>2 DEF Sound, Formed
    <1>3. /\ Accepts(node, Loaded.sections, Loaded.height + 1)
          /\ Replayed(Loaded, node) = node
        BY <1>2, RunNothing DEF Replayed
    <1> QED  BY <1>1, <1>3 DEF Sound, Kept

\* And tells the truth of them.
LEMMA PublishedTruthful ==
    ASSUME BuildersSound, NEW p \in Published
    PROVE  LET at == View(chain, Loaded)
           IN /\ p = <<p[1], p[2]>> /\ p[1] \in DOMAIN chain /\ p[1] \in Nat
              /\ p[1] \in DOMAIN at /\ p[2] \in DOMAIN at[p[1]]
              /\ SectionOf(p) = at[p[1]][p[2]]
              /\ Truthful(node, at, SectionOf(p))
    <1> DEFINE at == View(chain, Loaded)
    <1>1. p = <<p[1], p[2]>> /\ p[1] \in DOMAIN chain /\ p[2] \in DOMAIN chain[p[1]].sections
        BY DEF Published
    <1>2. PICK C : chain \in Seq(C)  BY DEF BuildersSound
    <1>3. DOMAIN chain = 1 .. Len(chain) /\ Len(chain) \in Nat  BY <1>2
    <1>4. Loaded.height = Len(chain)  BY LoadedSound
    <1>5. p[1] \in DOMAIN at /\ at[p[1]] = chain[p[1]].sections
        <2>1. p[1] \in 1 .. Loaded.height /\ p[1] \in 1 .. Loaded.height + 1
            BY <1>1, <1>3, <1>4
        <2> QED  BY <1>3, <1>4, <2>1, ViewFields
    <1>6. SectionOf(p) = at[p[1]][p[2]]  BY <1>5 DEF SectionOf
    <1>7. Consistent(node, at)  BY LoadedConsistent
    <1> HIDE DEF at
    <1>8. Truthful(node, at, SectionOf(p))  BY <1>1, <1>5, <1>6, <1>7 DEF Consistent
    <1> QED  BY <1>1, <1>3, <1>5, <1>6, <1>8 DEF at

\* For any builders, identities and requests, in whatever order and wherever they throw: no
\* microblock none of whose calls threw invites to a channel whom it or an earlier one has
\* invited, and none invites the creator of the channel (inviteActorOnChannel, ActorInChannel
\* of the ledger's internal state).
THEOREM NobodyIsInvitedAgain == Spec => []InvitationsUnique
    <1>1. ASSUME BuildersSound PROVE InvitationsUnique
        <2> DEFINE at == View(chain, Loaded)
        <2> SUFFICES ASSUME NEW c \in DOMAIN node.channels
                     PROVE  /\ \A p \in InvitationsTo(c) : SectionOf(p).guest # node.channels[c].creator
                            /\ \A p, q \in InvitationsTo(c) :
                                 chain[p[1]].clean /\ SectionOf(p).guest = SectionOf(q).guest =>
                                   p = q \/ p[1] < q[1]
            BY DEF InvitationsUnique
        <2>1. ASSUME NEW p \in InvitationsTo(c)
              PROVE  SectionOf(p).guest # node.channels[c].creator
            <3>1. p \in Published /\ SectionOf(p).type = "invitation" /\ SectionOf(p).channel = c
                BY DEF InvitationsTo
            <3>2. Truthful(node, at, SectionOf(p))  BY <1>1, <3>1, PublishedTruthful
            <3> HIDE DEF at
            <3> QED  BY <3>1, <3>2 DEF Truthful, RightInvitation
        <2>2. ASSUME NEW p \in InvitationsTo(c), NEW q \in InvitationsTo(c),
                     chain[p[1]].clean, SectionOf(p).guest = SectionOf(q).guest
              PROVE  p = q \/ p[1] < q[1]
            <3>1. /\ p \in Published /\ SectionOf(p).type = "invitation" /\ SectionOf(p).channel = c
                  /\ q \in Published /\ SectionOf(q).type = "invitation" /\ SectionOf(q).channel = c
                BY DEF InvitationsTo
            <3> DEFINE h == p[1]
                       i == p[2]
                       g == q[1]
                       j == q[2]
            <3>2. /\ p = <<h, i>> /\ h \in DOMAIN chain /\ h \in Nat /\ i \in DOMAIN at[h]
                  /\ SectionOf(p) = at[h][i]
                BY <1>1, <3>1, PublishedTruthful
            <3>3. /\ q = <<g, j>> /\ g \in DOMAIN chain /\ g \in Nat /\ j \in DOMAIN at[g]
                  /\ SectionOf(q) = at[g][j]
                BY <1>1, <3>1, PublishedTruthful
            <3>4. InvitesFirst(at, h)  BY <1>1, <2>2, <3>2 DEF BuildersSound, CleanInvites
            <3>5. g \in 1 .. h \/ h < g
                <4>1. PICK C : chain \in Seq(C)  BY <1>1 DEF BuildersSound
                <4>2. DOMAIN chain = 1 .. Len(chain) /\ Len(chain) \in Nat  BY <4>1
                <4> HIDE DEF h, g
                <4> QED  BY <3>2, <3>3, <4>2
            <3> HIDE DEF h, i, g, j, at
            <3>6. /\ at[h][i].type = "invitation"
                  /\ IsInvitation(at[g][j], at[h][i].guest, at[h][i].channel)
                BY <2>2, <3>1, <3>2, <3>3 DEF IsInvitation
            <3>7. g \in 1 .. h => g = h /\ i = j  BY <3>2, <3>3, <3>4, <3>6 DEF InvitesFirst
            <3> QED  BY <3>2, <3>3, <3>5, <3>7 DEF h, g
        <2> QED  BY <2>1, <2>2
    <1> QED  BY <1>1, BuildersStaySound, PTL

\* For any builders, identities and requests, in whatever order and wherever they throw:
\* whoever is in a private channel finds the one key of all that was ever posted there, and
\* nobody's keys give that key but those of an actor in the channel (getChannelKey,
\* getChannelKeyFromInvitation, createMicroblockFromStateUpdateRequest).
THEOREM ChannelsAreReadByTheirMembers == Spec => []MembersHoldKeys
    <1>1. ASSUME BuildersSound PROVE MembersHoldKeys
        <2> DEFINE at == View(chain, Loaded)
                   st == Loaded
        <2>1. /\ Sound(st, node) /\ st.ledger = node /\ Replayed(st, node) = node
              /\ Accepts(node, st.sections, st.height + 1) /\ Consistent(node, at)
            BY <1>1, LoadedSound, LoadedConsistent
        <2> SUFFICES ASSUME NEW d \in PrivateData
                     PROVE  /\ \A a \in DOMAIN node.actors :
                                 Subscribed(node, a) /\ IsActorInChannel(st, d.channel, a) =>
                                   KeysFor(st, a, d.channel, KeyOf(st, a)) = d.keys
                            /\ \A identity \in Identities :
                                 HoldsKey(identity, d) =>
                                   \E a \in ActorsOf(st, identity) : IsActorInChannel(st, d.channel, a)
            BY DEF MembersHoldKeys
        <2> DEFINE c == d.channel
        <2>2. /\ \A key \in d.keys : IsKeyOfChannel(node, at, c, key)
              /\ d.keys # {}
            <3>1. PICK p \in Published : d = SectionOf(p)  BY DEF PrivateData
            <3>2. Truthful(node, at, d)  BY <1>1, <3>1, PublishedTruthful
            <3> HIDE DEF at
            <3> QED  BY <3>2 DEF Truthful, PrivateData
        <2> HIDE DEF st, at, c
        <2>3. PICK key \in d.keys : TRUE  BY <2>2
        <2>4. IsKeyOfChannel(node, at, c, key) /\ d.keys = {key}
            <3>1. \A k \in d.keys : k = key  BY <2>2, <2>3, OneKey
            <3> QED  BY <2>2, <2>3, <3>1
        <2>5. PICK x \in Identities : /\ HasKeysOf(node, at, node.channels[c].creator, x)
                                      /\ key = [seed |-> x, channel |-> c]
            BY <2>4 DEF IsKeyOfChannel
        <2>6. c \in DOMAIN node.channels  BY <2>4 DEF IsKeyOfChannel
        <2>7. ASSUME NEW a, NEW y, HasKeysOf(node, at, a, y) PROVE a \in ActorsOf(st, y)
            <3>1. Subscribed(st.ledger, a)  BY <2>1, <2>7 DEF HasKeysOf
            <3>2. /\ HasKeysOf(node, at, a, KeyOf(st, a))
                  /\ \A z : a \in ActorsOf(st, z) <=> KeyOf(st, a) = z
                BY <2>1, <3>1, KeysOfActor DEF at, st
            <3>3. KeyOf(st, a) = y  BY <2>7, <3>2, OneIdentity
            <3> QED  BY <3>2, <3>3
        <2>8. ASSUME NEW a, Subscribed(node, a), IsActorInChannel(st, c, a)
              PROVE  KeysFor(st, a, c, KeyOf(st, a)) = d.keys
            <3>1. PICK k : /\ KeysFor(st, a, c, KeyOf(st, a)) = {k}
                           /\ IsKeyOfChannel(Replayed(st, node), View(chain, st), c, k)
                BY <2>1, <2>6, <2>8, KeysForMember
            <3>2. IsKeyOfChannel(node, at, c, k)  BY <2>1, <3>1 DEF at, st
            <3>3. k = key  BY <2>4, <3>2, OneKey
            <3> QED  BY <2>4, <3>1, <3>3
        <2>9. ASSUME NEW identity \in Identities, HoldsKey(identity, d)
              PROVE  \E a \in ActorsOf(st, identity) : IsActorInChannel(st, c, a)
            <3>1. CASE \E k \in d.keys : k.seed = identity
                <4>1. identity = x  BY <2>4, <2>5, <3>1
                <4>2. node.channels[c].creator \in ActorsOf(st, identity)
                    BY <2>5, <2>7, <4>1
                <4> QED  BY <2>1, <4>2 DEF IsActorInChannel
            <3>2. CASE \E p \in InvitationsTo(c) : SectionOf(p).encrypted.for = identity
                <4>1. PICK p \in InvitationsTo(c) : SectionOf(p).encrypted.for = identity
                    BY <3>2
                <4> DEFINE sec == SectionOf(p)
                <4>2. p \in Published /\ sec.type = "invitation" /\ sec.channel = c
                    BY DEF InvitationsTo
                <4>3. Truthful(node, at, sec)  BY <1>1, <4>2, PublishedTruthful DEF at
                <4> HIDE DEF sec
                <4>4. /\ HasKeysOf(node, at, sec.guest, identity)
                      /\ \E inv \in node.invitations : inv.actor = sec.guest /\ inv.channel = c
                    BY <4>1, <4>2, <4>3 DEF Truthful, RightInvitation, sec
                <4>5. sec.guest \in ActorsOf(st, identity)  BY <2>7, <4>4
                <4>6. InvitationsOf(st, sec.guest, c) # {}  BY <2>1, <4>4 DEF InvitationsOf
                <4> QED  BY <4>5, <4>6 DEF IsActorInChannel
            <3> QED  BY <2>9, <3>1, <3>2 DEF HoldsKey, c
        <2> QED  BY <2>8, <2>9 DEF c, st
    <1> QED  BY <1>1, BuildersStaySound, PTL
================================================================================
