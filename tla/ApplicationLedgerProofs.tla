------------------------ MODULE ApplicationLedgerProofs ------------------------
(* What a section does to the internal state of a ledger, and what running sections one
   after the other gives, for any state and any sections. *)
EXTENDS ApplicationLedger, SumsProofs

-----------------------------------------------------------------------------
(* What a section does to a state *)

\* The fields that a section of each type has.
WellFormed(sec) ==
    /\ sec.type \in {"sigSchemes", "pkeSchemes"} => sec.schemes \in SUBSET Schemes
    /\ sec.type = "writer" => sec.account \in Accounts
    /\ sec.type = "actor" => sec.id \in Nat /\ sec.name \in Names
    /\ sec.type = "subscription" => sec.actor \in Nat
    /\ sec.type = "channel" => sec.id \in Nat /\ sec.name \in Names /\ sec.creator \in Nat
    /\ sec.type = "secret" => sec.host \in Nat /\ sec.guest \in Nat
    /\ sec.type = "invitation" => sec.guest \in Nat /\ sec.channel \in Nat

LEMMA SectionWellFormed ==
    ASSUME NEW sec \in Section
    PROVE  WellFormed(sec)
    BY DEF Section, WellFormed

LEMMA WithActorTyped ==
    ASSUME NEW s \in State, NEW sec, sec.name \in Names
    PROVE  WithActor(s, sec) \in State
    <1> DEFINE actors == Append(s.actors, [name |-> sec.name, keyHeight |-> 0])
    <1>1. s.actors \in Seq(Actor)  BY DEF State
    <1>2. [name |-> sec.name, keyHeight |-> 0] \in Actor  BY DEF Actor
    <1>3. actors \in Seq(Actor)  BY <1>1, <1>2
    <1>4. WithActor(s, sec) = [s EXCEPT !.actors = actors]  BY DEF WithActor
    <1> HIDE DEF actors
    <1> QED  BY <1>3, <1>4 DEF State

LEMMA WithKeyTyped ==
    ASSUME NEW s \in State, NEW id \in DOMAIN s.actors, NEW height \in Nat
    PROVE  WithKey(s, id, height) \in State
    <1> DEFINE actor == [name |-> s.actors[id].name, keyHeight |-> height]
               actors == [s.actors EXCEPT ![id] = actor]
    <1>1. s.actors \in Seq(Actor)  BY DEF State
    <1>2. actor \in Actor
        <2>1. s.actors[id] \in Actor  BY <1>1
        <2> QED  BY <2>1 DEF Actor
    <1>3. WithKey(s, id, height) = [s EXCEPT !.actors = actors]  BY DEF WithKey
    <1> HIDE DEF actor
    <1>4. actors \in Seq(Actor)  BY <1>1, <1>2
    <1> HIDE DEF actors
    <1> QED  BY <1>3, <1>4 DEF State

LEMMA WithChannelTyped ==
    ASSUME NEW s \in State, NEW sec, sec.name \in Names, sec.creator \in Nat
    PROVE  WithChannel(s, sec) \in State
    <1> DEFINE channels == Append(s.channels, [name |-> sec.name, creator |-> sec.creator])
    <1>1. s.channels \in Seq(Channel)  BY DEF State
    <1>2. [name |-> sec.name, creator |-> sec.creator] \in Channel  BY DEF Channel
    <1>3. channels \in Seq(Channel)  BY <1>1, <1>2
    <1>4. WithChannel(s, sec) = [s EXCEPT !.channels = channels]  BY DEF WithChannel
    <1> HIDE DEF channels
    <1> QED  BY <1>3, <1>4 DEF State

LEMMA WithSecretTyped ==
    ASSUME NEW s \in State, NEW sec, sec.host \in Nat, sec.guest \in Nat, NEW height \in Nat
    PROVE  WithSecret(s, sec, height) \in State
    <1> DEFINE secrets ==
            s.secrets
            \cup (IF ActorDefined(s, sec.host)
                  THEN {[actor |-> sec.host, peer |-> sec.guest, height |-> height]} ELSE {})
            \cup (IF ~SecretRejected(s, sec)
                  THEN {[actor |-> sec.guest, peer |-> sec.host, height |-> height]} ELSE {})
    <1>1. s.secrets \in SUBSET Secret  BY DEF State
    <1>2. /\ [actor |-> sec.host, peer |-> sec.guest, height |-> height] \in Secret
          /\ [actor |-> sec.guest, peer |-> sec.host, height |-> height] \in Secret
        BY DEF Secret
    <1>3. secrets \in SUBSET Secret  BY <1>1, <1>2
    <1>4. WithSecret(s, sec, height) = [s EXCEPT !.secrets = secrets]  BY DEF WithSecret
    <1> HIDE DEF secrets
    <1> QED  BY <1>3, <1>4 DEF State

LEMMA WithInvitationTyped ==
    ASSUME NEW s \in State, NEW sec, sec.guest \in Nat, sec.channel \in Nat, NEW height \in Nat
    PROVE  WithInvitation(s, sec, height) \in State
    <1> DEFINE invitations ==
            s.invitations \cup {[actor |-> sec.guest, channel |-> sec.channel, height |-> height]}
    <1>1. s.invitations \in SUBSET Invitation  BY DEF State
    <1>2. [actor |-> sec.guest, channel |-> sec.channel, height |-> height] \in Invitation
        BY DEF Invitation
    <1>3. invitations \in SUBSET Invitation  BY <1>1, <1>2
    <1>4. WithInvitation(s, sec, height) = [s EXCEPT !.invitations = invitations]
        BY DEF WithInvitation
    <1> HIDE DEF invitations
    <1> QED  BY <1>3, <1>4 DEF State

LEMMA EffectTyped ==
    ASSUME NEW s \in State, NEW sec, WellFormed(sec), NEW height \in Nat
    PROVE  Effect(s, sec, height) \in State
    <1> DEFINE t == Effect(s, sec, height)
    <1>1. CASE sec.type = "sigSchemes"
        <2>1. t = [s EXCEPT !.sigSchemes = sec.schemes]  BY <1>1 DEF Effect
        <2>2. sec.schemes \in SUBSET Schemes  BY <1>1 DEF WellFormed
        <2> QED  BY <2>1, <2>2 DEF State
    <1>2. CASE sec.type = "pkeSchemes"
        <2>1. t = [s EXCEPT !.pkeSchemes = sec.schemes]  BY <1>2 DEF Effect
        <2>2. sec.schemes \in SUBSET Schemes  BY <1>2 DEF WellFormed
        <2> QED  BY <2>1, <2>2 DEF State
    <1>3. CASE sec.type = "creation"
        <2>1. t = [s EXCEPT !.application = TRUE]  BY <1>3 DEF Effect
        <2> QED  BY <2>1 DEF State
    <1>4. CASE sec.type = "writer"
        <2> DEFINE writers == Append(s.writers, sec.account)
        <2>1. t = [s EXCEPT !.writers = writers]  BY <1>4 DEF Effect
        <2>2. s.writers \in Seq(Accounts)  BY DEF State
        <2>3. writers \in Seq(Accounts)  BY <1>4, <2>2 DEF WellFormed
        <2> HIDE DEF writers
        <2> QED  BY <2>1, <2>3 DEF State
    <1>5. CASE sec.type = "actor" /\ ~ActorRejected(s, sec)
        <2>1. t = WithActor(s, sec)  BY <1>5 DEF Effect
        <2> QED  BY <1>5, <2>1, WithActorTyped DEF WellFormed
    <1>6. CASE sec.type = "subscription" /\ ~SubscriptionRejected(s, sec)
        <2>1. t = WithKey(s, sec.actor, height)  BY <1>6 DEF Effect
        <2>2. sec.actor \in DOMAIN s.actors  BY <1>6 DEF SubscriptionRejected, ActorDefined
        <2> QED  BY <2>1, <2>2, WithKeyTyped
    <1>7. CASE sec.type = "channel" /\ ~ChannelRejected(s, sec)
        <2>1. t = WithChannel(s, sec)  BY <1>7 DEF Effect
        <2> QED  BY <1>7, <2>1, WithChannelTyped DEF WellFormed
    <1>8. CASE sec.type = "secret"
        <2>1. t = WithSecret(s, sec, height)  BY <1>8 DEF Effect
        <2> QED  BY <1>8, <2>1, WithSecretTyped DEF WellFormed
    <1>9. CASE sec.type = "invitation" /\ ActorDefined(s, sec.guest)
        <2>1. t = WithInvitation(s, sec, height)  BY <1>9 DEF Effect
        <2> QED  BY <1>9, <2>1, WithInvitationTyped DEF WellFormed
    <1>10. CASE /\ sec.type \notin {"sigSchemes", "pkeSchemes", "creation", "writer", "secret"}
                /\ ~(sec.type = "actor" /\ ~ActorRejected(s, sec))
                /\ ~(sec.type = "subscription" /\ ~SubscriptionRejected(s, sec))
                /\ ~(sec.type = "channel" /\ ~ChannelRejected(s, sec))
                /\ ~(sec.type = "invitation" /\ ActorDefined(s, sec.guest))
        <2>1. t = s  BY <1>10 DEF Effect
        <2> QED  BY <2>1
    <1> QED  BY <1>1, <1>2, <1>3, <1>4, <1>5, <1>6, <1>7, <1>8, <1>9, <1>10

-----------------------------------------------------------------------------
(* Names *)

WellNamed(s) == UniqueActors(s) /\ UniqueChannels(s) /\ CreatorsExist(s)

\* Only the names of actors and the channels matter.
LEMMA SameNames ==
    ASSUME NEW s, NEW t, WellNamed(s), t.actors = s.actors, t.channels = s.channels
    PROVE  WellNamed(t)
    BY DEF WellNamed, UniqueActors, UniqueChannels, CreatorsExist

LEMMA WithActorWellNamed ==
    ASSUME NEW s \in State, NEW sec, sec.name \in Names, WellNamed(s), ~ActorRejected(s, sec)
    PROVE  WellNamed(WithActor(s, sec))
    <1> DEFINE t == WithActor(s, sec)
               actor == [name |-> sec.name, keyHeight |-> 0]
               actors == Append(s.actors, actor)
    <1>1. t = [s EXCEPT !.actors = actors]  BY DEF WithActor
    <1>2. s.actors \in Seq(Actor)  BY DEF State
    <1>3. actor \in Actor  BY DEF Actor
    <1>4. actor.name = sec.name  OBVIOUS
    <1> HIDE DEF actor
    <1>5. /\ Len(actors) = Len(s.actors) + 1
          /\ actors[Len(s.actors) + 1] = actor
          /\ \A a \in DOMAIN s.actors : actors[a] = s.actors[a]
          /\ DOMAIN actors = 1 .. Len(s.actors) + 1
          /\ DOMAIN s.actors = 1 .. Len(s.actors)
          /\ Len(s.actors) \in Nat
        BY <1>2, <1>3
    <1> HIDE DEF actors, t
    <1>6. t.actors = actors /\ t.channels = s.channels  BY <1>1 DEF State
    <1>7. \A a \in DOMAIN s.actors : s.actors[a].name # sec.name
        BY DEF ActorRejected, ActorNamed
    <1>8. UniqueActors(t)
        <2> SUFFICES ASSUME NEW a \in DOMAIN actors, NEW b \in DOMAIN actors,
                            actors[a].name = actors[b].name
                     PROVE  a = b
            BY <1>6 DEF UniqueActors
        <2>1. CASE a \in DOMAIN s.actors /\ b \in DOMAIN s.actors
            <3>1. s.actors[a].name = s.actors[b].name  BY <1>5, <2>1
            <3> QED  BY <2>1, <3>1 DEF WellNamed, UniqueActors
        <2>2. CASE a \in DOMAIN s.actors /\ b = Len(s.actors) + 1
            <3>1. s.actors[a].name = sec.name  BY <1>4, <1>5, <2>2
            <3> QED  BY <1>7, <2>2, <3>1
        <2>3. CASE a = Len(s.actors) + 1 /\ b \in DOMAIN s.actors
            <3>1. s.actors[b].name = sec.name  BY <1>4, <1>5, <2>3
            <3> QED  BY <1>7, <2>3, <3>1
        <2> QED  BY <1>5, <2>1, <2>2, <2>3
    <1>9. UniqueChannels(t)  BY <1>6 DEF WellNamed, UniqueChannels
    <1>10. CreatorsExist(t)  BY <1>5, <1>6 DEF WellNamed, CreatorsExist
    <1> QED  BY <1>8, <1>9, <1>10 DEF WellNamed, t

LEMMA WithKeyWellNamed ==
    ASSUME NEW s \in State, NEW id \in DOMAIN s.actors, NEW height \in Nat, WellNamed(s)
    PROVE  WellNamed(WithKey(s, id, height))
    <1> DEFINE t == WithKey(s, id, height)
               actor == [name |-> s.actors[id].name, keyHeight |-> height]
               actors == [s.actors EXCEPT ![id] = actor]
    <1>1. t = [s EXCEPT !.actors = actors]  BY DEF WithKey
    <1>2. s.actors \in Seq(Actor)  BY DEF State
    <1>3. actor.name = s.actors[id].name  OBVIOUS
    <1> HIDE DEF actor
    <1>4. /\ DOMAIN actors = DOMAIN s.actors
          /\ \A a \in DOMAIN actors : actors[a].name = s.actors[a].name
        BY <1>2, <1>3
    <1> HIDE DEF actors, t
    <1>5. t.actors = actors /\ t.channels = s.channels  BY <1>1 DEF State
    <1>6. UniqueActors(t)  BY <1>4, <1>5 DEF WellNamed, UniqueActors
    <1>7. UniqueChannels(t)  BY <1>5 DEF WellNamed, UniqueChannels
    <1>8. CreatorsExist(t)  BY <1>4, <1>5 DEF WellNamed, CreatorsExist
    <1> QED  BY <1>6, <1>7, <1>8 DEF WellNamed, t

LEMMA WithChannelWellNamed ==
    ASSUME NEW s \in State, NEW sec, sec.name \in Names, sec.creator \in Nat,
           WellNamed(s), ~ChannelRejected(s, sec)
    PROVE  WellNamed(WithChannel(s, sec))
    <1> DEFINE t == WithChannel(s, sec)
               channel == [name |-> sec.name, creator |-> sec.creator]
               channels == Append(s.channels, channel)
    <1>1. t = [s EXCEPT !.channels = channels]  BY DEF WithChannel
    <1>2. s.channels \in Seq(Channel)  BY DEF State
    <1>3. channel \in Channel  BY DEF Channel
    <1>4. channel.name = sec.name /\ channel.creator = sec.creator  OBVIOUS
    <1> HIDE DEF channel
    <1>5. /\ Len(channels) = Len(s.channels) + 1
          /\ channels[Len(s.channels) + 1] = channel
          /\ \A c \in DOMAIN s.channels : channels[c] = s.channels[c]
          /\ DOMAIN channels = 1 .. Len(s.channels) + 1
          /\ DOMAIN s.channels = 1 .. Len(s.channels)
          /\ Len(s.channels) \in Nat
        BY <1>2, <1>3
    <1> HIDE DEF channels, t
    <1>6. t.channels = channels /\ t.actors = s.actors  BY <1>1 DEF State
    <1>7. /\ \A c \in DOMAIN s.channels : s.channels[c].name # sec.name
          /\ sec.creator \in DOMAIN s.actors
        BY DEF ChannelRejected, ChannelNamed, ActorDefined
    <1>8. UniqueChannels(t)
        <2> SUFFICES ASSUME NEW c \in DOMAIN channels, NEW d \in DOMAIN channels,
                            channels[c].name = channels[d].name
                     PROVE  c = d
            BY <1>6 DEF UniqueChannels
        <2>1. CASE c \in DOMAIN s.channels /\ d \in DOMAIN s.channels
            <3>1. s.channels[c].name = s.channels[d].name  BY <1>5, <2>1
            <3> QED  BY <2>1, <3>1 DEF WellNamed, UniqueChannels
        <2>2. CASE c \in DOMAIN s.channels /\ d = Len(s.channels) + 1
            <3>1. s.channels[c].name = sec.name  BY <1>4, <1>5, <2>2
            <3> QED  BY <1>7, <2>2, <3>1
        <2>3. CASE c = Len(s.channels) + 1 /\ d \in DOMAIN s.channels
            <3>1. s.channels[d].name = sec.name  BY <1>4, <1>5, <2>3
            <3> QED  BY <1>7, <2>3, <3>1
        <2> QED  BY <1>5, <2>1, <2>2, <2>3
    <1>9. UniqueActors(t)  BY <1>6 DEF WellNamed, UniqueActors
    <1>10. CreatorsExist(t)
        <2> SUFFICES ASSUME NEW c \in DOMAIN channels
                     PROVE  channels[c].creator \in DOMAIN s.actors
            BY <1>6 DEF CreatorsExist
        <2>1. CASE c \in DOMAIN s.channels  BY <1>5, <2>1 DEF WellNamed, CreatorsExist
        <2>2. CASE c = Len(s.channels) + 1  BY <1>4, <1>5, <1>7, <2>2
        <2> QED  BY <1>5, <2>1, <2>2
    <1> QED  BY <1>8, <1>9, <1>10 DEF WellNamed, t

\* Accepted or refused, no section makes two names equal or a creator disappear.
LEMMA EffectWellNamed ==
    ASSUME NEW s \in State, NEW sec, WellFormed(sec), NEW height \in Nat, WellNamed(s)
    PROVE  WellNamed(Effect(s, sec, height))
    <1> DEFINE t == Effect(s, sec, height)
    <1>1. CASE sec.type = "sigSchemes"
        <2>1. t = [s EXCEPT !.sigSchemes = sec.schemes]  BY <1>1 DEF Effect
        <2>2. t.actors = s.actors /\ t.channels = s.channels  BY <2>1 DEF State
        <2> QED  BY <2>2, SameNames
    <1>2. CASE sec.type = "pkeSchemes"
        <2>1. t = [s EXCEPT !.pkeSchemes = sec.schemes]  BY <1>2 DEF Effect
        <2>2. t.actors = s.actors /\ t.channels = s.channels  BY <2>1 DEF State
        <2> QED  BY <2>2, SameNames
    <1>3. CASE sec.type = "creation"
        <2>1. t = [s EXCEPT !.application = TRUE]  BY <1>3 DEF Effect
        <2>2. t.actors = s.actors /\ t.channels = s.channels  BY <2>1 DEF State
        <2> QED  BY <2>2, SameNames
    <1>4. CASE sec.type = "writer"
        <2> DEFINE writers == Append(s.writers, sec.account)
        <2>1. t = [s EXCEPT !.writers = writers]  BY <1>4 DEF Effect
        <2> HIDE DEF writers
        <2>2. t.actors = s.actors /\ t.channels = s.channels  BY <2>1 DEF State
        <2> QED  BY <2>2, SameNames
    <1>5. CASE sec.type = "actor" /\ ~ActorRejected(s, sec)
        <2>1. t = WithActor(s, sec)  BY <1>5 DEF Effect
        <2> QED  BY <1>5, <2>1, WithActorWellNamed DEF WellFormed
    <1>6. CASE sec.type = "subscription" /\ ~SubscriptionRejected(s, sec)
        <2>1. t = WithKey(s, sec.actor, height)  BY <1>6 DEF Effect
        <2>2. sec.actor \in DOMAIN s.actors  BY <1>6 DEF SubscriptionRejected, ActorDefined
        <2> QED  BY <2>1, <2>2, WithKeyWellNamed
    <1>7. CASE sec.type = "channel" /\ ~ChannelRejected(s, sec)
        <2>1. t = WithChannel(s, sec)  BY <1>7 DEF Effect
        <2> QED  BY <1>7, <2>1, WithChannelWellNamed DEF WellFormed
    <1>8. CASE sec.type = "secret"
        <2>1. t = WithSecret(s, sec, height)  BY <1>8 DEF Effect
        <2>2. WithSecret(s, sec, height).actors = s.actors
              /\ WithSecret(s, sec, height).channels = s.channels
            BY DEF WithSecret, State
        <2> QED  BY <2>1, <2>2, SameNames
    <1>9. CASE sec.type = "invitation" /\ ActorDefined(s, sec.guest)
        <2>1. t = WithInvitation(s, sec, height)  BY <1>9 DEF Effect
        <2>2. WithInvitation(s, sec, height).actors = s.actors
              /\ WithInvitation(s, sec, height).channels = s.channels
            BY DEF WithInvitation, State
        <2> QED  BY <2>1, <2>2, SameNames
    <1>10. CASE /\ sec.type \notin {"sigSchemes", "pkeSchemes", "creation", "writer", "secret"}
                /\ ~(sec.type = "actor" /\ ~ActorRejected(s, sec))
                /\ ~(sec.type = "subscription" /\ ~SubscriptionRejected(s, sec))
                /\ ~(sec.type = "channel" /\ ~ChannelRejected(s, sec))
                /\ ~(sec.type = "invitation" /\ ActorDefined(s, sec.guest))
        <2>1. t = s  BY <1>10 DEF Effect
        <2> QED  BY <2>1
    <1> QED  BY <1>1, <1>2, <1>3, <1>4, <1>5, <1>6, <1>7, <1>8, <1>9, <1>10

-----------------------------------------------------------------------------
(* Runs of sections *)

\* state lists the states of the first n sections run from s on.
IsRun(state, s, sections, height, n) ==
    /\ state \in [0 .. n -> State]
    /\ state[0] = s
    /\ \A k \in 1 .. n : state[k] = Effect(state[k - 1], sections[k], height)

CanRun(s, sections, height) ==
    /\ s \in State
    /\ Len(sections) \in Nat
    /\ \A k \in 1 .. Len(sections) : WellFormed(sections[k])
    /\ height \in Nat

\* The recursive function in the definition of StatesOf exists: one section at a time.
LEMMA RunsExist ==
    ASSUME NEW s, NEW sections, NEW height, CanRun(s, sections, height)
    PROVE  \E state : IsRun(state, s, sections, height, Len(sections))
    <1> DEFINE n == Len(sections)
               S == {m \in 0 .. n : \E state : IsRun(state, s, sections, height, m)}
    <1>1. n \in Nat /\ s \in State /\ height \in Nat  BY DEF CanRun
    <1>2. 0 \in S
        <2>1. IsRun([k \in 0 .. 0 |-> s], s, sections, height, 0)  BY <1>1 DEF IsRun
        <2> QED  BY <1>1, <2>1
    <1>3. ASSUME NEW m \in 0 .. n - 1, m \in S PROVE m + 1 \in S
        <2>1. PICK p : IsRun(p, s, sections, height, m)  BY <1>3
        <2> DEFINE e == Effect(p[m], sections[m + 1], height)
                   q == [k \in 0 .. m + 1 |-> IF k <= m THEN p[k] ELSE e]
        <2>2. m \in Nat /\ m + 1 \in 1 .. n  BY <1>1
        <2>3. p[m] \in State  BY <2>1, <2>2 DEF IsRun
        <2>4. WellFormed(sections[m + 1])  BY <2>2 DEF CanRun
        <2>5. e \in State  BY <1>1, <2>3, <2>4, EffectTyped
        <2>6. q[m + 1] = Effect(q[m], sections[m + 1], height)  BY <2>2
        <2> HIDE DEF e
        <2>7. \A k \in 0 .. m : q[k] = p[k]  BY <2>2
        <2>8. q \in [0 .. m + 1 -> State]
            <3>1. \A k \in 0 .. m : p[k] \in State  BY <2>1 DEF IsRun
            <3> QED  BY <2>2, <2>5, <3>1
        <2> HIDE DEF q
        <2>9. ASSUME NEW k \in 1 .. m + 1 PROVE q[k] = Effect(q[k - 1], sections[k], height)
            <3>1. CASE k = m + 1  BY <2>2, <2>6, <3>1
            <3>2. CASE k \in 1 .. m
                <4>1. p[k] = Effect(p[k - 1], sections[k], height)  BY <2>1, <3>2 DEF IsRun
                <4>2. q[k] = p[k] /\ q[k - 1] = p[k - 1]  BY <2>7, <3>2
                <4> QED  BY <4>1, <4>2
            <3> QED  BY <2>2, <3>1, <3>2
        <2>10. q[0] = s  BY <2>1, <2>2, <2>7 DEF IsRun
        <2>11. IsRun(q, s, sections, height, m + 1)  BY <2>8, <2>9, <2>10 DEF IsRun
        <2> QED  BY <2>2, <2>11
    <1>4. 0 .. n \subseteq S
        <2> HIDE DEF S, n
        <2> QED  BY <1>1, <1>2, <1>3, IntervalInduction
    <1>5. n \in S  BY <1>1, <1>4
    <1> QED  BY <1>5

\* Two runs that begin in one state with the same sections go through the same states.
LEMMA RunsAgree ==
    ASSUME NEW p, NEW q, NEW s, NEW a, NEW b, NEW height, NEW m \in Nat, NEW n \in Nat, m <= n,
           IsRun(p, s, a, height, m), IsRun(q, s, b, height, n), \A k \in 1 .. m : a[k] = b[k]
    PROVE  \A k \in 0 .. m : p[k] = q[k]
    <1> DEFINE S == {k \in 0 .. m : p[k] = q[k]}
    <1>1. 0 \in S  BY DEF IsRun
    <1>2. ASSUME NEW k \in 0 .. m - 1, k \in S PROVE k + 1 \in S
        <2>1. k + 1 \in 1 .. m /\ k + 1 \in 1 .. n /\ (k + 1) - 1 = k  OBVIOUS
        <2>2. p[k + 1] = Effect(p[k], a[k + 1], height)  BY <2>1 DEF IsRun
        <2>3. q[k + 1] = Effect(q[k], b[k + 1], height)  BY <2>1 DEF IsRun
        <2>4. p[k] = q[k] /\ a[k + 1] = b[k + 1]  BY <1>2, <2>1
        <2> QED  BY <2>1, <2>2, <2>3, <2>4
    <1>3. 0 .. m \subseteq S
        <2> HIDE DEF S
        <2> QED  BY <1>1, <1>2, IntervalInduction
    <1> QED  BY <1>3

LEMMA StatesOfIsRun ==
    ASSUME NEW s, NEW sections, NEW height, CanRun(s, sections, height)
    PROVE  IsRun(StatesOf(s, sections, height), s, sections, height, Len(sections))
    <1> DEFINE n == Len(sections)
               Is(f) == f = [k \in 0 .. n |-> IF k = 0 THEN s
                                              ELSE Effect(f[k - 1], sections[k], height)]
               state == CHOOSE f : Is(f)
    <1>1. n \in Nat  BY DEF CanRun
    <1>2. PICK p : IsRun(p, s, sections, height, n)  BY RunsExist
    <1>3. Is(p)
        <2> DEFINE q == [k \in 0 .. n |-> IF k = 0 THEN s ELSE Effect(p[k - 1], sections[k], height)]
        <2>1. p = [k \in 0 .. n |-> p[k]]  BY <1>2 DEF IsRun
        <2>2. ASSUME NEW k \in 0 .. n PROVE p[k] = q[k]
            <3>1. CASE k = 0  BY <1>2, <3>1 DEF IsRun
            <3>2. CASE k # 0
                <4>1. k \in 1 .. n  BY <1>1, <3>2
                <4> QED  BY <1>2, <3>2, <4>1 DEF IsRun
            <3> QED  BY <3>1, <3>2
        <2>3. [k \in 0 .. n |-> p[k]] = [k \in 0 .. n |-> q[k]]  BY <2>2, Zenon
        <2>4. [k \in 0 .. n |-> q[k]] = q  OBVIOUS
        <2> QED  BY <2>1, <2>3, <2>4
    <1>4. Is(state)  BY <1>3
    <1>5. StatesOf(s, sections, height) = state  BY DEF StatesOf
    <1> HIDE DEF state
    <1>6. /\ DOMAIN state = 0 .. n
          /\ state[0] = s
          /\ \A k \in 1 .. n : state[k] = Effect(state[k - 1], sections[k], height)
        BY <1>1, <1>4
    <1>7. \A k \in 0 .. n : state[k] = p[k]
        <2> DEFINE S == {k \in 0 .. n : state[k] = p[k]}
        <2>1. 0 \in S  BY <1>1, <1>2, <1>6 DEF IsRun
        <2>2. ASSUME NEW k \in 0 .. n - 1, k \in S PROVE k + 1 \in S
            <3>1. k + 1 \in 1 .. n /\ (k + 1) - 1 = k  BY <1>1
            <3>2. p[k + 1] = Effect(p[k], sections[k + 1], height)  BY <1>2, <3>1 DEF IsRun
            <3>3. state[k + 1] = Effect(state[k], sections[k + 1], height)  BY <1>6, <3>1
            <3> QED  BY <1>1, <2>2, <3>1, <3>2, <3>3
        <2>3. 0 .. n \subseteq S
            <3> HIDE DEF S, n
            <3> QED  BY <1>1, <2>1, <2>2, IntervalInduction
        <2> QED  BY <2>3
    <1>8. state \in [0 .. n -> State]
        <2>1. state = [k \in 0 .. n |-> state[k]]  BY <1>4
        <2>2. \A k \in 0 .. n : state[k] \in State  BY <1>2, <1>7 DEF IsRun
        <2> QED  BY <2>1, <2>2
    <1>9. IsRun(state, s, sections, height, n)  BY <1>6, <1>8 DEF IsRun
    <1> QED  BY <1>5, <1>9
-----------------------------------------------------------------------------
(* What stays, and what is new *)

\* The actors, secrets and invitations of two states are the same.
SameContents(s, t) == /\ t.actors = s.actors
                      /\ t.secrets = s.secrets
                      /\ t.invitations = s.invitations

\* What one section run at a height changes in them.
LEMMA EffectContents ==
    ASSUME NEW s \in State, NEW sec, NEW height
    PROVE  LET t == Effect(s, sec, height) IN
           \/ SameContents(s, t)
           \/ /\ sec.type = "actor" /\ ~ActorRejected(s, sec)
              /\ t.actors = Append(s.actors, [name |-> sec.name, keyHeight |-> 0])
              /\ t.secrets = s.secrets /\ t.invitations = s.invitations
           \/ /\ sec.type = "subscription" /\ ~SubscriptionRejected(s, sec)
              /\ t.actors = [s.actors EXCEPT ![sec.actor] =
                               [name |-> s.actors[sec.actor].name, keyHeight |-> height]]
              /\ t.secrets = s.secrets /\ t.invitations = s.invitations
           \/ /\ sec.type = "secret"
              /\ t.secrets = WithSecret(s, sec, height).secrets
              /\ t.actors = s.actors /\ t.invitations = s.invitations
           \/ /\ sec.type = "invitation"
              /\ t.invitations = s.invitations
                   \cup {[actor |-> sec.guest, channel |-> sec.channel, height |-> height]}
              /\ t.actors = s.actors /\ t.secrets = s.secrets
    <1> DEFINE t == Effect(s, sec, height)
    <1>1. CASE sec.type = "sigSchemes"
        <2>1. t = [s EXCEPT !.sigSchemes = sec.schemes]  BY <1>1 DEF Effect
        <2>2. SameContents(s, t)  BY <2>1 DEF State, SameContents
        <2> QED  BY <2>2
    <1>2. CASE sec.type = "pkeSchemes"
        <2>1. t = [s EXCEPT !.pkeSchemes = sec.schemes]  BY <1>2 DEF Effect
        <2>2. SameContents(s, t)  BY <2>1 DEF State, SameContents
        <2> QED  BY <2>2
    <1>3. CASE sec.type = "creation"
        <2>1. t = [s EXCEPT !.application = TRUE]  BY <1>3 DEF Effect
        <2>2. SameContents(s, t)  BY <2>1 DEF State, SameContents
        <2> QED  BY <2>2
    <1>4. CASE sec.type = "writer"
        <2> DEFINE writers == Append(s.writers, sec.account)
        <2>1. t = [s EXCEPT !.writers = writers]  BY <1>4 DEF Effect
        <2> HIDE DEF writers
        <2>2. SameContents(s, t)  BY <2>1 DEF State, SameContents
        <2> QED  BY <2>2
    <1>5. CASE sec.type = "actor" /\ ~ActorRejected(s, sec)
        <2> DEFINE actors == Append(s.actors, [name |-> sec.name, keyHeight |-> 0])
        <2>1. t = [s EXCEPT !.actors = actors]  BY <1>5 DEF Effect, WithActor
        <2> HIDE DEF actors
        <2>2. /\ t.actors = actors
              /\ t.secrets = s.secrets /\ t.invitations = s.invitations
            BY <2>1 DEF State
        <2> QED  BY <1>5, <2>2 DEF actors
    <1>6. CASE sec.type = "subscription" /\ ~SubscriptionRejected(s, sec)
        <2> DEFINE actors == [s.actors EXCEPT ![sec.actor] =
                                [name |-> s.actors[sec.actor].name, keyHeight |-> height]]
        <2>1. t = [s EXCEPT !.actors = actors]  BY <1>6 DEF Effect, WithKey
        <2> HIDE DEF actors
        <2>2. /\ t.actors = actors
              /\ t.secrets = s.secrets /\ t.invitations = s.invitations
            BY <2>1 DEF State
        <2> QED  BY <1>6, <2>2 DEF actors
    <1>7. CASE sec.type = "channel" /\ ~ChannelRejected(s, sec)
        <2> DEFINE channels == Append(s.channels, [name |-> sec.name, creator |-> sec.creator])
        <2>1. t = [s EXCEPT !.channels = channels]  BY <1>7 DEF Effect, WithChannel
        <2> HIDE DEF channels
        <2>2. SameContents(s, t)  BY <2>1 DEF State, SameContents
        <2> QED  BY <2>2
    <1>8. CASE sec.type = "secret"
        <2>1. t = WithSecret(s, sec, height)  BY <1>8 DEF Effect
        <2>2. t.actors = s.actors /\ t.invitations = s.invitations
            BY <2>1 DEF WithSecret, State
        <2> QED  BY <1>8, <2>1, <2>2
    <1>9. CASE sec.type = "invitation" /\ ActorDefined(s, sec.guest)
        <2> DEFINE invitations == s.invitations
                     \cup {[actor |-> sec.guest, channel |-> sec.channel, height |-> height]}
        <2>1. t = [s EXCEPT !.invitations = invitations]  BY <1>9 DEF Effect, WithInvitation
        <2> HIDE DEF invitations
        <2>2. /\ t.invitations = invitations
              /\ t.actors = s.actors /\ t.secrets = s.secrets
            BY <2>1 DEF State
        <2> QED  BY <1>9, <2>2 DEF invitations
    <1>10. CASE /\ sec.type \notin {"sigSchemes", "pkeSchemes", "creation", "writer", "secret"}
                /\ ~(sec.type = "actor" /\ ~ActorRejected(s, sec))
                /\ ~(sec.type = "subscription" /\ ~SubscriptionRejected(s, sec))
                /\ ~(sec.type = "channel" /\ ~ChannelRejected(s, sec))
                /\ ~(sec.type = "invitation" /\ ActorDefined(s, sec.guest))
        <2>1. t = s  BY <1>10 DEF Effect
        <2> QED  BY <2>1 DEF SameContents
    <1> QED  BY <1>1, <1>2, <1>3, <1>4, <1>5, <1>6, <1>7, <1>8, <1>9, <1>10

\* No section takes an actor's name, or the key of a subscribed one, away.
KeepsActors(s, t) ==
    \A id \in DOMAIN s.actors :
      /\ id \in DOMAIN t.actors
      /\ t.actors[id].name = s.actors[id].name
      /\ Subscribed(s, id) => t.actors[id].keyHeight = s.actors[id].keyHeight

LEMMA EffectKeepsActors ==
    ASSUME NEW s \in State, NEW sec, WellFormed(sec), NEW height
    PROVE  KeepsActors(s, Effect(s, sec, height))
    <1> DEFINE t == Effect(s, sec, height)
    <1> SUFFICES ASSUME NEW id \in DOMAIN s.actors
                 PROVE  /\ id \in DOMAIN t.actors
                        /\ t.actors[id].name = s.actors[id].name
                        /\ Subscribed(s, id) => t.actors[id].keyHeight = s.actors[id].keyHeight
        BY DEF KeepsActors
    <1>1. s.actors \in Seq(Actor)  BY DEF State
    <1> HIDE DEF t
    <1>2. CASE t.actors = s.actors  BY <1>2
    <1>3. CASE /\ sec.type = "actor"
               /\ t.actors = Append(s.actors, [name |-> sec.name, keyHeight |-> 0])
        <2> DEFINE actor == [name |-> sec.name, keyHeight |-> 0]
        <2>1. actor \in Actor  BY <1>3 DEF WellFormed, Actor
        <2>2. t.actors = Append(s.actors, actor)  BY <1>3
        <2> HIDE DEF actor
        <2>3. t.actors[id] = s.actors[id] /\ id \in DOMAIN t.actors  BY <1>1, <2>1, <2>2
        <2> QED  BY <2>3
    <1>4. CASE /\ sec.type = "subscription" /\ ~SubscriptionRejected(s, sec)
               /\ t.actors = [s.actors EXCEPT ![sec.actor] =
                                [name |-> s.actors[sec.actor].name, keyHeight |-> height]]
        <2> DEFINE actor == [name |-> s.actors[sec.actor].name, keyHeight |-> height]
        <2>1. ~Subscribed(s, sec.actor)  BY <1>4 DEF SubscriptionRejected
        <2>2. actor.name = s.actors[sec.actor].name  OBVIOUS
        <2>3. t.actors = [s.actors EXCEPT ![sec.actor] = actor]  BY <1>4
        <2> HIDE DEF actor
        <2>4. DOMAIN t.actors = DOMAIN s.actors
              /\ t.actors[id] = IF id = sec.actor THEN actor ELSE s.actors[id]
            BY <1>1, <2>3
        <2> QED  BY <2>1, <2>2, <2>4
    <1> QED  BY <1>2, <1>3, <1>4, EffectContents DEF SameContents, t

\* What a section does to the channels.
LEMMA EffectChannels ==
    ASSUME NEW s \in State, NEW sec, NEW height
    PROVE  LET t == Effect(s, sec, height) IN
           \/ t.channels = s.channels
           \/ /\ sec.type = "channel" /\ ~ChannelRejected(s, sec)
              /\ t.channels = Append(s.channels, [name |-> sec.name, creator |-> sec.creator])
    <1> DEFINE t == Effect(s, sec, height)
    <1>1. CASE sec.type = "sigSchemes"
        <2>1. t = [s EXCEPT !.sigSchemes = sec.schemes]  BY <1>1 DEF Effect
        <2> QED  BY <2>1 DEF State
    <1>2. CASE sec.type = "pkeSchemes"
        <2>1. t = [s EXCEPT !.pkeSchemes = sec.schemes]  BY <1>2 DEF Effect
        <2> QED  BY <2>1 DEF State
    <1>3. CASE sec.type = "creation"
        <2>1. t = [s EXCEPT !.application = TRUE]  BY <1>3 DEF Effect
        <2> QED  BY <2>1 DEF State
    <1>4. CASE sec.type = "writer"
        <2> DEFINE writers == Append(s.writers, sec.account)
        <2>1. t = [s EXCEPT !.writers = writers]  BY <1>4 DEF Effect
        <2> HIDE DEF writers
        <2> QED  BY <2>1 DEF State
    <1>5. CASE sec.type = "actor" /\ ~ActorRejected(s, sec)
        <2> DEFINE actors == Append(s.actors, [name |-> sec.name, keyHeight |-> 0])
        <2>1. t = [s EXCEPT !.actors = actors]  BY <1>5 DEF Effect, WithActor
        <2> HIDE DEF actors
        <2> QED  BY <2>1 DEF State
    <1>6. CASE sec.type = "subscription" /\ ~SubscriptionRejected(s, sec)
        <2> DEFINE actors == [s.actors EXCEPT ![sec.actor] =
                                [name |-> s.actors[sec.actor].name, keyHeight |-> height]]
        <2>1. t = [s EXCEPT !.actors = actors]  BY <1>6 DEF Effect, WithKey
        <2> HIDE DEF actors
        <2> QED  BY <2>1 DEF State
    <1>7. CASE sec.type = "channel" /\ ~ChannelRejected(s, sec)
        <2> DEFINE channels == Append(s.channels, [name |-> sec.name, creator |-> sec.creator])
        <2>1. t = [s EXCEPT !.channels = channels]  BY <1>7 DEF Effect, WithChannel
        <2> HIDE DEF channels
        <2>2. t.channels = channels  BY <2>1 DEF State
        <2> QED  BY <1>7, <2>2 DEF channels
    <1>8. CASE sec.type = "secret"
        <2>1. t = WithSecret(s, sec, height)  BY <1>8 DEF Effect
        <2>2. t.channels = s.channels  BY <2>1 DEF WithSecret, State
        <2> QED  BY <2>2
    <1>9. CASE sec.type = "invitation" /\ ActorDefined(s, sec.guest)
        <2> DEFINE invitations == s.invitations
                     \cup {[actor |-> sec.guest, channel |-> sec.channel, height |-> height]}
        <2>1. t = [s EXCEPT !.invitations = invitations]  BY <1>9 DEF Effect, WithInvitation
        <2> HIDE DEF invitations
        <2> QED  BY <2>1 DEF State
    <1>10. CASE /\ sec.type \notin {"sigSchemes", "pkeSchemes", "creation", "writer", "secret"}
                /\ ~(sec.type = "actor" /\ ~ActorRejected(s, sec))
                /\ ~(sec.type = "subscription" /\ ~SubscriptionRejected(s, sec))
                /\ ~(sec.type = "channel" /\ ~ChannelRejected(s, sec))
                /\ ~(sec.type = "invitation" /\ ActorDefined(s, sec.guest))
        <2>1. t = s  BY <1>10 DEF Effect
        <2> QED  BY <2>1
    <1> QED  BY <1>1, <1>2, <1>3, <1>4, <1>5, <1>6, <1>7, <1>8, <1>9, <1>10

\* A refused section leaves nothing behind, except the host's half of a shared secret.
LEMMA RejectedLeavesNothing ==
    ASSUME NEW s, NEW sec, Rejected(s, sec), sec.type # "secret", NEW height
    PROVE  Effect(s, sec, height) = s
    <1>1. CASE sec.type = "actor"  BY <1>1 DEF Rejected, Effect
    <1>2. CASE sec.type = "subscription"  BY <1>2 DEF Rejected, Effect
    <1>3. CASE sec.type = "channel"  BY <1>3 DEF Rejected, Effect
    <1>4. CASE sec.type = "invitation"  BY <1>4 DEF Rejected, Effect
    <1>5. CASE sec.type = "data"  BY <1>5 DEF Rejected, Effect
    <1> QED  BY <1>1, <1>2, <1>3, <1>4, <1>5 DEF Rejected

\* All actors, channels and invitations of s are in t.
Covers(t, s) ==
    /\ KeepsActors(s, t)
    /\ \A c \in DOMAIN s.channels : c \in DOMAIN t.channels /\ t.channels[c] = s.channels[c]
    /\ s.invitations \subseteq t.invitations

LEMMA CoversItself == ASSUME NEW s PROVE Covers(s, s)  BY DEF Covers, KeepsActors

LEMMA CoversTransitive ==
    ASSUME NEW s, NEW t, NEW u, Covers(t, s), Covers(u, t)
    PROVE  Covers(u, s)
    <1>1. KeepsActors(s, t) /\ KeepsActors(t, u)  BY DEF Covers
    <1>2. KeepsActors(s, u)
        <2> SUFFICES ASSUME NEW id \in DOMAIN s.actors
                     PROVE  /\ id \in DOMAIN u.actors
                            /\ u.actors[id].name = s.actors[id].name
                            /\ Subscribed(s, id) => u.actors[id].keyHeight = s.actors[id].keyHeight
            BY DEF KeepsActors
        <2>1. /\ id \in DOMAIN t.actors
              /\ t.actors[id].name = s.actors[id].name
              /\ Subscribed(s, id) => t.actors[id].keyHeight = s.actors[id].keyHeight
            BY <1>1 DEF KeepsActors
        <2>2. /\ id \in DOMAIN u.actors
              /\ u.actors[id].name = t.actors[id].name
              /\ Subscribed(t, id) => u.actors[id].keyHeight = t.actors[id].keyHeight
            BY <1>1, <2>1 DEF KeepsActors
        <2>3. Subscribed(s, id) => Subscribed(t, id)  BY <2>1 DEF Subscribed, ActorDefined
        <2> QED  BY <2>1, <2>2, <2>3
    <1> QED  BY <1>2 DEF Covers

LEMMA CoversSubscribed ==
    ASSUME NEW s, NEW t, Covers(t, s), NEW a, Subscribed(s, a)
    PROVE  /\ Subscribed(t, a) /\ t.actors[a].keyHeight = s.actors[a].keyHeight
    BY DEF Covers, KeepsActors, Subscribed, ActorDefined

\* No section takes anything away.
LEMMA EffectCovers ==
    ASSUME NEW s \in State, NEW sec, WellFormed(sec), NEW height
    PROVE  Covers(Effect(s, sec, height), s)
    <1> DEFINE t == Effect(s, sec, height)
    <1>1. KeepsActors(s, t)  BY EffectKeepsActors
    <1>2. s.invitations \subseteq t.invitations
        <2> DEFINE more == {[actor |-> sec.guest, channel |-> sec.channel, height |-> height]}
        <2>1. t.invitations = s.invitations \/ t.invitations = s.invitations \cup more
            BY EffectContents DEF SameContents
        <2> HIDE DEF t, more
        <2> QED  BY <2>1
    <1>3. \/ t.channels = s.channels
          \/ /\ sec.type = "channel"
             /\ t.channels = Append(s.channels, [name |-> sec.name, creator |-> sec.creator])
        BY EffectChannels
    <1> HIDE DEF t
    <1>4. \A c \in DOMAIN s.channels : c \in DOMAIN t.channels /\ t.channels[c] = s.channels[c]
        <2>1. CASE t.channels = s.channels  BY <2>1
        <2>2. CASE /\ sec.type = "channel"
                   /\ t.channels = Append(s.channels, [name |-> sec.name, creator |-> sec.creator])
            <3> DEFINE channel == [name |-> sec.name, creator |-> sec.creator]
            <3>1. channel \in Channel  BY <2>2 DEF WellFormed, Channel
            <3>2. s.channels \in Seq(Channel) /\ t.channels = Append(s.channels, channel)
                BY <2>2 DEF State
            <3> HIDE DEF channel
            <3> QED  BY <3>1, <3>2
        <2> QED  BY <1>3, <2>1, <2>2
    <1> QED  BY <1>1, <1>2, <1>4 DEF Covers, t

\* What is run on more leaves more, unless the less is refused what the more is not.
LEMMA EffectsCover ==
    ASSUME NEW s \in State, NEW t \in State, Covers(t, s), NEW sec, WellFormed(sec),
           sec.type # "secret", ~Rejected(t, sec), NEW height \in Nat
    PROVE  Covers(Effect(t, sec, height), Effect(s, sec, height))
    <1> DEFINE u == Effect(s, sec, height)
               v == Effect(t, sec, height)
    <1>1. Covers(v, t) /\ Covers(v, s)  BY EffectCovers, CoversTransitive
    <1>2. CASE Rejected(s, sec)
        <2>1. u = s  BY <1>2, RejectedLeavesNothing
        <2> QED  BY <1>1, <2>1
    <1>3. CASE ~Rejected(s, sec)
        <2>1. /\ s.actors \in Seq(Actor) /\ s.channels \in Seq(Channel)
              /\ t.actors \in Seq(Actor) /\ t.channels \in Seq(Channel)
            BY DEF State
        <2>2. /\ KeepsActors(s, v)
              /\ \A c \in DOMAIN s.channels : c \in DOMAIN v.channels /\ v.channels[c] = s.channels[c]
              /\ s.invitations \subseteq v.invitations
            BY <1>1 DEF Covers
        <2>3. CASE sec.type = "actor"
            <3> DEFINE actor == [name |-> sec.name, keyHeight |-> 0]
            <3>1. /\ u.actors = Append(s.actors, actor) /\ v.actors = Append(t.actors, actor)
                  /\ u.channels = s.channels /\ u.invitations = s.invitations
                  /\ sec.id = Len(s.actors) + 1 /\ sec.id = Len(t.actors) + 1
                <4>1. ~ActorRejected(s, sec) /\ ~ActorRejected(t, sec)  BY <1>3, <2>3 DEF Rejected
                <4>2. u = WithActor(s, sec) /\ v = WithActor(t, sec)  BY <2>3, <4>1 DEF Effect
                <4> DEFINE p == Append(s.actors, actor)
                           q == Append(t.actors, actor)
                <4>3. u = [s EXCEPT !.actors = p] /\ v = [t EXCEPT !.actors = q]
                    BY <4>2 DEF WithActor
                <4>4. sec.id = Len(s.actors) + 1 /\ sec.id = Len(t.actors) + 1
                    BY <4>1 DEF ActorRejected
                <4> HIDE DEF actor, p, q, u, v
                <4>5. /\ u.actors = p /\ v.actors = q
                      /\ u.channels = s.channels /\ u.invitations = s.invitations
                    BY <4>3 DEF State
                <4> QED  BY <4>4, <4>5 DEF p, q
            <3>2. actor \in Actor /\ actor.keyHeight = 0  BY <2>3 DEF WellFormed, Actor
            <3> HIDE DEF actor, u, v
            <3>3. /\ DOMAIN u.actors = DOMAIN s.actors \cup {sec.id}
                  /\ u.actors[sec.id] = actor /\ v.actors[sec.id] = actor /\ sec.id \in DOMAIN v.actors
                  /\ \A a \in DOMAIN s.actors : u.actors[a] = s.actors[a]
                BY <2>1, <3>1, <3>2
            <3>4. KeepsActors(u, v)
                <4> SUFFICES ASSUME NEW id \in DOMAIN u.actors
                             PROVE  /\ id \in DOMAIN v.actors
                                    /\ v.actors[id].name = u.actors[id].name
                                    /\ Subscribed(u, id) =>
                                         v.actors[id].keyHeight = u.actors[id].keyHeight
                    BY DEF KeepsActors
                <4>1. CASE id \in DOMAIN s.actors
                    BY <2>2, <3>3, <4>1 DEF KeepsActors, Subscribed, ActorDefined
                <4>2. CASE id = sec.id  BY <3>3, <4>2
                <4> QED  BY <3>3, <4>1, <4>2
            <3> QED  BY <2>2, <3>1, <3>4 DEF Covers, u, v
        <2>4. CASE sec.type = "subscription"
            <3> DEFINE p == [name |-> s.actors[sec.actor].name, keyHeight |-> height]
                       q == [name |-> t.actors[sec.actor].name, keyHeight |-> height]
            <3>1. /\ u.actors = [s.actors EXCEPT ![sec.actor] = p]
                  /\ v.actors = [t.actors EXCEPT ![sec.actor] = q]
                  /\ u.channels = s.channels /\ u.invitations = s.invitations
                  /\ ActorDefined(s, sec.actor)
                <4>1. ~SubscriptionRejected(s, sec) /\ ~SubscriptionRejected(t, sec)
                    BY <1>3, <2>4 DEF Rejected
                <4>2. u = WithKey(s, sec.actor, height) /\ v = WithKey(t, sec.actor, height)
                    BY <2>4, <4>1 DEF Effect
                <4> DEFINE f == [s.actors EXCEPT ![sec.actor] = p]
                           g == [t.actors EXCEPT ![sec.actor] = q]
                <4>3. u = [s EXCEPT !.actors = f] /\ v = [t EXCEPT !.actors = g]
                    BY <4>2 DEF WithKey
                <4>4. ActorDefined(s, sec.actor)  BY <4>1 DEF SubscriptionRejected
                <4> HIDE DEF p, q, f, g, u, v
                <4>5. /\ u.actors = f /\ v.actors = g
                      /\ u.channels = s.channels /\ u.invitations = s.invitations
                    BY <4>3 DEF State
                <4> QED  BY <4>4, <4>5 DEF f, g
            <3>2. /\ p.name = s.actors[sec.actor].name /\ q.name = t.actors[sec.actor].name
                  /\ p.keyHeight = q.keyHeight
                OBVIOUS
            <3>3. t.actors[sec.actor].name = s.actors[sec.actor].name
                BY <3>1 DEF Covers, KeepsActors, ActorDefined
            <3> HIDE DEF p, q, u, v
            <3>4. /\ DOMAIN u.actors = DOMAIN s.actors
                  /\ DOMAIN v.actors = DOMAIN t.actors
                  /\ \A a \in DOMAIN s.actors :
                       u.actors[a] = IF a = sec.actor THEN p ELSE s.actors[a]
                  /\ \A a \in DOMAIN t.actors :
                       v.actors[a] = IF a = sec.actor THEN q ELSE t.actors[a]
                BY <2>1, <3>1
            <3>5. KeepsActors(u, v)
                <4> SUFFICES ASSUME NEW id \in DOMAIN s.actors
                             PROVE  /\ id \in DOMAIN v.actors
                                    /\ v.actors[id].name = u.actors[id].name
                                    /\ Subscribed(u, id) =>
                                         v.actors[id].keyHeight = u.actors[id].keyHeight
                    BY <3>4 DEF KeepsActors
                <4>1. id \in DOMAIN t.actors  BY DEF Covers, KeepsActors
                <4>2. CASE id = sec.actor  BY <3>2, <3>3, <3>4, <4>1, <4>2
                <4>3. CASE id # sec.actor
                    <5>1. u.actors[id] = s.actors[id]  BY <3>4, <4>3
                    <5>2. Subscribed(u, id) => Subscribed(s, id)
                        BY <3>4, <5>1 DEF Subscribed, ActorDefined
                    <5> QED  BY <2>2, <5>1, <5>2 DEF KeepsActors
                <4> QED  BY <4>2, <4>3
            <3> QED  BY <2>2, <3>1, <3>5 DEF Covers, u, v
        <2>5. CASE sec.type = "channel"
            <3> DEFINE channel == [name |-> sec.name, creator |-> sec.creator]
            <3>1. /\ u.channels = Append(s.channels, channel)
                  /\ v.channels = Append(t.channels, channel)
                  /\ u.actors = s.actors /\ u.invitations = s.invitations
                  /\ sec.id = Len(s.channels) + 1 /\ sec.id = Len(t.channels) + 1
                <4>1. ~ChannelRejected(s, sec) /\ ~ChannelRejected(t, sec)
                    BY <1>3, <2>5 DEF Rejected
                <4>2. u = WithChannel(s, sec) /\ v = WithChannel(t, sec)  BY <2>5, <4>1 DEF Effect
                <4> DEFINE p == Append(s.channels, channel)
                           q == Append(t.channels, channel)
                <4>3. u = [s EXCEPT !.channels = p] /\ v = [t EXCEPT !.channels = q]
                    BY <4>2 DEF WithChannel
                <4>4. sec.id = Len(s.channels) + 1 /\ sec.id = Len(t.channels) + 1
                    BY <4>1 DEF ChannelRejected
                <4> HIDE DEF channel, p, q, u, v
                <4>5. /\ u.channels = p /\ v.channels = q
                      /\ u.actors = s.actors /\ u.invitations = s.invitations
                    BY <4>3 DEF State
                <4> QED  BY <4>4, <4>5 DEF p, q
            <3>2. channel \in Channel  BY <2>5 DEF WellFormed, Channel
            <3> HIDE DEF channel, u, v
            <3>3. /\ DOMAIN u.channels = DOMAIN s.channels \cup {sec.id}
                  /\ u.channels[sec.id] = channel /\ v.channels[sec.id] = channel
                  /\ sec.id \in DOMAIN v.channels
                  /\ \A c \in DOMAIN s.channels : u.channels[c] = s.channels[c]
                BY <2>1, <3>1, <3>2
            <3>4. \A c \in DOMAIN u.channels :
                     c \in DOMAIN v.channels /\ v.channels[c] = u.channels[c]
                BY <2>2, <3>3
            <3>5. KeepsActors(u, v)  BY <2>2, <3>1 DEF KeepsActors, Subscribed, ActorDefined
            <3> QED  BY <2>2, <3>1, <3>4, <3>5 DEF Covers, u, v
        <2>6. CASE sec.type = "invitation"
            <3> DEFINE new == {[actor |-> sec.guest, channel |-> sec.channel, height |-> height]}
            <3>1. /\ u.invitations = s.invitations \cup new
                  /\ v.invitations = t.invitations \cup new
                  /\ u.actors = s.actors /\ u.channels = s.channels
                <4>1. ActorDefined(s, sec.guest) /\ ActorDefined(t, sec.guest)
                    BY <1>3, <2>6 DEF Rejected
                <4> DEFINE p == s.invitations \cup new
                           q == t.invitations \cup new
                <4>2. u = [s EXCEPT !.invitations = p] /\ v = [t EXCEPT !.invitations = q]
                    BY <2>6, <4>1 DEF Effect, WithInvitation
                <4> HIDE DEF new, p, q, u, v
                <4>3. /\ u.invitations = p /\ v.invitations = q
                      /\ u.actors = s.actors /\ u.channels = s.channels
                    BY <4>2 DEF State
                <4> QED  BY <4>3 DEF p, q
            <3> HIDE DEF new, u, v
            <3>2. u.invitations \subseteq v.invitations  BY <3>1 DEF Covers
            <3>3. KeepsActors(u, v)  BY <2>2, <3>1 DEF KeepsActors, Subscribed, ActorDefined
            <3> QED  BY <2>2, <3>1, <3>2, <3>3 DEF Covers, u, v
        <2>7. CASE sec.type \notin {"actor", "subscription", "channel", "invitation"}
            <3>1. /\ u.actors = s.actors /\ u.invitations = s.invitations
                  /\ u.channels = s.channels
                <4>1. \/ SameContents(s, u)
                      \/ sec.type \in {"actor", "subscription", "secret", "invitation"}
                    BY EffectContents
                <4>2. u.channels = s.channels  BY <2>7, EffectChannels
                <4> QED  BY <2>7, <4>1, <4>2 DEF SameContents
            <3> HIDE DEF u, v
            <3>2. KeepsActors(u, v)  BY <2>2, <3>1 DEF KeepsActors, Subscribed, ActorDefined
            <3> QED  BY <2>2, <3>1, <3>2 DEF Covers, u, v
        <2> QED  BY <2>3, <2>4, <2>5, <2>6, <2>7
    <1> QED  BY <1>2, <1>3

\* Only a subscription that is not refused subscribes an actor, at its height.
LEMMA NewSubscriber ==
    ASSUME NEW s \in State, NEW sec, WellFormed(sec), NEW height \in Nat, NEW a,
           ~Subscribed(s, a), Subscribed(Effect(s, sec, height), a)
    PROVE  /\ sec.type = "subscription" /\ sec.actor = a
           /\ Effect(s, sec, height).actors[a].keyHeight = height
    <1> DEFINE t == Effect(s, sec, height)
    <1>1. s.actors \in Seq(Actor)  BY DEF State
    <1> HIDE DEF t
    <1>2. CASE t.actors = s.actors  BY <1>2 DEF Subscribed, ActorDefined, t
    <1>3. CASE /\ sec.type = "actor"
               /\ t.actors = Append(s.actors, [name |-> sec.name, keyHeight |-> 0])
        <2> DEFINE actor == [name |-> sec.name, keyHeight |-> 0]
        <2>1. actor \in Actor /\ actor.keyHeight = 0  BY <1>3 DEF WellFormed, Actor
        <2>2. t.actors = Append(s.actors, actor)  BY <1>3
        <2> HIDE DEF actor
        <2>3. \A b \in DOMAIN t.actors : \/ b \in DOMAIN s.actors /\ t.actors[b] = s.actors[b]
                                         \/ t.actors[b] = actor
            BY <1>1, <2>1, <2>2
        <2> QED  BY <2>1, <2>3 DEF Subscribed, ActorDefined, t
    <1>4. CASE /\ sec.type = "subscription" /\ ~SubscriptionRejected(s, sec)
               /\ t.actors = [s.actors EXCEPT ![sec.actor] =
                                [name |-> s.actors[sec.actor].name, keyHeight |-> height]]
        <2> DEFINE actor == [name |-> s.actors[sec.actor].name, keyHeight |-> height]
        <2>1. actor.keyHeight = height  OBVIOUS
        <2>2. t.actors = [s.actors EXCEPT ![sec.actor] = actor]  BY <1>4
        <2> HIDE DEF actor
        <2>3. \A b \in DOMAIN t.actors :
                 /\ b \in DOMAIN s.actors
                 /\ t.actors[b] = IF b = sec.actor THEN actor ELSE s.actors[b]
            BY <1>1, <2>2
        <2> QED  BY <1>4, <2>1, <2>3 DEF Subscribed, ActorDefined, t
    <1> QED  BY <1>2, <1>3, <1>4, EffectContents DEF SameContents, t

\* And it does subscribe it.
LEMMA SubscriptionSubscribes ==
    ASSUME NEW s \in State, NEW sec, WellFormed(sec), NEW height \in Nat \ {0},
           sec.type = "subscription", ~Rejected(s, sec)
    PROVE  /\ Subscribed(Effect(s, sec, height), sec.actor)
           /\ Effect(s, sec, height).actors[sec.actor].keyHeight = height
    <1> DEFINE t == Effect(s, sec, height)
               actor == [name |-> s.actors[sec.actor].name, keyHeight |-> height]
               actors == [s.actors EXCEPT ![sec.actor] = actor]
    <1>1. ~SubscriptionRejected(s, sec) /\ sec.actor \in DOMAIN s.actors
        BY DEF Rejected, SubscriptionRejected, ActorDefined
    <1>2. t = [s EXCEPT !.actors = actors]  BY <1>1 DEF Effect, WithKey
    <1>3. actor.keyHeight = height  OBVIOUS
    <1>4. s.actors \in Seq(Actor)  BY DEF State
    <1> HIDE DEF actor
    <1>5. sec.actor \in DOMAIN actors /\ actors[sec.actor] = actor  BY <1>1, <1>4
    <1> HIDE DEF actors, t
    <1>6. t.actors = actors  BY <1>2 DEF State
    <1> QED  BY <1>3, <1>5, <1>6 DEF Subscribed, ActorDefined, t

\* What StatesOf and Run give, step by step.
LEMMA RunSteps ==
    ASSUME NEW s, NEW sections, NEW height, CanRun(s, sections, height)
    PROVE  /\ StatesOf(s, sections, height)[0] = s
           /\ \A k \in 1 .. Len(sections) :
                StatesOf(s, sections, height)[k] =
                  Effect(StatesOf(s, sections, height)[k - 1], sections[k], height)
           /\ Run(s, sections, height) \in State
    <1>1. Len(sections) \in Nat  BY DEF CanRun
    <1>2. IsRun(StatesOf(s, sections, height), s, sections, height, Len(sections))
        BY StatesOfIsRun
    <1>3. Len(sections) \in 0 .. Len(sections)  BY <1>1
    <1> QED  BY <1>2, <1>3 DEF IsRun, Run
================================================================================
