-------------------------- MODULE ApplicationLedger --------------------------
(* The internal state of an application ledger and what each section of a
   microblock does to it.  The callbacks work on the state object itself: Effect
   is what a section leaves in it, also when the callback throws (Rejected).
   Identifiers of actors and channels count from 1.  A signature key and an
   encryption key are always subscribed together, so one height stands for both.
   Channel data leaves no trace in the state. *)
EXTENDS Integers, Sequences

CONSTANTS Names,      \* names of actors and channels
          Accounts,   \* accounts that may become writers
          Schemes     \* signature and encryption schemes

InitialState == [application |-> FALSE, writers |-> <<>>,
                 sigSchemes |-> {}, pkeSchemes |-> {},
                 actors |-> <<>>, channels |-> <<>>,
                 secrets |-> {}, invitations |-> {}]

Actor == [name : Names, keyHeight : Nat]          \* 0: not subscribed
Channel == [name : Names, creator : Nat]
Secret == [actor : Nat, peer : Nat, height : Nat]
Invitation == [actor : Nat, channel : Nat, height : Nat]

State == [application : BOOLEAN, writers : Seq(Accounts),
          sigSchemes : SUBSET Schemes, pkeSchemes : SUBSET Schemes,
          actors : Seq(Actor), channels : Seq(Channel),
          secrets : SUBSET Secret, invitations : SUBSET Invitation]

Section == [type : {"sigSchemes", "pkeSchemes"}, schemes : SUBSET Schemes]
           \cup [type : {"creation"}]
           \cup [type : {"writer"}, account : Accounts]
           \cup [type : {"actor"}, id : Nat, name : Names]
           \cup [type : {"subscription"}, actor : Nat, sig : Schemes, pke : Schemes]
           \cup [type : {"channel"}, id : Nat, name : Names, creator : Nat]
           \cup [type : {"secret"}, host : Nat, guest : Nat]
           \cup [type : {"invitation"}, guest : Nat, channel : Nat]
           \cup [type : {"data"}, channel : Nat]
           \cup [type : {"signature"}]

-----------------------------------------------------------------------------

ActorDefined(s, id) == id \in DOMAIN s.actors
ChannelDefined(s, id) == id \in DOMAIN s.channels
ActorNamed(s, name) == \E a \in DOMAIN s.actors : s.actors[a].name = name
ChannelNamed(s, name) == \E c \in DOMAIN s.channels : s.channels[c].name = name
Subscribed(s, id) == ActorDefined(s, id) /\ s.actors[id].keyHeight # 0

\* No scheme listed means that all are allowed.
Allowed(schemes, scheme) == schemes = {} \/ scheme \in schemes

\* Mutant: only the identifier of a new actor is checked.
ActorRejectedById(s, sec) == sec.id # Len(s.actors) + 1

ActorRejected(s, sec) == sec.id # Len(s.actors) + 1 \/ ActorNamed(s, sec.name)

\* Mutant: an actor may subscribe again.
SubscriptionRejectedByScheme(s, sec) == \/ ~ActorDefined(s, sec.actor)
                                        \/ ~Allowed(s.sigSchemes, sec.sig)
                                        \/ ~Allowed(s.pkeSchemes, sec.pke)

SubscriptionRejected(s, sec) == \/ ~ActorDefined(s, sec.actor)
                                \/ Subscribed(s, sec.actor)
                                \/ ~Allowed(s.sigSchemes, sec.sig)
                                \/ ~Allowed(s.pkeSchemes, sec.pke)

ChannelRejected(s, sec) == \/ sec.id # Len(s.channels) + 1
                           \/ ChannelNamed(s, sec.name)
                           \/ ~ActorDefined(s, sec.creator)

SecretRejected(s, sec) == ~ActorDefined(s, sec.host) \/ ~ActorDefined(s, sec.guest)

\* The callback of this section throws.
Rejected(s, sec) == \/ sec.type = "actor" /\ ActorRejected(s, sec)
                    \/ sec.type = "subscription" /\ SubscriptionRejected(s, sec)
                    \/ sec.type = "channel" /\ ChannelRejected(s, sec)
                    \/ sec.type = "secret" /\ SecretRejected(s, sec)
                    \/ sec.type = "invitation" /\ ~ActorDefined(s, sec.guest)
                    \/ sec.type = "data" /\ ~ChannelDefined(s, sec.channel)

-----------------------------------------------------------------------------

WithActor(s, sec) == [s EXCEPT !.actors = Append(s.actors, [name |-> sec.name, keyHeight |-> 0])]

WithKey(s, id, height) ==
    [s EXCEPT !.actors = [s.actors EXCEPT ![id] = [name |-> s.actors[id].name, keyHeight |-> height]]]

WithChannel(s, sec) ==
    [s EXCEPT !.channels = Append(s.channels, [name |-> sec.name, creator |-> sec.creator])]

\* The host's half is pushed before the guest is looked up.
WithSecret(s, sec, height) ==
    [s EXCEPT !.secrets =
        s.secrets
        \cup (IF ActorDefined(s, sec.host)
              THEN {[actor |-> sec.host, peer |-> sec.guest, height |-> height]} ELSE {})
        \cup (IF ~SecretRejected(s, sec)
              THEN {[actor |-> sec.guest, peer |-> sec.host, height |-> height]} ELSE {})]

WithInvitation(s, sec, height) ==
    [s EXCEPT !.invitations =
        s.invitations \cup {[actor |-> sec.guest, channel |-> sec.channel, height |-> height]}]

\* updateStateFromSection: the state object after the callback, whether it
\* returned or threw.
Effect(s, sec, height) ==
    CASE sec.type = "sigSchemes" -> [s EXCEPT !.sigSchemes = sec.schemes]
      [] sec.type = "pkeSchemes" -> [s EXCEPT !.pkeSchemes = sec.schemes]
      [] sec.type = "creation" -> [s EXCEPT !.application = TRUE]
      [] sec.type = "writer" -> [s EXCEPT !.writers = Append(s.writers, sec.account)]
      [] sec.type = "actor" /\ ~ActorRejected(s, sec) -> WithActor(s, sec)
      [] sec.type = "subscription" /\ ~SubscriptionRejected(s, sec) -> WithKey(s, sec.actor, height)
      [] sec.type = "channel" /\ ~ChannelRejected(s, sec) -> WithChannel(s, sec)
      [] sec.type = "secret" -> WithSecret(s, sec, height)
      [] sec.type = "invitation" /\ ActorDefined(s, sec.guest) -> WithInvitation(s, sec, height)
      [] OTHER -> s

\* updateState: the states that sections of one microblock give one after the other, from
\* s on, and the last of them.
StatesOf(s, sections, height) ==
    LET state[n \in 0 .. Len(sections)] ==
          IF n = 0 THEN s ELSE Effect(state[n - 1], sections[n], height)
    IN state

Run(s, sections, height) == StatesOf(s, sections, height)[Len(sections)]

-----------------------------------------------------------------------------
(* Names of a state. *)

UniqueActors(s) == \A a, b \in DOMAIN s.actors : s.actors[a].name = s.actors[b].name => a = b
UniqueChannels(s) ==
    \A c, d \in DOMAIN s.channels : s.channels[c].name = s.channels[d].name => c = d
CreatorsExist(s) == \A c \in DOMAIN s.channels : s.channels[c].creator \in DOMAIN s.actors
=============================================================================
