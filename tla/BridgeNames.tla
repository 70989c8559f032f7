----------------------------- MODULE BridgeNames -----------------------------
(***************************************************************************)
(* The names the bridge gives on the homeserver (Vanity in matrix/app.py,  *)
(* sha256 in matrix/common.py).                                            *)
(*                                                                         *)
(* Users and rooms are found again after a restart by their names alone,   *)
(* and everything a radio ever had keeps its name: the bridge may come     *)
(* back with another radio, or for another user.  A name is a prefix and   *)
(* a digest of the parts that tell the thing apart, put one behind the     *)
(* other with nothing between them.                                        *)
(***************************************************************************)
EXTENDS Naturals, Sequences, FiniteSets

CONSTANTS
  Characters,
  KeyLength,    \* a radio's public key has this many characters
  Keys,         \* the public keys of radios
  Words,        \* the names of channels and of senders
  UserIds,      \* the values of Config.identity_map
  MaxGiven      \* bound: the names given

ASSUME NamesAssumption ==
  /\ KeyLength \in Nat /\ MaxGiven \in Nat
  /\ Keys \subseteq [1 .. KeyLength -> Characters]
  /\ Words \subseteq Seq(Characters) /\ UserIds \subseteq Seq(Characters)

VARIABLES
  identity,   \* the radio attached, and the user it belongs to
  given       \* the names given so far, and what each was given to

vars == <<identity, given>>

Identities == [key : Keys, user : UserIds]

(* The sort of a name tells a user id (@) from a room alias (#). *)
Names == [sort : {"@", "#"}, prefix : {"channel", "contact", "direct1", "space"},
          digest : {"sha256", "plain"} \X Seq(Characters)]

Things == [what : {"puppet", "sender", "channel", "chat", "space"},
           key : Seq(Characters), user : Seq(Characters), of : Seq(Characters)]

TypeOK ==
  /\ identity \in Identities
  /\ given \subseteq [name : Names, to : Things]

-----------------------------------------------------------------------------
(* The digest of different texts is taken to be different; what it is fed  *)
(* are the parts run together.                                             *)
sha256(text) == <<"sha256", text>>

ContactUserId(i, contact) ==
  [sort |-> "@", prefix |-> "contact", digest |-> sha256(i.key \o contact)]

(* The same for every radio: senders on channels are known by name only. *)
SenderUserId(sender) ==
  [sort |-> "@", prefix |-> "channel", digest |-> sha256(sender)]

(* ChannelAliasOfName is a mutant: a plausible slip, used only to confirm  *)
(* that a property notices it.                                             *)
ChannelAliasOfName(i, channel) ==
  [sort |-> "#", prefix |-> "channel", digest |-> sha256(channel)]

ChannelAlias(i, channel) ==
  [sort |-> "#", prefix |-> "channel", digest |-> sha256(i.key \o channel)]

DirectAlias(i, contact) ==
  [sort |-> "#", prefix |-> "direct1", digest |-> sha256(i.key \o i.user \o contact)]

SpaceAlias(i) ==
  [sort |-> "#", prefix |-> "space", digest |-> <<"plain", i.key>>]

-----------------------------------------------------------------------------
(* What the names are given to: the puppet of one radio's contact, a       *)
(* sender on any channel, a radio's channel, the chat of a radio's user    *)
(* with a contact, a radio's space.                                        *)
Puppet(i, c)  == [what |-> "puppet",  key |-> i.key, user |-> <<>>,   of |-> c]
Sender(w)     == [what |-> "sender",  key |-> <<>>,  user |-> <<>>,   of |-> w]
Channel(i, w) == [what |-> "channel", key |-> i.key, user |-> <<>>,   of |-> w]
Chat(i, c)    == [what |-> "chat",    key |-> i.key, user |-> i.user, of |-> c]
Space(i)      == [what |-> "space",   key |-> i.key, user |-> <<>>,   of |-> <<>>]

Give(name, thing) ==
  /\ Cardinality(given) < MaxGiven
  /\ given' = given \cup {[name |-> name, to |-> thing]}

AddPuppet(c) ==
  Give(ContactUserId(identity, c), Puppet(identity, c)) /\ UNCHANGED identity

AddChat(c) ==
  Give(DirectAlias(identity, c), Chat(identity, c)) /\ UNCHANGED identity

AddSender(w) ==
  Give(SenderUserId(w), Sender(w)) /\ UNCHANGED identity

AddChannel(w) ==
  Give(ChannelAlias(identity, w), Channel(identity, w)) /\ UNCHANGED identity

AddChatter ==
  Give(SpaceAlias(identity), Space(identity)) /\ UNCHANGED identity

(* The bridge is started for another radio, or another user. *)
Restart ==
  /\ identity' \in Identities
  /\ UNCHANGED given

Init ==
  /\ identity \in Identities
  /\ given = {}

Next ==
  \/ \E c \in Keys : AddPuppet(c) \/ AddChat(c)
  \/ \E w \in Words : AddSender(w) \/ AddChannel(w)
  \/ AddChatter \/ Restart

Spec == Init /\ [][Next]_vars

-----------------------------------------------------------------------------
(* No two things share a name, whatever radios and users the bridge has    *)
(* run for: keys have one length, so that the end of one part and the      *)
(* start of the next are never taken for each other.                       *)
OneName ==
  \A x, y \in given : x.name = y.name => x.to = y.to
=============================================================================
