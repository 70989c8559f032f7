------------------------- MODULE BridgeNamesProofs -------------------------
(***************************************************************************)
(* No two things share a name, for keys of any one length, any names of    *)
(* channels and senders and any users: the steps keep every name the       *)
(* bridge gives within Named, the pairs of a thing and the name made for   *)
(* it, and in Named a name determines the thing.                           *)
(***************************************************************************)
EXTENDS BridgeNames, SequenceTheorems, TLAPS

Pair(name, thing) == [name |-> name, to |-> thing]

Named(x) ==
  \/ \E i \in Identities, c \in Keys :
       x = Pair(ContactUserId(i, c), Puppet(i, c)) \/ x = Pair(DirectAlias(i, c), Chat(i, c))
  \/ \E i \in Identities, w \in Words :
       x = Pair(SenderUserId(w), Sender(w)) \/ x = Pair(ChannelAlias(i, w), Channel(i, w))
  \/ \E i \in Identities : x = Pair(SpaceAlias(i), Space(i))

NamedInv ==
  /\ identity \in Identities
  /\ \A x \in given : Named(x)

-----------------------------------------------------------------------------
Text == Seq(Characters)

Concat(s, t) == s \o t

(* A key is a text of KeyLength characters. *)
LEMMA KeyIsText ==
  ASSUME NEW k \in Keys
  PROVE  k \in Text /\ Len(k) = KeyLength
BY NamesAssumption DEF Text

(* Texts whose first parts are of one length are the same only if their    *)
(* first parts are, and the rests.                                         *)
LEMMA SplitConcat ==
  ASSUME NEW p \in Text, NEW q \in Text, NEW s \in Text, NEW t \in Text,
         Len(p) = Len(q), Concat(p, s) = Concat(q, t)
  PROVE  p = q /\ s = t
<1> USE DEF Concat
<1>1. Len(s) = Len(t)
  BY ConcatProperties DEF Text
<1>2. p = q
  <2>1. \A i \in 1 .. Len(p) : p[i] = (p \o s)[i] /\ q[i] = (q \o t)[i]
    BY ConcatProperties DEF Text
  <2> QED BY <2>1, SeqEqual DEF Text
<1>3. s = t
  <2>1. ASSUME NEW i \in 1 .. Len(s)
        PROVE  s[i] = t[i]
    <3> DEFINE j == Len(p) + i
    <3>1. j \in 1 .. Len(p) + Len(s) /\ ~ (j <= Len(p)) /\ j - Len(p) = i
      OBVIOUS
    <3> HIDE DEF j
    <3>2. (p \o s)[j] = s[i] /\ (q \o t)[j] = t[i]
      BY <1>1, <3>1, ConcatProperties DEF Text
    <3> QED BY <3>2
  <2> QED BY <1>1, <2>1, SeqEqual DEF Text
<1> QED BY <1>2, <1>3

(* Running two texts together gives a text, as long as both. *)
LEMMA ConcatIsText ==
  ASSUME NEW p \in Text, NEW s \in Text
  PROVE  Concat(p, s) \in Text /\ Len(Concat(p, s)) = Len(p) + Len(s)
BY ConcatProperties DEF Text, Concat

(* The last parts of texts of one length, when they are of one length too, *)
(* begin at one place.                                                     *)
LEMMA SplitAtEnd ==
  ASSUME NEW p \in Text, NEW q \in Text, NEW s \in Text, NEW t \in Text,
         Len(s) = Len(t), Concat(p, s) = Concat(q, t)
  PROVE  p = q /\ s = t
<1>1. Len(p) \in Nat /\ Len(q) \in Nat /\ Len(s) \in Nat
  BY DEF Text
<1>2. Len(p) = Len(q)
  <2>1. Len(Concat(p, s)) = Len(p) + Len(s) /\ Len(Concat(q, t)) = Len(q) + Len(t)
    BY ConcatIsText
  <2> QED BY <1>1, <2>1
<1> QED BY <1>2, SplitConcat

-----------------------------------------------------------------------------
(* Of two names made for things, equal ones were made for one thing. *)
LEMMA NameDetermines ==
  ASSUME NEW x, NEW y, Named(x), Named(y), x.name = y.name
  PROVE  x.to = y.to
<1> USE DEF Pair
<1>1. CASE \E i \in Identities, c \in Keys : x = Pair(ContactUserId(i, c), Puppet(i, c))
  <2>1. PICK i \in Identities, c \in Keys : x = Pair(ContactUserId(i, c), Puppet(i, c))
    BY <1>1
  <2>2. x.name.sort = "@" /\ x.name.prefix = "contact"
    BY <2>1 DEF ContactUserId
  <2>3. PICK j \in Identities, d \in Keys : y = Pair(ContactUserId(j, d), Puppet(j, d))
    BY <2>2 DEF Named, ContactUserId, SenderUserId, ChannelAlias, DirectAlias, SpaceAlias
  <2>4. Concat(i.key, c) = Concat(j.key, d)
    BY <2>1, <2>3 DEF ContactUserId, sha256, Concat
  <2>5. i.key = j.key /\ c = d
    <3>1. i.key \in Keys /\ j.key \in Keys
      BY DEF Identities, Text
    <3> QED BY <2>4, <3>1, KeyIsText, SplitConcat
  <2> QED BY <2>1, <2>3, <2>5 DEF Puppet
<1>2. CASE \E i \in Identities, c \in Keys : x = Pair(DirectAlias(i, c), Chat(i, c))
  <2>1. PICK i \in Identities, c \in Keys : x = Pair(DirectAlias(i, c), Chat(i, c))
    BY <1>2
  <2>2. x.name.sort = "#" /\ x.name.prefix = "direct1"
    BY <2>1 DEF DirectAlias
  <2>3. PICK j \in Identities, d \in Keys : y = Pair(DirectAlias(j, d), Chat(j, d))
    BY <2>2 DEF Named, ContactUserId, SenderUserId, ChannelAlias, DirectAlias, SpaceAlias
  <2> DEFINE p == Concat(i.key, i.user)
             q == Concat(j.key, j.user)
  <2>4. Concat(p, c) = Concat(q, d)
    BY <2>1, <2>3 DEF DirectAlias, sha256, Concat
  <2>5. i.key = j.key /\ i.user = j.user /\ c = d
    <3>1. /\ i.key \in Text /\ j.key \in Text /\ Len(i.key) = Len(j.key)
          /\ i.user \in Text /\ j.user \in Text
          /\ c \in Text /\ d \in Text /\ Len(c) = Len(d)
      BY KeyIsText, NamesAssumption DEF Identities, Text
    <3>2. p \in Text /\ q \in Text
      BY <3>1, ConcatIsText
    <3>3. p = q => i.key = j.key /\ i.user = j.user
      BY <3>1, SplitConcat
    <3> HIDE DEF p, q
    <3>4. p = q /\ c = d
      BY <2>4, <3>1, <3>2, SplitAtEnd
    <3> QED BY <3>3, <3>4
  <2> QED BY <2>1, <2>3, <2>5 DEF Chat
<1>3. CASE \E i \in Identities, w \in Words : x = Pair(SenderUserId(w), Sender(w))
  <2>1. PICK w \in Words : x = Pair(SenderUserId(w), Sender(w))
    BY <1>3
  <2>2. x.name.sort = "@" /\ x.name.prefix = "channel"
    BY <2>1 DEF SenderUserId
  <2>3. PICK v \in Words : y = Pair(SenderUserId(v), Sender(v))
    BY <2>2 DEF Named, ContactUserId, SenderUserId, ChannelAlias, DirectAlias, SpaceAlias
  <2> QED BY <2>1, <2>3 DEF SenderUserId, Sender, sha256
<1>4. CASE \E i \in Identities, w \in Words : x = Pair(ChannelAlias(i, w), Channel(i, w))
  <2>1. PICK i \in Identities, w \in Words : x = Pair(ChannelAlias(i, w), Channel(i, w))
    BY <1>4
  <2>2. x.name.sort = "#" /\ x.name.prefix = "channel"
    BY <2>1 DEF ChannelAlias
  <2>3. PICK j \in Identities, v \in Words : y = Pair(ChannelAlias(j, v), Channel(j, v))
    BY <2>2 DEF Named, ContactUserId, SenderUserId, ChannelAlias, DirectAlias, SpaceAlias
  <2>4. Concat(i.key, w) = Concat(j.key, v)
    BY <2>1, <2>3 DEF ChannelAlias, sha256, Concat
  <2>5. i.key = j.key /\ w = v
    <3>1. /\ i.key \in Keys /\ j.key \in Keys
          /\ w \in Text /\ v \in Text
      BY NamesAssumption DEF Identities, Text
    <3> QED BY <2>4, <3>1, KeyIsText, SplitConcat
  <2> QED BY <2>1, <2>3, <2>5 DEF Channel
<1>5. CASE \E i \in Identities : x = Pair(SpaceAlias(i), Space(i))
  <2>1. PICK i \in Identities : x = Pair(SpaceAlias(i), Space(i))
    BY <1>5
  <2>2. x.name.sort = "#" /\ x.name.prefix = "space"
    BY <2>1 DEF SpaceAlias
  <2>3. PICK j \in Identities : y = Pair(SpaceAlias(j), Space(j))
    BY <2>2 DEF Named, ContactUserId, SenderUserId, ChannelAlias, DirectAlias, SpaceAlias
  <2> QED BY <2>1, <2>3 DEF SpaceAlias, Space
<1> QED BY <1>1, <1>2, <1>3, <1>4, <1>5 DEF Named

(* Every step of the bridge keeps its names within Named. *)
LEMMA NamedInductive ==
  NamedInv /\ [Next]_vars => NamedInv'
<1> SUFFICES ASSUME NamedInv, [Next]_vars PROVE NamedInv'
  OBVIOUS
<1> USE DEF NamedInv
<1>1. ASSUME NEW c \in Keys, AddPuppet(c) PROVE NamedInv'
  BY <1>1 DEF AddPuppet, Give, Named, Pair
<1>2. ASSUME NEW c \in Keys, AddChat(c) PROVE NamedInv'
  BY <1>2 DEF AddChat, Give, Named, Pair
<1>3. ASSUME NEW w \in Words, AddSender(w) PROVE NamedInv'
  BY <1>3 DEF AddSender, Give, Named, Pair
<1>4. ASSUME NEW w \in Words, AddChannel(w) PROVE NamedInv'
  BY <1>4 DEF AddChannel, Give, Named, Pair
<1>5. CASE AddChatter
  BY <1>5 DEF AddChatter, Give, Named, Pair
<1>6. CASE Restart
  BY <1>6 DEF Restart
<1>7. CASE UNCHANGED vars
  BY <1>7 DEF vars
<1> QED BY <1>1, <1>2, <1>3, <1>4, <1>5, <1>6, <1>7 DEF Next

(* The names the bridge gives are names made by Vanity for their things,   *)
(* in every state.                                                         *)
THEOREM AlwaysNamed == Spec => []NamedInv
<1>1. Init => NamedInv
  BY DEF Init, NamedInv
<1> QED BY <1>1, NamedInductive, PTL DEF Spec

(* No two things share a name: run together without a separator, the parts *)
(* of a name can still be told apart, because keys have one length.        *)
THEOREM NamesDiffer == Spec => []OneName
<1>1. NamedInv => OneName
  BY NameDetermines DEF NamedInv, OneName
<1> QED BY <1>1, AlwaysNamed, PTL
=============================================================================
