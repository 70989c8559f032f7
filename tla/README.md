# A TLA+ model of mcorechat

mcorechat bridges a MeshCore LoRa radio and Matrix. It is an asyncio program that talks to
a radio over a serial line or TCP, and to a homeserver both as a client and as an
*application service*: the homeserver pushes the events of its rooms to it, and it acts there
for any number of *puppets*, one for every sender heard on the radio.

This directory holds a model of that program, the TLC runs that check it on small instances,
and the theorems about it that TLAPS proves for all instances. Paths below are relative to
`src/src/mcorechat/`.

## 1. The system

| Part | State it keeps | Operations |
|---|---|---|
| `MeshCorePlus` (mcorechat.py 77-158) | `contact_cache`, filled once; `channel_cache`, replaced by list-channels only | look up contacts and channels, send |
| `RadioChatter` (186-434) | `lock`, `added_public_keys`, `added_channel_names`, the lock of the message drain | `init`, `add_channel`, `remove_channel`, `add_contact`, the commands, `run` |
| `MatrixChatter` (app.py 197-356) | its space, identity and identity user | prune and add contacts, add and remove channels, send as a puppet |
| `MatrixChatterManager` (359-584) | `room_manager`, `contact_manager`, the member cache `room_members` | `add_chatter`, the transactions and their two event handlers, `users`, `rooms` |
| `MatrixClient`, `client_attempt` (matrix_client.py, client_common.py) | one HTTP session | requests, and their repetition with backoff |
| `amain` (mcorechat.py 453-510) | the main task | start each radio in turn, then run them and the server in one TaskGroup |
| the radio, the homeserver (external) | channel table, contacts, stored messages; rooms, members, profiles, event queue | |

How they interact:

- **Radio to rooms.** The radio announces that messages wait; `run` takes them one by one,
  deleting each from the radio, and posts them as puppets, which are invited, registered,
  named and joined on first use.
- **Rooms to radio.** The homeserver pushes transactions, repeating one until it is answered
  200; the handler of a room's messages is a closure over a channel *slot* or a contact.
- **Commands.** Messages in the command room change the radio's channels and the rooms bound
  to them. Since transactions are repeated while the earlier handler may still run (aiohttp
  does not cancel it, and nothing looks at the txn_id), commands overlap although the
  homeserver sends transactions in order. So do the handlers of messages and of memberships:
  one that was given up goes on with its batch, also after the repetition, and later
  transactions, were acknowledged.
- **Startup.** Everything the rooms need is built by idempotent steps at every start. Any
  error ends the process.

What is hard: every `await` lets other tasks run, so what was read before it may be old
after it (the two caches, the registries around the radio command); every request can fail or
have its effect and fail; get_msg is destructive; the two directions of Matrix traffic race
(a request's answer against the pushed event about the same change); the process may die
between any two requests, and the next one must finish the work. `PROJECT.json` lists these
hazards line by line with the properties that cover them.

What correctness means for each part:

- *Commands and rooms*: a message goes on air on the channel of its room and is posted in
  the room of the channel it was heard on, also while channels change; the registries
  agree; the bridge's own rooms stay; no command blocks the others for ever.
- *Drain*: at most once, in order but for requests that arrive late, nothing forgotten
  without a cause.
- *Puppets*: in the room when they post, named, and their cache entries end up right.
- *Direct chats*: an invitation is served whole, a direct message finds the user.
- *Transactions*: nothing of the identity user's is lost silently, nothing overtakes; what
  can hold the queue up is known.
- *Startup*: what it leaves is complete and mirrors the radio, after any number of cuts.
- *Requests*: a message is posted at most once, and outages are outlasted.
- *Names*: no two things share a user id or an alias.

## 2. The modules

| Module | Models | State ↔ code |
|---|---|---|
| `RadioChannels` | set-channel, clear-channel, list-channels, add_channel, remove_channel | `device` the radio's slots; `channel_cache`, `added_channel_names`, `lock` by name; `routes` is `RoomManager` with the slot of each handler; `task` the locals of each command at its await |
| `CarefulChannels` | the same, used by a careful operator | its actions are those of `RadioChannels` under guards the code does *not* have |
| `ChannelTraffic` | `CarefulChannels` composed with the messages under way: `channel_callback`, `send_chan_msg`, `handle_channel_msg_recv` | `link` the serial line with commands and messages in order; `inbox` the radio's store with the slot of each message; `post` what `run` is posting; history: the channel a message was heard on, and whether its slot went to another since (`moved`) |
| `RadioInbox` | `run`'s drain: triggers, lock, get_msg, posting, stop and start | `inbox`/`taken` the radio's store; `pc`, `held`, `lock` the drain of each task; `posted` the rooms; `late` posts given up with their request on its way; `missed`, `gave_up` history |
| `MessageRelay` | abstract: what a one-way relay promises: in the order of arrival, each at most once; one that was given up in its turn may come at any later time | |
| `Transactions` | how the homeserver pushes transactions and repeats them, and `transactions`, `transactions_`: overlapping requests, answers, errors; shared by the three modules that handle events | `acked`, `txn`, `asked` the homeserver's queue and whom it waits for; `run` where each request is |
| `RoomMembers` | `ensure_room_member`, `get_room_member`, the cache, `handle_room_member`; the events are those of `Transactions` | `member`, `events` the homeserver; `cached` the cache entry; `call` each send_channel |
| `RoomMessages` | `handle_room_message`, the channel and direct handlers, notices; the events are those of `Transactions` | `log` the rooms' messages; `sent` what was put on air, in the order of first times; `reported` the notices |
| `Provisioning` | `add_chatter`, `RadioChatter.init`, `prune_contacts`, `add_contact`, `ensure_room`, `handle_new_contact`, stops and restarts | homeserver and radio state survive; `process` is the memory of the starting bridge |
| `DirectRooms` | `send_direct`, the direct-chat branch of `handle_room_member`; the events are those of `Transactions` | `member`, `open` (chats where the puppet has power), `tombstoned`, `events` the homeserver; `run[h].pc` the next of a handler's three requests; `call` the drain's `send_direct`; `cached` the entry of the identity user in the contact's room |
| `BridgeNames` | `Vanity` and `sha256`, over the life of a homeserver that sees several radios and users | `given` every name given so far and to what; `identity` the radio attached |
| `HttpRequests` | `send_message` through `client_attempt` | `call` each request; `late`, `known`, `posted` network and homeserver |
| `RadioChannelsProofs` | theorems about `RadioChannels`, `CarefulChannels` and `ChannelTraffic` | |
| `RadioInboxProofs`, `RoomMembersProofs`, `RoomMessagesProofs`, `ProvisioningProofs`, `DirectRoomsProofs`, `BridgeNamesProofs`, `HttpRequestsProofs` | theorems about the module of that name | |

`RadioInbox` and `RoomMessages` are both shown to implement `MessageRelay`, the one
promise of the two directions, with all their failures. What "given up" means differs: a post
that ended without an answer in the one, a notice in the room in the other.

Each of `RoomMembers`, `RoomMessages` and `DirectRooms` has a homeserver queue of the events
that concern it only, and a transaction is any stretch of that queue, handled one event after the
other. What other events do to a real transaction (they take time, and one that raises
ends it) is covered: a handler may rest between any two events, and may raise at any request.
How many handlers overlap is the bound `Handlers`; in the proofs it is any set.

`CarefulChannels` restricts `RadioChannels` by reusing
its actions, and `ChannelTraffic` composes those with the two directions of messages: a step
of `CarefulNext` that starts a radio command puts it on the link, behind the messages that
are there, and the step that ends it takes it off. The puppet's steps in `RoomMembers` are the refinement of what is one action
(`Post`) in `RadioInbox` and a few in `Provisioning`.

Grain: one action is one run of a task from an await to the next; a request is one action,
the moment the other side acts on it, unless something can come between that and the answer
(a membership read in `RoomMembers`, an attempt in `HttpRequests`). Definitions named as
*mutants* in a module's comments are plausible slips (a dropped guard, a missing reset) that
`PROJECT.json` pairs with properties: replacing the real definition by the slip must break
the property. They belong to no specification.

## 3. The runs

| Run | Question | Bounds | States |
|---|---|---|---|
| `channels` | what holds of the registries whatever commands overlap and fail | 2 slots, 2 free names and an own one, 2 commands in flight | 3.3 M |
| `channels_live` | does every command end | 1 slot, same names | 78 k |
| `channel_traffic` | when do messages end where they belong while channels change | 2 slots, 3 free names and an own one, 2 commands, 2 on the link, 2 waiting on the radio | 521 k |
| `inbox` | radio to rooms: order, exclusion, progress, refinement | 3 messages, 2 handlers and the startup drain | 77 k |
| `members` | cache, assertion, names, the event queue under failures, kicks, restarts | 2 overlapping requests, a calling task, others act until there are 4 events, 2 failures, restarts or requests given up | 998 k |
| `messages` | rooms to radio with failures, repetitions, broken messages | 3 messages, 3 pushes of each, 2 overlapping requests, failures and restarts without bound | 563 k |
| `startup` | what startups cut anywhere leave behind, and whether one gets through | 1 contact with 2 names, a channel, an own channel, 2 cuts | 865 k |
| `direct_rooms` | are direct chats served and direct messages delivered | a chat, the identity user, 3 deeds, 2 overlapping requests, 1 failure, restart or request given up | 3.0 M |
| `direct_rooms_live` | does the queue flow | the same with a second user, 2 deeds, 1 request at a time, 2 failures | 507 k |
| `direct_app_user` | is the app user added to direct chats, as a comment says | a chat, 2 users, 1 deed, no failure | no: a counterexample |
| `names` | do two things ever share a name | 3 radios and contacts of 2-letter keys, 2 users, 3 words, 3 names given | 74 k |
| `requests` | repetition: at most once, never given up | 2 messages, 9 faults, a clock of 2 readings | 53 k |

What they show, in the properties' words:

- **`channels`.** `AddedAreBound` (`remove_channel` never raises), `OwnRoomsKept` (no
  command unbinds the command room, not even on a radio channel of the same name).
  `OrphansStay` states a limit of the program: a room whose invitation failed is in
  `RoomManager` and not in `added_channel_names`, and no command can remove or rebind it
  before a restart. `ForgottenRoomsStay` states another: a room whose channel
  `channel_cache` does not know, because it was set after the last scan or its slot was
  overwritten, keeps sending to its old slot, and no set-channel or clear-channel drops or rebinds
  it until a scan finds the channel. That the lock is held exactly by who is adding a channel
  is proved (section 4).
- **`channel_traffic`.** `SentWhereWritten`, `MisplacedOnlyIfReset` and
  `EveryChannelHasARoom` do *not* hold of `RadioChannels`. They hold if the operator sets
  channels only in empty slots under new names, runs list-channels between changes, changes
  nothing while another command runs, and if nothing refuses a change. Leaving out any one
  of these breaks one of the three, so this run is a specification of what the commands leave to
  their user. One thing no care rules out, and `MisplacedOnlyIfReset` says it is the only
  one: a message that waited on the radio until its slot was given to another channel is
  posted in that channel's room. That a message sent just before a command is on air
  before the slot changes rests on the serial line being in order: `channel_callback` writes its
  frame before it awaits.
- **`inbox`.** `NoneForgotten`: a message waits with nobody to fetch it only after a drain
  that raised (which takes the next announcement to be made up for) or while a reconnection
  is due. `Drained` is its liveness; it excuses a link that stays down, for nobody
  promises that it comes back. `RelaySpec` is the refinement: messages may be lost, are never
  repeated, and come behind a later one only if their post was given up with the request on its
  way, which the homeserver may take at any later time (`TakeLate`, as in
  `HttpRequests`). Exclusion and order themselves are proved.
- **`members`.** `CacheCatchesUp`: once every change has been acknowledged the cache is right,
  unless what wrote it last was an answer that had been on its way when an event came, or a
  given-up request that went on to an event after later ones had been handled (`outrun`).
  This is how far the comment "updated with transactions, so mostly correct" (app.py 365) goes; the wrong
  entry stays until the next change. `AssertHolds` is the assertion of app.py 343. `MembersPost`: a puppet is in
  the room when it posts, and the exceptions are a list: a kick whose event is not
  acknowledged or was handled while the call was under way, the two ways of being outrun, and
  a kick just after it joined, which the assertion lets pass. `NamelessStays`: a puppet
  registered but not named stays nameless, for later registrations end in M_USER_IN_USE.
  `UnregisteredBlocks` and `EventsAcked` say together what holds the event queue up: the
  invitation of a puppet that is not registered, for ever if a restart came between and the
  puppet is silent, and nothing else.
- **`messages`.** `NoneLost`, `NoneOvertakes`: with failures a message may go on air more
  than once, but never before an earlier one was sent or reported, and no acknowledged one
  is lost. dev_soft_fail gives both up. `BrokenBlocks`: an event whose handler always raises is
  never acknowledged, nor is any behind it: a message without a body (KeyError), or a member event
  with a membership the enum does not know, such as a ban (ValueError). `RelaySpec`: the
  whole implements `MessageRelay`. Each message is on air for the first time in its turn, or
  after a notice in its turn said that it had failed.
- **`startup`.** `UpIsComplete`: a startup that gets through leaves the space mirroring the
  radio and every room ready, whatever earlier ones left. `DetachedStay`: a room is missing
  from the space only after a stop between creating and attaching it, and then for ever.
  `OnlyUsersReadmit`: a contact pruned once is never let in again by the bridge.
  `NewContactsWait`: `handle_new_contact` never adds anybody, because `get_contact` answers from a
  cache filled before; a contact new to the radio waits for the next start. `ComesUp`: startup
  gets through in the end unless a pruned contact is back on the radio, a radio channel
  bears an own name, or a contact that is no longer on the radio was invited and never
  registered: pruning makes it leave as a user that does not exist (app.py 232), which is
  refused.
- **`direct_rooms`.** `InvitationServed`: an acknowledged invitation was served whole,
  joined, tombstoned and answered by one into the contact's room, whichever request failed.
  `MessageFindsUser`: a direct message is posted where the identity user is or is invited, with the
  exceptions of `MembersPost`. `OnlyUsersUnblock`: an invitation taken back too early, or
  into a chat where the puppet may not tombstone, is stuck (`Stuck`), repeated with
  everything behind it in the queue; no step of the bridge, no restart and no given-up request
  frees it, only a user who invites the puppet again or gives it power. `EventsFlow`: nothing
  else holds the queue up.
- **`direct_app_user`** is the one finding: app.py 470 says the app user is added too for
  management; the code never invites it. `AppUserManages` states what the comment says, and TLC
  shows an acknowledged chat without it.
- **`names`.** `OneName`: keys of one length are what keeps the parts of a name apart, for
  they are hashed with nothing between them.
- **`requests`.** `AtMostOnce`: one `txn_id` for all attempts, so repetitions and late
  copies do no harm. `LostToTwinOnly`: the `txn_id` is the clock, so of two
  messages with one reading the second vanishes. `OutlastsOutages`: the backoff never runs dry.

### Why the bounds are enough

The hazards are pairwise: two commands, two requests for one transaction or for an old and a
new one, a late answer against one event. Two actors of each kind give every pair.
Three messages allow one before, one in the middle and one behind; two slots allow an
overwrite, a move and a twin. The channel and message runs cover every order of those. 40
slots and 156 characters matter only as "a last slot" and "too long". Nine faults exceed
the backoff schedule's eight entries. Two cuts let a startup be cut, repaired and cut again;
`startup` has one contact because contacts are added one after the other and share
nothing but the order.

`members` has two failures, so that a request can be given up, go on beside its repetition, and
a third thing fail; with four events it goes on to an old event after a kick and a new invitation
were acknowledged. It has one calling task, which calls again and again; that two calls of one
puppet at once change nothing is part of what is proved, for any number of them. In `channel_traffic`
both slots change while a message is under way, which takes one message before and one behind a
command on the link, and on the radio one that was heard before a change and one after. In
`direct_rooms` three deeds make a chat, take it back and invite again, or invite, give power and
take it away; `direct_rooms_live` has a second user and lets a half-served invitation fail
again. `OneName` is about pairs of names, and its keys and words are chosen so that one is the
beginning of another. The names of all bounds are the constants marked "bound" in the
modules. Symmetry is used only for tasks, handlers and names no definition tells apart, and
never in a run with a liveness property. Deadlock is checked in every run.

### Fairness

- A request or a radio command under way is answered or fails (`WF` on the steps of a
  task): aiohttp has a total time-out, meshcore's commands have one, and the event loop runs
  every ready task.
- `asyncio.Lock` serves waiters in order of arrival: `SF` on taking it. The model allows more (a
  newcomer may get in first when the lock is free), so safety is checked for more than the
  code does.
- The homeserver repeats a transaction until it is answered 200 (`WF` on `Push`): the
  application service protocol. Every request it makes is handled to its end (`WF` on `Handle(h)`).
  Failures are bounded in number, so they end.
- `RadioInbox`: nobody promises a restart, nor a reconnection. meshcore is given
  `auto_reconnect=True`, but the comment beside it (mcorechat.py 66-67) finds that the flow
  never comes back, and `disconnect_cb` ends the process; so `Reconnect` may happen and has
  no fairness.
- `Provisioning`: whoever runs the bridge starts it again (outside the code; the container runs it as its only command).

## 4. The proofs

`tlapm` checks the eight proof modules to the last leaf. Every invariant and action property
of the passing runs and both refinements of `MessageRelay` are theorems. They hold for any number of slots,
names, commands, messages, calls, contacts, chats, users, failures and restarts: the bounds are
constants of which only the type is assumed. The only assumptions are the modules' `ConstantsAssumption`,
`TransactionsAssumption`, `NamesAssumption` and `TrafficAssumption`, which TLC evaluates in the runs of the same modules.
Some theorems have a hypothesis on a constant, always one of two:

- `~ dev_soft_fail`, the default of the configuration. With it set, errors of handlers are
  acknowledged like successes; the cache, direct chats and the queue then lose events by design,
  and the properties concerned are false (`RoomMembersProofs`, `DirectRoomsProofs`). In
  `RoomMessages` the flag is part of the properties themselves.
- `Strict` (`RoomMessagesProofs`), that is `~ dev_soft_fail` and `dev_enable_send`, for the
  refinement: a bridge that does not send implements no relay.

**`RadioChannelsProofs`**, the commands. `AddedAreBound` is not inductive: `InviteUser` adds the name
before it looks at the room, so the invariant must know that a command at "invite" has bound
its room (`LocalsOK`), that nobody else unbinds it in the meantime — the others do not find it in
`added_channel_names`, and the lock keeps them from adding it (`LockHeldByAdder`) — and
that an own name is never added (`OwnNotAdded`), which is why `Unbind` cannot touch
`OwnRoomsKept`. `IInv` is the conjunction of these with `TypeOK`. One lemma for every conjunct and step gives
`InductiveInvariant`, from which `TypeCorrect`, `LockHeldByAdderAlways`,
`RegistriesAgree`, `OwnRoomsStay` and the action properties `OrphansStayForEver` and
`ForgottenRoomsStayForEver` follow; the latter because every way to drop a room (`Unbind`)
starts from a name the cache knows.
The initial state needs the existence of a least slot with a name, by well-founded
induction on the naturals.

*The careful operator.* Its steps are steps of `RadioChannels` by construction, which carries
`IInv` over. `RoomsMatchRadio` says of every
bound room that its handler's slot has its channel (`NeverMisroutes`). That needs what makes
the guards enough: one command changes something at a time and none waits to drop a
room (`OneChange`), names are unique on the radio and apart from the own ones (`NamesApart`),
a channel on the radio is added or just being changed (`Accounted`), and for a change under
way, that the slot to set is empty and its name unknown, the slot to clear nobody's
(`ChangeOK`). `CarefulInv` is their conjunction.

*The messages.* `ChannelTraffic` composes those steps with its own, so `CarefulInv` carries over
in turn. For `SentWhereWritten` the
invariant relates the serial line to the tasks and the slots (`LinkOK`): every waiting
command is on it once, no message for its slot is behind it, and each message fits what its
slot holds *now*. For `MisplacedOnlyIfReset` it speaks of everything that remembers a slot — the
radio, the channel cache, a scan under way (`Remembered`), the messages waiting on the radio
that have not moved (`Trace`): they all remember the same name (`OneTrace`), and of a slot about to
be set nothing does but such messages (`FreshWhenSet`), which setting it then moves. This
is the exact content of running list-channels between two changes. Together with the types
these are `TrafficInv`.

**`RadioInboxProofs`**. `PostedInOrder` needs that what is posted was taken, and strictly
before what the drain holds (`PostedAreTaken`), the same of what was given up with a request
on its way (`LateAreTaken`), that a held message is the last one taken
(`HoldsLast`), that only one task holds one (`OneDrains`), and that a stopped bridge has no
task (`DownIsIdle`). `IInv` is their conjunction. `NothingSleptThrough` is inductive relative to it. `DrainImplementsRelay` is the refinement `Spec => RelaySpec`: initial states map to initial states and
every step to a step of the relay or to none. A message taken off the radio has its turn when its
posting is over; what is then neither posted nor on its way counts as dropped.

**`RoomMessagesProofs`**. `NoneLost` is about what is acknowledged, but what settles a message may be a
request the homeserver has long given up, and what acknowledges it another one. So
`SettledBehind` says of *every* request at work that all behind it is settled; with `AskedIsCurrent`
(the request waited for is one of the transaction that is not yet acknowledged, and has met
no broken message) and `RunsInside` this is inductive. `NoneOvertakes` follows from the
same: who sends a message has all earlier ones behind it. `BrokenBlocks` is a step property of
the same invariant. `RoomsImplementRelay` maps the relay's variables to `log`, to what is not for
the radio, to `sent` and to `reported`: whoever is at the radio, or about to report, however late
or repeated, finds its message at its turn (`WorkerHasTurn`), so a first transmission is a `Post` of the
relay, or an `Arrive` when a notice came before it, and a notice is a `GiveUp`.

**`RoomMembersProofs`**. `CacheCatchesUp` and `MembersPost` compare the cache with a membership that
changes behind its back. The invariant gives both a place in the homeserver's list of events:
`AsOf(m)`, m is the content of an event not older than those that count as told, which are
those up to `Done`: acknowledged, or handled by the request the homeserver waits for. What a
given-up request does among them is told in vain, and sets `outrun` if it is late. The cache
is `AsOf` (`CacheFresh`), an answer on its way is, and who is about to send is
in the room or a leave is still to come (`CallFresh`), each unless the event of its exception
happened. That takes the shape of the list (`MemberIsLast`, `JoinThenLeave`) and of the
requests at work (`QueueOK`). `AssertHolds` needs `CallOK`: a call
invites once, and having joined finds a member. `NamelessForGood` and `InvitationsBlock` are
step properties; the latter needs that the request waited for got over no invitation while the puppet
was not registered (`QueueOK` again).

**`DirectRoomsProofs`** has the same shape: `AsOf` over the identity user's events of the
contact's room (`MineIsLast`, `Fresh`), and `DoneServed`, which says of all invitations up to
`Done` what `InvitationServed` says of acknowledged ones: an invitation is served in three
requests, any of which may fail, and a handler about to invite has got through the first two
(`RunOK`). `EventsLeaveTraces` keeps it served. `UsersUnblock` is a step property: what a
given-up request does to a chat never makes a stuck invitation served.

**`ProvisioningProofs`**. That a bridge which is up is complete says nothing of the steps before.
The invariant is the ledger of a startup: what is wanted (contacts listed, channels heard,
own channels) is always to do, under way or routed, nothing twice (`Ledger`); what is routed
is done (`RoutedDone`); how far the one under way has got (`UnderWay`); nothing of an earlier
startup is in memory (`CleanStart`); and what was read of the members is true or was overtaken
by a join (`MembersRead`), which is what makes it safe to skip on a cached
answer. Whatever earlier startups left is then irrelevant to `StartupsComplete`. `NoReadmission`,
`LateContactsWait` and `DetachedForGood` are step properties.

**`BridgeNamesProofs`**. `OneName` compares any two names ever given, so it follows from
what each of them is: `NamedInv`, that every name given is one `Vanity` makes for its thing,
is inductive, and `NameDetermines` shows that such names determine their things. Names of
different kinds differ in their prefix. For two of one kind the digests are of equal texts
(the digest is taken to be injective), and `SplitConcat` takes equal texts apart when their
first parts are of one length, `SplitAtEnd` when their last ones are, which `KeyIsText` provides.

**`HttpRequestsProofs`**. `AtMostOnce` holds because a `txn_id` is fixed before the first attempt: what is
posted, or on its way as a late copy, is known under it (`PostedIsKnown`), so no copy posts
again. `OnlyTwinsLose` needs the converse, that an id is known only for a message posted
under it (`KnownIsPosted`), and that a 200 is for a known id (`OkIsKnown`).

Only model-checked: what needs fairness (`CommandsFinish`, `Drained`, `EventsAcked`, `ComesUp`, `OutlastsOutages`, `EventsFlow`), which is beyond this prover.

## 5. What is not modelled

- `RadioChannels`: slot numbers outside the table and empty channel names (the radio decides), the lookup of the room
  the reply goes to, and commands that change nothing (self-info, get-channel,
  send-advert).
- `RoomMembers`: one room and one puppet, the key of the cache; bans and knocks, which
  `RoomMembership` does not know and whose events therefore raise (as a broken message does
  in `RoomMessages`).
- `DirectRooms`: one contact; a 403 to `invite_user` that is not deserved (it is passed
  over, and the user is then not invited); the puppet leaving its own room; what users do in
  their chats but inviting the puppet, sending it away and changing its power.
- `ChannelTraffic`: failures of messages (they are in `RoomMessages` and `RadioInbox`), the
  order of messages among each other, and a drain that raises.
- `BridgeNames`: display names, the domain, the name space in front of every name; ids that
  are parsed (`parse_user_id` and `parse_room_alias` split at the first colon, which no local part has).
- `RadioInbox`: `run` subscribes and starts its first drain in one action (there is no
  await between). Exceptions in meshcore's callbacks end either in its log or in the
  loop's exception handler, which cancels the bridge: `Raise` and `Stop` cover both.
- `Provisioning`: one radio; nobody kicks contacts; the slot by slot scan (it is in
  `RadioChannels`); runtime calls of `add_channel`; `remove_contact`, which nothing calls.
- `HttpRequests`: the length of the pauses. 502, 503 and 504 are repeated only with
  a body that is no JSON, because `_http_client_verb_` turns JSON errors into
  `MatrixAPIError` first; other such failures are `Raises`.
- `amain`'s TaskGroup, `disconnect_cb` and the exception handler of the event loop: each ends the
  process, and what the others make of that are the stops of `RadioInbox` and `Provisioning`.
- Advertisements (`handle_advertisement`): one more message by the puppet of the contact, or of "Unknown".
- Not at all: configuration, JSON encoding, logging, HTML stripping, the `users` and `rooms`
  queries (they only read), and the admin client, a tool of single requests without state.

## 6. Plan

Done, most important first: channel commands, drain, puppets, transactions, startup,
requests, messages while channels change, direct chats, new contacts, names; proofs of every
safety and action property of these, and of the refinements. Next, in this order:

1. A composition of `RadioInbox` with `RoomMembers` (its `Post` refined by a puppet's steps),
   and the proof that it implements both.
2. `RoomManager` with its two indexes, and `ContactManager`, as a refinement of one map,
   proved in `RadioChannelsProofs`.
3. The life of the process with several radios: TaskGroup, `disconnect_cb`, the exception handler.

## 7. Running it

    tlc -workers 2 -config MCRadioChannels.cfg MCRadioChannels.tla
    tlapm RadioChannelsProofs.tla

`PROJECT.json` names every run's module and configuration, maps definitions to the source, and lists
hazards, mutants and theorems.
