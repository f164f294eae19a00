# Verification of libteam (src/lib/libteam.c)

This directory holds TLA+ models of libteam. libteam is the user-space library that talks to the Linux team driver over generic netlink (genl). The directory also holds TLC configurations that model-check the models on small instances, and TLAPS proofs: the change dispatcher's invariants, the abstract registry mirror's main invariant, and two invariants of the composed library (no stale reply, no lost change).

## 1. The system

libteam.c is one file. It has these parts:

| Part | Code | State | Operations |
|---|---|---|---|
| Protocol session | `send_and_recv`, `ack_handler`, `finish_handler`, `error_handler` (164-215) | `th->nl_sock_err`, the callbacks installed on `nl_sock` | send a request, then loop on `nl_recvmsgs_default` until a callback sets `nl_sock_err <= 0` |
| Attribute codec | `get_port_list_handler` (340-399), `get_options_handler` (583-666), `create_option`, `__find_option`, `event_handler` (936-947) | a temporary list per message | decode a PORT_LIST or OPTIONS message into a new list, then replace the registry |
| Port registry | `get_port_list` (401-424), port getters (436-521) | `th->port_list` | refresh on reply or event; read by iteration |
| Option registry | `get_options` (668-691), `set_option_value` and its wrappers (843-929), option getters (703-805) | `th->option_list` | refresh; set an option in the kernel (the local list is not touched) |
| Change dispatcher | `set_call_change_handlers`, `check_call_change_handlers`, `team_change_handler_register` / `_unregister` (232-314) | `change_handler.list`, `pending_type_mask` | mark types pending; call interested handlers in list order; register / unregister |
| Context | `team_alloc`, `team_init` (1117-1183), `team_destroy`, `team_process_event`, `team_check_events` (1275-1311) | `th->ifindex`, the two sockets, their group membership | connect, resolve, join the event group, install callbacks, fetch ports then options; process events |
| Link management | `team_create`, `team_port_add`, hwaddr, ifname helpers | none (rtnetlink calls) | single request/reply calls through libnl-route |
| Mode helpers | `team_get/set_mode_name`, `team_get/set_active_port` (1323-1373) | none | wrappers over the option getters and setters |
| Logging | `team_log`, `log_priority`, `nl2syserr` | log function and priority | formatting |

How the parts interact:
- `team_init` drives the session twice: first PORT_LIST_GET, then OPTIONS_GET.
- Each reply runs a codec callback. On success the callback replaces the registry and ORs a type into the pending mask.
- After each `send_and_recv` returns 0, the dispatcher settles that type.
- The kernel also multicasts PORT_LIST and OPTIONS messages to a change-event group that is **shared by every team device**. `team_process_event` reads one message from that socket through the same codec, then settles every type.

The behaviours that are hard to test:
- messages of other teams on the shared group;
- events arriving between a reply and the next request;
- replies that never arrive;
- `team_init` failing half-way, leaving a context that is connected but has no callbacks;
- allocation failure in the middle of a batch;
- the order of pending-mask updates and handler calls.

## 2. Modules

| Module | Models | Notes |
|---|---|---|
| `TeamList` | list.h: `list_add`, `list_del`, node set | list.h is not under src/, so these follow the spec (insertion order is kept). |
| `TeamDispatcher` | the change dispatcher | `handlers` is the list; `pending` is the mask as a set of types. Ghosts: `ver[c]` counts snapshot replacements of type c; `seen[h][c]` is the value of `ver[c]` handler h was last told of. |
| `TeamCodec` | the two decoding callbacks and `event_handler` | Pure operators, plus `FindOption` (`team_get_option_by_name`), the lookup every by-name getter goes through; `OptionsOf` in `LibTeam` reads the option registry with it. The getters return the option whatever its type tag. Spec 9 names this unchecked reinterpretation as a known weakness, so it is not modelled. The item loop is a recursive function over the prefix of items, with three outcomes: the list ran to its end (replace), it returned early (skip, leaving the partial list leaked), or it crashed (NULL option). `fail` is the index of the item whose allocation fails (0 means none). |
| `TeamMirror` | what a registry promises (spec 1, 4.3), written from the spec | Abstract spec: the kernel's state `kstate`, the mirror `view`, the states carried by undelivered events `backlog`, and a fetch `inflight` / `replied` / `reply`. `Mirrors` says the view is the kernel's state whenever nothing is pending. |
| `LibTeam` | the whole library composed with a kernel and a second team device | See below. |
| `TeamMirrorProofs` | TLAPS proof of `MirrorSpec => []Mirrors` | |
| `TeamDispatcherProofs` | TLAPS proofs about `TeamDispatcher` | |
| `LibTeamProofs` | TLAPS proofs of `NoStaleReply`, `NoLostChange` and (assuming `DecodesKernelMessages`) `SnapshotFromKernel` for `LibTeam` | |
| `MCTeamDispatcher`, `MCTeamCodec`, `MCLibTeam` | TLC instances | |

`LibTeam` state:
- Library variables:
  - `ifindex`
  - `pc`, where the library thread is: `alloc`, `idle`, `req` (inside `send_and_recv`) or `drain` (inside `team_check_events`)
  - `inited`
  - `stage`, how far `team_init` got: `none` (not connected), `connected` (connected, no callbacks), `ready` (callbacks and membership in place)
  - `cont`, what the current `send_and_recv` returns to: `get_port_list`, `get_options` or a set
  - `nl_sock_err`, `port_list`, `option_list`
- Channels:
  - `cmdReq`, the request the kernel has not read yet
  - `cmdQ`, the replies queued on `nl_sock`
  - `evQ`, the event socket's buffer, bounded by `EvCap`
  - `evOverrun`, the socket's pending ENOBUFS: set when the kernel drops an event on a full buffer
- Kernel: `kTeams`, port ownership `kOwner`, link state `kUp`, option values `kOpt`.
- Ghosts: `portHist` and `optHist` (every state our team had), and `initCalls`.

`LibTeam` actions and the code they model:
- `TeamInit` is `team_init`. Its outcomes:
  - `connect_fail`: either `genl_connect` fails (the two share one outcome);
  - `family_fail`: family resolution fails, so later requests go to an unresolved family;
  - `group_fail`: group resolution or membership fails; the family is resolved, no callback is installed;
  - `send_fail`: `get_port_list` fails before its request leaves;
  - `ok`: PORT_LIST_GET is sent.
  Whether `get_options` then fails before its request leaves (`nlmsg_alloc`, `NLA_PUT_U32`, `nl_send_auto_complete`) is the outcome `options_fail`, taken in `Return` (`GetOptionsSendFails`).
- `RecvValid`, `RecvAck` and `RecvError` are one `nl_recvmsgs_default` on `nl_sock`, with the valid, ack and error callbacks.
- `Return` is the end of `send_and_recv` plus the rest of its caller: settle ports and send OPTIONS_GET; settle options and return 0; or fail.
- `TeamProcessEvent` is `team_process_event`. Its read either fails with the pending ENOBUFS (`ReadOverrun`: the error is cleared, the return value ignored, and the handlers are called on nothing new) or hands one message to `event_handler` (`ReadEvent`). `TeamCheckEvents`, `CheckEventsStep` and `CheckEventsDone` are the select loop of `team_check_events`.
- `TeamSetOptionValue` is `set_option_value` through the by-name u32/string setters. `TeamSetModeName` and `TeamSetActivePort` are `team_set_mode_name` and `team_set_active_port`.
- `TeamDestroy` is `team_destroy`.
- `Register` and `Unregister` are the handler calls.

The kernel is the environment, written from the spec:
- `KernelReply` answers, in this order of checks (its disjuncts exclude each other):
  - `-EOPNOTSUPP` when the family was not resolved (`ReplyError`);
  - `-EINVAL` for a missing device;
  - list + ACK for a GET (`ReplyList`);
  - for a set of a known option with its own type (`ValidSet`), it applies the set, multicasts the new option list and ACKs (`ReplySet`); any other set gets `-EINVAL`.
- `KernelReplyLost` drops a reply, up to `LossBudget` times.
- `PortAdd`, `PortRemove`, `LinkChange` and `OtherSetOption` are changes made by others, multicast on the shared group. They may concern the other team.

Abstractions:
- Speed, duplex and payloads are model values.
- `finish_handler` is not told apart from `ack_handler`: both set 0.
- Allocation failures are modelled in the codec runs only.
- A handler function is an atomic call. Spec 4.4 forbids it from touching the list.

## 3. Runs

| Run (cfg) | Checks | Result |
|---|---|---|
| `MCTeamDispatcher.cfg` | `NoLostChange` | pass, about 21k states. 3 handlers (port-only, option-only, both), 2 changes per type. |
| `MCTeamCodec.cfg` | `DecodeAsSpecified` | pass, about 71k states. All messages of up to 2 items for our team, another team or none, with any malformed item and any allocation failing. |
| `MCTeamCodec_MalformedItemSkipped.cfg` | `MalformedItemSkipped` | violation: one bad item drops the whole message (spec 4.1 says only the item). |
| `MCTeamCodec_NoLeak.cfg` | `NoLeak` | violation: an early return leaks the temporary list. |
| `MCTeamCodec_NoCrashOnAllocFailure.cfg` | `NoCrashOnAllocFailure` | violation: a NULL option is passed to `list_add`. |
| `MCLibTeam.cfg` | `LibTeamTypeOK`, `NoLostChange`, `SnapshotFromKernel`, `NoStaleReply` | pass, about 6.6M states, under 3 minutes. Details below. |
| `MCLibTeam_live.cfg` | `PortsRefinement`, `OptionsRefinement`, `EventuallyMirrors`, `RequestReturns` | pass, about 92k states in under a minute. Both registries implement `TeamMirror`; they converge to the kernel's state once it stops changing; every request returns when no reply is lost and init got its callbacks installed (init outcomes ok, connect_fail, send_fail, options_fail). |
| `MCLibTeam_initfail.cfg` | `RequestReturns` | violation: init fails at family or group resolution, then a set-option call loops forever. |
| `MCLibTeam_loss.cfg` | `RequestReturns` | violation: one lost reply hangs `team_init`. |
| `MCLibTeam_initonce.cfg` | `InitDispatchOnce` | violation: a handler of both types is called twice by one `team_init`. |
| `MCLibTeam_overrun.cfg` | `EventuallyMirrors` | violation: with an event buffer of 1, a link change is dropped and leaves ENOBUFS. `team_process_event` reads the error and ignores it, so `port_list` keeps the old link state for good. |
| `MCLibTeam_connectfail.cfg` | `FailedConnectInert` | violation: after `team_init` fails to connect, `team_destroy` still deletes the device. |

`MCLibTeam.cfg` setup:
- 2 handlers and 2 teams;
- all six init outcomes;
- 2 ports;
- 2 kernel changes, 1 set call and 1 lost reply allowed;
- an event buffer of 2, which the three events allowed can overrun.

What the properties say:
- `SnapshotFromKernel`: once a registry has been replaced, it holds a state our device really had. A message of the other team on the shared group, or one applied by the wrong callback, breaks it.
- `DecodesKernelMessages` is not a property of a run but an `ASSUME` of `MCLibTeam` (`MCDecodesKernelMessages`), which TLC evaluates once before every run of that module: every port list or option list message the kernel can build for our device on the instance, whatever its ports, link states, option values and changed flag, is either skipped or decoded by `get_port_list_handler` / `get_options_handler` into exactly our device's state. It reads only constants, and as an invariant it would be re-evaluated in each of the millions of states. It is the hypothesis of the proof of `SnapshotFromKernel` below. A port callback that drops the link state makes TLC reject it.
- `NoStaleReply`: whenever the library thread is outside `send_and_recv`, no request waits for the kernel and `nl_sock` holds no reply. `send_and_recv` reads up to the ACK or error that ends its request. A reply left behind would be read by the next call's loop and handed to that call's callbacks, including an `NL_CB_VALID` callback an earlier GET left installed (line 179). A `send_and_recv` that returned without its receive loop breaks it.
- `NoLostChange`: a registered handler interested in type c has been told of the latest replacement of c, unless c is still pending.
- `PortsRefinement` / `OptionsRefinement`: `LibTeam` implements `TeamMirror` for each registry under this mapping (`PortsMirror` and `OptionsMirror` in `LibTeam`):
  - `kstate` is our team's ports (or options) in the kernel; `view` is `port_list` (`option_list`) read through the getters;
  - `subscribed` is `stage = "ready"` (the event socket joined the group);
  - `backlog` is the lists of our team's events of that command still in `evQ`;
  - `inflight` is a `send_and_recv` of the matching GET in progress; `replied` / `reply` is a valid reply of that command queued on `nl_sock`;
  - `fetched` is that the registry was replaced at least once; `gone` is our device deleted.
  A refresh installs either a reply or the oldest event, never anything else; so a message of another team, a wrong callback, or a change that never reaches the event queue breaks the refinement. The abstract spec allows the registry to step back while events older than a fresh reply drain, as the code does. It does not allow a change to be dropped, so the refinement is checked where the buffer cannot overrun; what an overrun does to the library is the overrun run's question.
- `EventuallyMirrors`: this rests on `team_init` joining the event group before it sends the first GET. It fails as soon as a change can be lost without the library reacting: `team_process_event` ignoring ENOBUFS is such a case.

Every property has a mutant: a plausible bug in the mapped code under which TLC finds the property violated (see `mutants` in PROJECT.json). Examples: the ifindex filter left out; the pending mask assigned instead of OR-ed; the mask cleared before the walk; `ack_handler` not clearing the error; the OPTIONS case missing from `event_handler`.

**Bounds.**
- Two teams are the fewest for which the shared group matters.
- Two ports and two options let a list be reordered, filtered or partially decoded.
- Two kernel changes let an event arrive before and after a reply.
- One lost reply and one set call reach the hang and the stale-callback paths.
- At most 3 events are emitted (2 kernel changes and 1 set). In `MCLibTeam_live.cfg` the buffer of 3 cannot overrun. In `MCLibTeam.cfg` the buffer of 2 can, so the safety properties are checked across an ignored ENOBUFS. The overrun run's buffer of 1 overruns after one event.
- Bigger instances add no new control path and grow the state space fast.

**Deadlock.** `MCLibTeam.cfg`, `MCLibTeam_live.cfg` and the violation runs of `LibTeam` set `CHECK_DEADLOCK FALSE`. The library thread really can stop: a blocked `send_and_recv` is the hang `RequestReturns` is about, and the kernel's steps are bounded. `MCTeamDispatcher.cfg` and the codec runs check deadlock.

**Fairness.** `Spec` has weak fairness on:
- the library thread's receive steps: a blocked `nl_recvmsgs_default` returns once a message is queued;
- `KernelReply`: the kernel answers every request it reads;
- `TeamProcessEvent`: the application calls `team_process_event` whenever the event fd is readable, which is the use `team_get_event_fd` documents.

Nothing forces user calls such as set or destroy.

## 4. Proofs

`TeamDispatcherProofs` proves, for every set of handlers, every interest mask and every `MaxChanges`:
- `DispatcherTypeCorrect`: `DispatcherSpec => []DispatcherTypeOK`.
- `NoLostChangeInvariant`: `DispatcherSpec => []NoLostChange`. This is the property of the `dispatcher` and `libteam_safety` runs.

The inductive invariant is `IInv == DispatcherTypeOK /\ NoLostChange`. `NoLostChange` alone is not inductive: the settle step needs `seen` and `ver` to be total functions over the change types.

There is one lemma per action:
- set marks every bumped type pending;
- settle delivers every type it clears to every interested registered handler;
- register starts the new handler at `ver`;
- unregister only shrinks the registered set.

Two list lemmas support these: `ListAddNodes`, and `ListDelNodes` (deleting a node never adds one). They are proved from `SequenceTheorems`.

`TeamMirrorProofs` proves, for every set of kernel states:
- `MirrorsInvariant`: `MirrorSpec => []Mirrors`.

`Mirrors` is not inductive. The inductive invariant adds four conjuncts:
- `Queued`: the newest queued event carries the kernel's state. A delivery of the last event then installs it.
- `Answered`: a reply with no event queued after it carries the kernel's state. An install then makes the view right.
- `RepliedInFlight`: a reply is only pending during a fetch. `Deliver` then cannot overtake a reply.
- `Unsubscribed`: before the context joins the group, nothing is queued, fetched or in flight. A change made then breaks nothing.

There is one lemma for `Change` and one for `Deliver`. Two sequence lemmas support them: `TailLast` and `HeadLast`. The other actions are discharged directly.

`LibTeamProofs` proves, for every team, port order, option set, handler set and bound of `LibTeam`:
- `NoStaleReplyInvariant`: `Spec => []NoStaleReply`, the property of the `libteam_safety` run.
- `LibTeamNoLostChange`: `Spec => []NoLostChange` for the whole library, not just the dispatcher alone.
- `SnapshotFromKernelInvariant`: `ASSUME DecodesKernelMessages PROVE Spec => []SnapshotFromKernel`.

`NoStaleReply` is not inductive. Its inductive invariant `SlotInv` adds:
- `ReplySlot`: `nl_sock` holds nothing, a lone ACK, a lone error message, or a list message followed by its ACK. Reading the head then leaves the ACK or nothing (`SlotTail`), so the ACK or error is the last message of a reply.
- A request waiting for the kernel means an empty `nl_sock` and a thread inside `send_and_recv`. So the kernel only answers into an empty socket, and only while the caller waits.
- A filled request slot holds a command.
TLC checked `SlotInv` as an invariant of the `MCLibTeam.cfg` instance before the proof was written. There is one lemma per kind of step: kernel reply, receive, send from a user call, `Return`, and a frame lemma for steps that leave the socket alone.

`LibTeamNoLostChange` reuses `IInv` and the per-operation lemmas of `TeamDispatcherProofs`:
- `RecvValid` is `set_call_change_handlers` of its registry's type (`ChangesType`: a registry marks at most its own type).
- The two successful ends of `Return` are `check_call_change_handlers` of one type; a failed call settles nothing.
- `team_process_event` fuses a snapshot replacement and a settle of every type into one step. `EventIInv` shows that step keeps `IInv`: afterwards nothing is pending and every interested handler has seen the latest replacement.
- Every other step leaves the dispatcher alone.

`SnapshotFromKernelInvariant` splits the property in two. What the item loops compute on a message of our own device is the hypothesis `DecodesKernelMessages`: it needs induction over the items, so TLC checks it on the instance (the `ASSUME` of `MCLibTeam`). Everything else is proved for every instance: that the other device's messages on the shared group are filtered out by the ifindex test, that a reply reaches the callback of the request it answers, and that every message the kernel queues carries a state our device has had. The inductive invariant is `SnapInv == SlotInv /\ IInv /\ Snap`, where `Snap` adds to `SnapshotFromKernel`:
- `KernelTypes`: the kernel's owners, link states, option values and devices are well typed.
- `IfindexSet`: `th->ifindex` is 0 or our device; while it is 0 nothing is subscribed, no request is out and no socket holds anything. So a message is only decoded against our device's ifindex.
- `ReqMatches`: a request waiting for the kernel is for our device; a GET goes with the call (`cont`) whose callback decodes its reply, and a SET carries a value.
- `KernelRecorded`: the kernel's current state of our device is in the ghost histories `portHist` / `optHist`.
- `EventsFromKernel`: the event socket holds only `KernelMsgs`, the list messages of either device built from a kernel state whose our-device part is recorded.
- `ReplyFromKernel`: a list message at the head of `nl_sock` is in `KernelMsgs` and has the command of the waiting call.

TLC checked `SnapInv` as an invariant of the `MCLibTeam.cfg` instance before the proof was written. `SnapshotFromKernel` alone is not inductive: a receive or an event step installs whatever message heads its socket, so the invariant must say what the sockets hold. The proof has one lemma per kind of step (receive a list, receive an ACK or error, process an event (a read that fails with ENOBUFS changes nothing the invariant reads), `team_init`, a set call, `team_destroy`, a kernel reply, a kernel change, another process's set, and a frame lemma). They rest on `KernelMsgDecode` (a kernel message is decoded into a recorded state or skipped, using `PortMsgDecode` and `OptMsgDecode`), `ApplySnap` (applying such a result keeps every snapshot recorded), and `KernelMsgsGrow` / `EmitKernel` (the set of kernel messages only grows with the histories, and a multicast keeps the event socket within it).

`NoStaleReplyInvariant` and `LibTeamNoLostChange` do not expand the decoding callbacks: what a callback returns is an opaque term, and the proofs only use that a registry marks its own type.

Only model-checked:
- the liveness properties `EventuallyMirrors` and `RequestReturns`: TLAPS does not reason about fairness and `ENABLED` here.
- the codec (`DecodeAsSpecified`), whose item loop is a recursive function. What it computes for every input needs induction over data. The library's induction theorems take an operator parameter, which the installed provers cannot instantiate.
- `DecodesKernelMessages`, the hypothesis of `SnapshotFromKernelInvariant`, for the same reason: it is what the item loops compute for every message of our device.
- `LibTeamTypeOK`. The type of `port_list` and `option_list` is what the codec returns on any message, and needs the same induction over the item loop.
- the refinements `PortsRefinement` and `OptionsRefinement`. The mapping reads `port_list` through the codec's getters, and a step of `RecvValid` or of an event maps to `Install` only through what the codec returns.

## 5. Not modelled

- rtnetlink link management (`team_create`, port add/remove, hwaddr, ifname conversion): single libnl calls with no library state.
- Logging, `log_priority` parsing and `nl2syserr`: formatting and a code table; errno values are used directly.
- `team_free` and the allocation paths of `team_alloc`.
- Handler misuse (a handler touching the list during a walk).
- A recovery from an overrun: `team_process_event` ignores ENOBUFS, so the code has none. The ignored error is modelled (`ReadOverrun`) and its effect is the `libteam_overrun` run.
- Allocation failures of request messages in `get_port_list` and `set_option_value`: the first is folded into `send_fail`; the second returns an error before anything is sent and changes no state.

## 6. Plan for later work

- A TLAPS proof of the refinement of `TeamMirror` by a recursion-free abstraction of `LibTeam`.
- A kernel that sends a stray valid message after OPTIONS_SET, to reach the stale-callback hazard.
- A proof of `DecodesKernelMessages` and of the refinement, once the codec's item loop is given a non-recursive characterisation the provers can use.
