# TLA+ verification of libupsf

libupsf is a client library for the UPSF, a service that keeps the items of a
session steering network (service gateways, their user planes, traffic steering
functions, network connections, shards, session contexts). It offers a C++
class over gRPC and, on top of it, a C API; two example programs use them. This
directory has TLA+ models of all of these, TLC configurations that check them on
small instances, and proofs of their safety properties and of the refinements between
them for every instance. Line numbers are those of the sources.

    cd tla
    tlc -config slots_registry.cfg MCUpsfSlots   # any configuration, see "Runs"
    tlapm UpsfSlotsProofs.tla                    # any module with proofs, see "Proofs"

## The system

    C example, C++ example, other application threads
      |  C API: upsf_open / close / exists,        C++ API: UpsfClient,
      |         upsf_create/update/get/...                  UpsfSubscriber
      v
    upsf_slots (pthread_t -> UpsfSlot) ----------> UpsfClient (stub, stub_mutex)
      |  UpsfMapping::map, both directions              |  gRPC
      v                                                 v
    structures of upsf.h                            UPSF server (external)

| Component | State | Operations | Interacts by |
|---|---|---|---|
| C connection registry, `upsf_c_wrapper.cpp` | map `upsf_slots`, `upsf_slots_mutex` (reader/writer), one mutex per slot | `upsf_open`, `upsf_close`, `upsf_exists`, and the lookup at the start of all 30 item functions and `upsf_lookup` | shared state between threads; holds its locks across the client's RPC |
| C++ client, `upsf.hpp` | channel, stub, `stub_mutex` | `CreateV1`, `UpdateV1`, `DeleteV1`, `LookupV1`, `ReadV1` of a name or of all items of a type, for six types | RPCs and server-side streams |
| Subscriptions, `upsf.hpp` and `upsf_c_wrapper.cpp` | request filters, flag `watch`, a stub of its own | `ReadV1(subscriber)`, `notify`, `upsf_subscribe` and its callbacks | a stream that may never end; callbacks into the application |
| Mapping, `upsf_c_mapping.cpp` | none | 50 overloads of `map`, 25 in each direction | called around every RPC and before every callback |
| Item calls of the C API, `upsf_c_wrapper.cpp` | the caller's structure, used for request and reply | create, update, get, delete, list | mapping, client |
| Enum names and dump functions | tables | `upsf_*_to_name`, `upsf_dump_*` | none |
| `upsf_stream.hpp` | none | output operators | logging |
| C++ example, `upsf_cpp_example.cpp` | none of its own: the items on the server | `create_items` (look, create, update, read of each item), `delete_items` | the client; other processes through the server |
| C example, `upsf_c_example.c` | one structure per type | create, update, get, delete of an item of each type, then a subscription | the C API; other processes through the server |
| Protocol files, build files | none | | |

What is hard about each, and what makes it correct:

* **Registry.** Every item function takes a raw pointer to its slot and keeps it
  through a whole RPC, with two locks held and early returns in between, while
  other threads open and close. Slots are keyed by `pthread_t`, a value the
  system uses again. Correct means: the pointer stays valid and the thread's own,
  locks are released on every path, nobody waits forever, and all threads
  together behave as if each had a private connection.
* **Client.** Answers get lost after the server did its work, streams break in
  the middle, other clients change items while they are read, and one client may
  be shared by threads. Correct means: a result of true can be relied upon, what
  is left in a reply is never made up, also after false, a read neither returns another item nor misses
  one that was there throughout.
* **Subscriptions.** Items keep coming while callbacks run, streams end or break
  at any time. Correct means: all items in order and once, the application
  catches up with the server, and it can stop.
* **Mapping and item calls.** A read-modify-write passes through 50 hand-written
  copies and two merges. Correct means: what was not touched is sent back as it
  came, and nothing leaves its buffer.
* **Example programs.** They are what the library is for: sequences of calls in
  processes that overlap on the same names, fail half way and are run again.
  Correct means: no item is left without its description or for good, a run
  repairs what one before it left, and programs do not take each other's items.

`PROJECT.json` lists every such hazard at its line with the properties that
would catch it.

## Modules

| Module | Models | Notes |
|---|---|---|
| `UpsfSlots` | the registry and the locking of every call of the C API | one action per atomic step: waiting for a lock, the section under it, the RPC, each unlock |
| `ThreadConnections` | abstract specification: one private connection per thread, every call atomic | implemented by `UpsfSlots` (`TC`, `ThreadLocal`) |
| `UpsfSlotsProofs` | safety of the registry, for any application | TLAPS |
| `UpsfSlotsPrivateProofs` | private connections, when threads close before they exit | TLAPS, extends the above |
| `UpsfSlotsRefinement` | `UpsfSlots` implements `ThreadConnections` | TLAPS, extends both |
| `UpsfCalls` | items, their names, the calls and what the server does for each | operators, used by the next three |
| `UpsfStore` | abstract specification: what a caller may rely on, whichever thread, stream and mutex its call goes through | implemented by `UpsfClient` (`Store`, `StoreSpec`) |
| `UpsfClient` | class `UpsfClient` and an external server | one action per client method, streaming reads split per item |
| `UpsfClientProofs` | what a call's result says, for any number of threads, items and changes | TLAPS |
| `UpsfClientRefinement` | `UpsfClient` implements `UpsfStore` | TLAPS, extends the above |
| `UpsfPrograms` | processes of the two example programs, killed and run again | composed over `UpsfStore` |
| `UpsfProgramsProofs` | what the programs do to each other and to what is left behind | TLAPS |
| `UpsfSubscriber` | `ReadV1(subscriber)`, the wrapper and `upsf_subscribe` | one action per step of the loop |
| `UpsfSubscriberProofs` | order and completeness of what is notified | TLAPS |
| `UpsfMapping` | the overloads of `map` | pure operators, no variables |
| `UpsfTypes` | the messages of `messages_v1.proto` and the structures of `upsf.h`, as sets | extends `UpsfMapping` |
| `UpsfItems` | one item's way from structure to server and back | extends `UpsfTypes` |
| `UpsfItemsProofs` | the mapping and the item calls, for every message | TLAPS |
| `MCUpsfSlots`, `MCUpsfItems`, `MCUpsfPrograms` | symmetry, messages, items for TLC | |

The modules meet where the code's layers do. `UpsfSlots` sees an item call's RPC
as one step that answers or fails; `UpsfClient` opens it up, for threads that
share a client (in the C API each client has one thread, because a slot does);
`UpsfItems` leaves both out and follows the data. `UpsfStore` says what is left of
the client for those above it, and `UpsfPrograms` is built from its actions, which
`UpsfClient` is proved to implement. Each module
repeats the abstraction of its neighbours only as far as it has to.

### UpsfSlots

`pc[t]` is where a thread stands. `upsf_slots` is the map, `None` standing for
no entry; `upsf_addr[s]` is the server of slot `s`, `None` when `s` is not
allocated, so that a freed slot can be told from one in use; `slot[t]` is the raw
pointer. `readers` and `writer` are the holders of `upsf_slots_mutex`, and
`upsf_slot_mutex` that of each slot. `session[t]` is a history variable: the
address that this thread, and not an earlier one with its `pthread_t`, opened.

The item functions (create, update, get, delete and list of six types, and the lookup) all have one shape: null
check, shared lock, find, slot mutex, RPC. They are the actions `CallNull` to `CallUnlockSlot`. The map of
`PROJECT.json` gives the lines of each step in `upsf_create_service_gateway`, and all five functions of that
type for their disjunction `Call`; the other types' functions are the same text. Locks are released in the
reverse order of their declaration, as the destructors do.

`ThreadStart` and `ThreadExit` are the application: a new thread gets any
`pthread_t` no running thread has. `ClosesBeforeExit` says whether all threads
call `upsf_close` before they exit. The code does not ask for it, so
`slots_registry`, safety and liveness, does without.

`std::shared_mutex` leaves open who goes first when readers and writers wait;
`LockShared` lets readers in while a writer waits.

### UpsfClient

`db` is the server's set of items, whose names are unique. Other clients change
it up to `MaxChanges` times; a unary call is carried out by `ServerApply` or not,
and `RpcError` may follow either: a lost answer. gRPC may have read the answer to a unary
call before the status turns out not to be OK; so `RpcError` empties the reply or leaves it as it is,
and the typed `CreateV1` (221) hands on what it finds there. A read is served by the server
one name at a time, in any order, while `db` changes. `filters`, chosen once
and for all in `Init`, says whether the server sends only what the request asks
for: the code checks types and names itself, and must do so well enough for a
server that does not. `seen[t]` (the states of `db` during the call) and `effects[t]`
are history. A call is any of the class's, a read of the empty name included.

The overloads for the six types differ in the accessor only. `NameAs` and
`ContentAs` model what the accessor of another alternative returns. The typed `UpdateV1` keep
their caller's reply as it is when the RPC fails, the one for an `Item` gives it to the stub;
`UpdateV1` has both.
`LockAndSend` is the end of `std::lock_guard`'s wait and the sending of the
request, which nothing can separate for other threads of this client.

### UpsfStore

The mutex, the stream and the error paths disappear; a thread is idle, has called, has been failed or has its
answer. The refinement mapping counts a unary call as carried out (`Apply`) when its `status` is OK; an answer
lost after that is `Apply` and then `Fail`, which keeps any part of what the call has got. `GiveUp` answers
false and may show some of it: the reply of a create, the item a read met before its stream broke, the first
part of a list. So `ans` has all that the client leaves with its caller, on either result. A read has dealt with
the names its server has `visited`, and what it has got is on the wire, in `out` or in `outs`. Its answer is
what `upsf_get_X` makes of it: `true` with an empty name is not found. The store's `NotFound` lets a read miss
an item that is there if the server sends what nobody asked for, since `ReadV1` stops at the first item of the
type. `Vanish` is the end of a caller's process. A client has no such step; the store is for those above it,
which do.

### UpsfPrograms

A process runs one of the programs; `pc[p]` is the call it is at and `at[p]` the
item. `Request`, `Serve` and `Take` are a call: the program asks, the store acts as
in `UpsfStore`, the program looks at the answer and goes on. `CppExists` to
`CppDelete` and `CCreate` to `CDelete` are the conditions of the programs, one for
each kind of call; the types' functions are alike and `TypeOf` tells them apart where
they are not: `nc_exists` reads a session context (811). `CGet` goes on whatever
came, because a pointer is never `< 0` (101).

The server refuses a create of what exists and an update or delete of what does
not, and nothing else: what fails beyond that is a fault. `Lose` fails an RPC, before or after the
server carried it out; if before, the request may stay on its way (`late`) and be
carried out by `Arrive` at any later time. This is the `Change` of `UpsfStore`.
`Kill` ends a process at any point, with the same choice: to the store its caller goes away (`Vanish`).
`Start` runs a program, also one that has ended, been killed or been refused. After its last delete a C
program comes to `test_subscribe` (637), which only watches and whose callbacks always ask for more: `pc` is
`"subscribe"`, and `Subscribed` may end that, but nothing obliges it to. C and C++ programs use
different names (`sg-test`, `my-sg`), so an instance has processes of one kind.

### UpsfSubscriber

The request (`BuildRequest`), the opening of the stream, one item read and
notified (`Notify`), the end of the inner loop (`ReadEnd`) and `Finish` with the
outer loop's condition. Undefined behaviour of the library underneath (an
element of an empty repeated field; a second `Finish`) leads to `pc =
"undefined"`, where nothing more is claimed. `sent` is history. A callback's return
value leaves no trace in the model because it leaves none in the code.

The C wrapper always watches, and nothing in it changes `watch`; `set_watch` is public (150), and the
`notify` of a C++ subscriber may call it with either value (`SetsWatch`). `Watch` is the set of values the
flag may start with. `set_watch` from another thread is left out: `watch` is a plain `bool`.

### UpsfMapping, UpsfTypes and UpsfItems

Messages and structures are records with the fields of `messages_v1.proto` and
`upsf.h`. A string is a stem and a length: cutting it changes the length and
keeps the stem. A map field is a set of entries with different keys; the order in
which the code copies them is whatever order `SetToSeq` takes, and of an array's entries
with equal keys the last one counts. `XToC` is the overload from message to structure, `XToPb` the
other. The four array members of the union `nc_spec` are two lists. The
assignment of a `char` array to the `bool` of `nc_active` is `TRUE`, as in the
code. `ss_mptp` endpoints are read through the union's member `ss_ptp` (line
424), which has the same array at its start; the model has one list for both.

`UpsfTypes` says which values these are. `MessagesOf(ty, T, N)` are the messages of a type with strings
in `T` and lists of a length in `N`: `AnyMessage` has strings and lists of any
length, `FittingMessage` those within the limits of `upsf.h`. In `Structures` every array
is within its size and every string shorter than its buffer, with `len` its length. `Stems` are the
stems of strings; `"0"` and `"1"` are among them because the code writes them.

`UpsfItems` has one stored item, several callers and their structures. Create,
Update, Get, Delete and List do what the C function does with the structure,
including that a failure leaves it untouched. `Merge` is the external server:
`update_options` is never set, so it merges lists and maps by union, the repeated endpoints of a
network connection among them (`MergeSpec`; `sgup_endpoint` of `ss_ptp` and `ss_mptp`, `tsf_endpoint` of
`ss_mptp` and `ms_mptp`); only a spec of another kind takes the place of the old one. `Edit` is
the application changing a description or dropping an array's last element;
`base` and `touched` remember what was read and what was changed since.

Slips: operators introduced by the comment "Slip" are plausible errors. Each is
put in place of a definition to see that a property notices. No action or
property uses them.

## Runs

| Run | Question | Instance | Distinct states |
|---|---|---|---|
| `slots_registry` | pointers, locks, who waits for whom, inductive invariant; does every call return? | 2 threads, 2 `pthread_t`, 2 slots, 1 address; closing before exit not required; fair | 26,438 |
| `slots_private` | private connections, refinement | 3 threads, 3 `pthread_t`, 3 slots, 2 addresses; closing before exit | 134,264 (symmetry) |
| `slots_stale` | without closing, whose connection is it? | 2 threads, 1 `pthread_t` | violated |
| `client_reads` | inductive invariant; does a read miss an item, or return a wrong one? does it return? is what it leaves with its caller, also on failure, an item that was stored? is the client a store? | 1 thread, 2 types, 2 names, 2 changes; servers that filter and that do not; fair | 186,938 |
| `client_shared` | two threads on one client: outcomes, exclusion; does every call return? are they a store together? | 2 threads, 1 type, 1 name, 2 values; the threads are each other's other client; fair | 242,458 |
| `sub_watch` | nothing skipped, complete, up to date when all is read, catches up; when is `Finish` called again? inductive invariant | 2 names, 2 types, 3 changes; watching or not, with `set_watch` of either value at any item; servers that end watched streams | 650,120 |
| `sub_deleted`, `sub_close`, `sub_names` | what comments and README say | 1 or 2 names | violated |
| `programs` | do programs leave each other alone, repair and clean up, and come to the end of their calls? inductive invariant | 2 processes, both programs, 2 items, 3 runs, 1 fault; fair | 288,227 |
| `items_echo` | unchanged data comes back unchanged; what does an update change? buffers; does one ever take an entry away? | all six types, 2 callers, 1 edit, messages within and beyond the limits | 177,470 |
| `items_status` | is the mapping of a status bidirectional? | 1 caller | violated |

**Bounds.** Two running threads are what any of the registry's conflicts takes,
and as a thread that has exited can start again with any free `pthread_t`, two
are enough for one value to be used by one thread after the other. For
reads, two names and two types give an item that was asked for, one of the
wrong name and one of the wrong type; two changes allow an item to go and come
back during a read. A subscriber's three changes allow create, update and
delete of one item. `UPSF_MAX_STRING_SIZE = 3` and `UPSF_MAX_NUM = 2` replace
64 and 16: lengths below, at and above the limit occur. Two processes and three runs let a
run be cut short, overlap with a second and be followed by a third that has to
deal with both; one of the two items is a network connection, the type
`nc_exists` gets wrong, and two items make the order of `create_items` and of
`delete_items` different. With two faults (1,893,884 states) the invariants hold as
well; the run stays at one, to be short. `MaxChanges`, `MaxEdits`, `MaxRuns` and
`MaxFaults` are the only counters; they bound what others do, never the library.
The theorems lift all of these bounds from everything the passing runs check but liveness: they
hold for any number of threads, processes, items, callers, changes and faults, and for the code's sizes.
The type invariants `TypeOK` of `UpsfSlots`, `UpsfClient`, `UpsfPrograms` and `UpsfSubscriber` are checked
as the first conjunct of their inductive invariants. `ItemsInv` holds on the instance of `items_echo` as well;
the run has in its list the part that says something of the code, `WithinBuffers`.

**Symmetry** is used in `slots_private` only, which checks no liveness, on sets no
definition singles out a member of.

**Fairness.** `UpsfSlots`: running code is scheduled, an RPC ends with some
status (gRPC ends a call whose connection breaks), and a waiter for a lock that
becomes free again and again gets it in the end. No thread has to call, start or
exit. `WritersReturn` has a premise, that readers leave a gap again and again:
the code holds the shared lock across RPCs and the standard lets new readers
in before a waiting writer, so without it `upsf_open` may wait forever.
`UpsfClient`: the same for `stub_mutex`, and the server goes on answering. `Finish`
with messages unread is left out: gRPC promises that it returns once all have been
read, and a read of a name stops at the first item of its type. So `CallsReturn`
is said of servers that send only what was asked for (`filters`), and without
that premise it fails.
`UpsfPrograms`: a running program is scheduled and the server answers; nobody has
to start a program, no late request has to arrive, and no subscription has to end.
`UpsfSubscriber`: the thread is scheduled, and a stream that was not to be
watched ends; a watched one may stay open forever. Its runs switch the deadlock
check off, because a subscription ends for good; so `FairSpec` can stop there. So does
`programs`, when all runs have been made.

## What the runs of the programs show

* A C program's create is a lock on the name: `OneHolder`, `HolderUndisturbed`. Until it deletes the item or
  loses an RPC, nothing changes it but its own update and delete (`OnlyHolderChanges`), not even a request of an
  earlier run that was lost and arrives now. A second program that finds the item is refused and ends, and never
  touches it.
* For the same reason a C program does not recover. If a run is cut short between
  create and delete, its item stays (`LeftoversStay`), and every later run ends at
  that create.
* A C++ program that runs alone and without a fault repairs (`RunRepairs`) and
  removes (`NothingLeft`) what runs before it left, but for a network connection:
  `nc_exists` never finds it, `nc_create` is refused, and the item is not
  updated. It is deleted all the same.
* However C++ programs overlap, an item without a description has somebody about
  to describe it, unless a fault hit that one (`NoneLeftBare`).
* Every run comes to the end of its calls (`CallsComeToEnd`): no program waits for another or tries again.
  A C program that goes through all of them comes to its subscription, and need not end.

## What the violated runs show

1. `slots_stale`. A thread that exits without `upsf_close` leaves its slot in the
   map. A new thread with the same `pthread_t` finds it: `upsf_exists` returns 1,
   `upsf_open` keeps the old server whatever address it is given. The README
   (126-137) has connections per thread and does not ask for `upsf_close`.
2. `sub_deleted`. The default constructor says "in all states" (`upsf.hpp:74`)
   and lists four of six.
3. `sub_close`. `do ... while (watch)` goes on with a reader that is finished. A `notify` that calls
   `set_watch(true)` on a stream that is not watched leads to the same place, with no server closing
   early; `SecondFinish` has both ways.
4. `sub_names`. `mutable_name(i)` does not add an element.
5. `items_status`. `nc_active` is always true after a round trip (a pointer is
   converted to `bool`), and `allocated_shards` of a network connection is never
   copied to C.

Three more that no run is spent on: the callbacks' return value, "continue subscribe" in the README, is dropped;
`UPSF_MAX_SLOTS` (line 181) is never used: what limits the map is that the system reuses `pthread_t`s
(`SlotsBounded`); and a network connection without `nc_spec` returns as an `ss_ptp` (the structure's first
member), so `EchoFaithful` speaks of a spec only if it names an endpoint.

## Proofs

Every theorem holds for every value of the constants that meets the assumptions of
its module. TLC evaluates these on every run.

| Assumption | Module | Says |
|---|---|---|
| `NoneAssumption`, `DisciplineAssumption` | `UpsfSlots` | `None` is not a thread, `pthread_t`, slot or address; `ClosesBeforeExit` is a Boolean |
| `NoneAssumption` | `UpsfCalls` | `None` is not a thread, type or value; the empty name is no item's |
| `BoundAssumption` | `UpsfClient` | the number of changes is a number |
| `ProgramsAssumption` | `UpsfPrograms` | `CreateOrder` and `DeleteOrder` go through the same items, each once, as `create_items` and `delete_items` do; where there are network connections there are session contexts, because `nc_exists` asks for one |
| `SubscriberAssumption` | `UpsfSubscriber` | finitely many names; filters, callbacks and flags are of their types |
| `SizesAssumption` | `UpsfMapping` | a string's buffer has room for the NUL, an array for one element |
| `StemsAssumption`, `ItemsAssumption` | `UpsfTypes`, `UpsfItems` | `""`, `"0"` and `"1"` are stems; the server's messages are messages of the proto |

Theorems marked * also assume `ClosesBeforeExit`.

| Theorem | Says | Module |
|---|---|---|
| `RegistryInvariant` | `Spec => []RegistryInv` | `UpsfSlotsProofs` |
| `TypeCorrect` | `Spec => []TypeOK` | |
| `SlotSafety` | `Spec => []SlotStaysWhileUsed` | |
| `LocksAreReleased` | `Spec => []LocksReleased` | |
| `SlotMutexNeverWaits` | `Spec => []SlotMutexUncontended` | |
| `NoDeadlock` | `Spec => []NoWaitingInLine` | |
| `NoSlotLeaks` | `Spec => []SlotsMapped` | |
| `SlotsBounded` | with finitely many `pthread_t`s, never more slots in use than there are of them | |
| `PrivateConnections`* | `Spec => []OwnConnection` | `UpsfSlotsPrivateProofs` |
| `NoOrphans`* | `Spec => []NoOrphanSlot` | |
| `OnlyOwners` | `Spec => OnlyOwnerCloses` | `UpsfSlotsRefinement` |
| `Refinement`* | `Spec => ThreadLocal` | |
| `ClientInvariant`, `ClientTypes` | `Spec => []ClientInv`, `Spec => []TypeOK` | `UpsfClientProofs` |
| `OneRpcAtATime` | `Spec => []OneRpcPerStub` | |
| `SuccessIsCertain` | `Spec => []OutcomeKnown` | |
| `NothingMadeUp` | `Spec => []ShownWasStored` | |
| `FoundIsThere` | `Spec => []GetSound` | |
| `NotFoundWasMissing` | `Spec => []GetComplete` | |
| `ListIsFaithful` | `Spec => []ListFaithful` | |
| `ClientRefinement` | `Spec => StoreSpec` | `UpsfClientRefinement` |
| `ProgramsInvariant`, `ProgramsTypes` | `Spec => []ProgramsInv`, `Spec => []TypeOK` | `UpsfProgramsProofs` |
| `NameIsALock` | `Spec => []OneHolder` | |
| `HolderGoesThrough` | `Spec => []HolderUndisturbed` | |
| `NeverRepaired` | `Spec => []LeftoversStay` | |
| `SomeoneDescribes` | `Spec => []NoneLeftBare` | |
| `RerunRepairs` | `Spec => []RunRepairs` | |
| `RerunCleansUp` | `Spec => []NothingLeft` | |
| `HeldIsUntouched` | `Spec => OnlyHolderChanges` | |
| `SubscriberInvariant`, `SubscriberTypes` | `Spec => []SubscriberInv`, `Spec => []TypeOK` | `UpsfSubscriberProofs` |
| `HandedOverInOrder` | `Spec => []NoneSkipped` | |
| `SnapshotIsComplete` | `Spec => []SnapshotComplete` | |
| `KeepsUp` | `Spec => []CaughtUp` | |
| `FinishesAgainOnlySo` | `Spec => []SecondFinish` | |
| `FinishesOnce` | if no `notify` sets the flag and, besides, no server ends a watched stream or nobody watches, `Spec => []ContinuesAfterClose` | |
| `ItemsInvariant` | `Spec => []ItemsInv` | `UpsfItemsProofs` |
| `StructuresStayWithin` | `Spec => []WithinBuffers` | |
| `EchoIsFaithful` | `Spec => []EchoFaithful` | |
| `OnlyAdds` | `Spec => UpdatesOnlyAdd` | |
| `FreshUpdates` | `Spec => FreshUpdateIsLocal` | |

In each of these modules the argument is an inductive invariant, which a run checks as well, one
lemma for each action that preserves it, and the properties as its consequences.

### The registry

**Safety.** `SlotStaysWhileUsed` alone is not inductive: whether another thread's
`upsf_close` may free the slot in use depends on which slots the map holds for
whom. `RegistryInv` adds what it takes: running threads have distinct
`pthread_t`s; the holders of the locks are exactly the threads inside the sections
they guard, and writer and readers exclude each other; a call in use of a slot has the map's
entry for its thread; no two entries share a slot; an entry's slot is allocated;
a slot's mutex has the thread inside the RPC as its holder. One lemma per action
shows that it preserves these; `RegistryStep` joins them. `SlotMutexNeverWaits`
is the longest argument from the invariant: the holder of the mutex would have
the same slot, so the same entry, so the same `pthread_t`, so be the same thread.

**Deadlock and leaks.** `NoWaitingInLine` puts both levels of locks together (`WaitsFor`): nobody waits for a
slot's mutex, and whoever holds `upsf_slots_mutex` is past all waiting, because by then there is only the slot's
mutex left to take. So there is no chain of two waiting threads, still less a ring, and the mutex kept across
the RPC delays others but cannot tie them up. `SlotsMapped`, that a slot in use is in the map, is part of
`RegistryInv`; it makes `upsf_slots` a function from `pthread_t`s onto the slots in use, so there are at most as
many (`SlotsBounded`). That bound holds without any discipline of the application and is the only one:
`UPSF_MAX_SLOTS` is not looked at.

**Private connections.** `OwnConnection` and `NoOrphanSlot` are inductive
together and relative to `RegistryInv` (`PrivateInv`). Neither is alone: a new
thread has no connection because no entry is left for its `pthread_t`, and none
is left because a thread that exits has no session, hence no entry. This step is
the only one that uses `ClosesBeforeExit`; `slots_stale` shows what happens
without.

**Refinement.** By `OwnConnection` the abstract connection, which the mapping
computes from the map, is `session`. Each call takes effect in one step of the
registry: `upsf_open` when it inserts, `upsf_close` when it erases, `upsf_exists`
and an item call without a slot when they look into the map, an item call with
one in its RPC. All other steps move `pc` within a phase and stutter. The one
difficult case is the RPC: it answers from the server of the slot the raw pointer
names, which `SlotPointer` of `RegistryInv` identifies with the thread's entry,
however long ago it was looked up.

`OnlyOwners` needs no discipline of the application: an entry disappears in
`CloseErase` only, whose thread is the writer.

### The client

What a call returns depends on what happened on the server, on the wire and in the client since it began.
`ClientInv` says for each thread and each place what is known: a thread is inside an RPC exactly while it holds
`stub_mutex`; nothing of an earlier call is left when the next begins; a `status` of OK means one effect and the
server's reply; what is on the wire was among the items at some moment of the call (`seen`), from names already
visited, each once; and while neither the name asked for nor the items of a list have been passed over, an item
that was there all the time is on the wire or collected (`GetMissesNothing`, `ListMissesNothing`). Two lemmas
make the steps of others short: a thread that does nothing keeps what it knows, and a change of the items only
adds to `seen`.

The refinement mapping is computed thread by thread, and a step of the client or of the network concerns one
thread, so the proof follows four abstract values of that thread. A read's answer in `FinishNamed` is the case
that needs the invariant most: that the reply is the item asked for, or that a `NotFound` of the store is
allowed, are both said by `GetCall` and `GetMissesNothing`.

### The example programs

`OneHolder` is inductive because a create succeeds only where no item of the name exists. But requests that
arrive late could undo it: `LateWrites` says that an update or a delete that may still arrive finds its item
there, held by no program, and is the only such request for it, so nobody can have created it since, and
`LeftAlone` the same of all that an earlier run left behind. `BareWillBeDescribed` names, for each item without
a description, the process that created it and is on its way to the update; it is passed on when one process
deletes and another creates the item again. What a program that runs alone finds out is `CalmRun`: what it knows
of the item it is at in the middle of each call, that the items to come are as they were found, and that the
deleted ones are gone. The type that gets in the way is the network connection: `Missed` carries through the
proof that only `nc_exists` can overlook an item. `ProgramsAssumption` matters here: the two orders go through
the same items.

`HeldIsUntouched` goes through the steps that change the items at all (`WhoChanges`): a request that arrives
late is a write to an item nobody holds, by `LateWrites`, or a create, which finds the name taken;
a request that is carried out for an item is of a program that holds it, so by `OneHolder` of this holder.

### Subscriptions

`SubscriberInv` holds the position in the stream: what has been notified and what is on the wire that has a
callback make up what was sent (`NoneSkipped`), and an item nobody has changed was sent as it is (`SentAsIs`).
That a snapshot's items can be enumerated needs finitely many names. The least and the greatest of a set of
numbers come from the library's well-foundedness of `<`.

`SentLast` says of a watched stream that goes on that what was sent last of a name is the item as it is. With
nothing left on the wire all that was sent has been read, and `NoneSkipped` keeps the order: so what the
subscriber was last told is the item, which is `CaughtUp`. This is the safety half of `Converges`; the other
half, that the wire becomes empty, takes fairness.

`ContinuesAfterClose` is violated in `sub_close`. `OneReader` says when the loop's second round can
happen: the stream has ended well, is empty, and the flag is set. `FlagKept` says where the flag comes from: it is
the request's, unless some `notify` has set it. Together they give `SecondFinish`, the two ways to a second
`Finish` (`FinishesAgainOnlySo`), and `FinishesOnce`, that who rules both out is safe from it.

### Mapping and item calls

For each pair of overloads three lemmas: `..In`, every message becomes a structure that stays within its
buffers; `..Out`, every structure becomes a message; `..Echo`, a message that fits comes back. They go up from
strings over lists, maps, metadata, endpoints and specs to the six items. A map comes back because its keys stay
apart when they are not cut (`KeysStayApart`), so each entry is the last of its key. `ItemsInv` adds to the
types that a structure is the mapped reply it was filled from until entries are taken away, but for its
description. An update is then the reply with another description, and merging it with the item it came from
changes no list (`SeqMerged`) and no map (`MapMerged`): that is `FreshUpdates`. `OnlyAdds` needs less of the
structure and more of the merge: whatever was cut, dropped or is out of date in the request, the union has all
of the old list in it, endpoints included (`MergedSpec`), and the result is a message of its type again
(`ShortenedSpec` for the structures with an element dropped). Of a network connection only the spec, if it names
an endpoint, and the keys of the status come back; its lemmas are separate (`EchoConnection`,
`FreshConnection`).

### What is only model-checked

Liveness (`ReadersReturn`, `WritersReturn`, `CallsReturn`, `Converges`, `CallsComeToEnd`), which is out of this
prover's reach. Everything else that a passing run checks is a theorem. That the invariants say something is
shown by TLC: each of their runs has a plausible error in the code that violates them.

## Not modelled

* `upsf_stream.hpp` and the dump functions: formatting, without state.
* `upsf_*_to_name`: table lookups; hazard at negative values noted.
* The array and the return value of `upsf_list_X`: it fills what fits and returns how
  many items there are. A property of it would restate the return statement; that
  `upsf_c_example.c:57` loops to that number is noted as a hazard.
* Characters: a name cut within a UTF-8 character is noted as a hazard.
* The filters by parent and by item type of a subscriber.
* `upsf_lookup`'s mapping: the same two overloads as a read.
* gRPC's channel states, deadlines (the code sets none) and credentials.
* The lists and dumps of the examples, which print; the steps of the subscription at the end of
  the C example, which are those of `UpsfSubscriber`.
* Structures an application builds from nothing: callers of `UpsfItems` start from what a call
  has filled in, so `WithinBuffers` says nothing of a string or an array size the application writes itself.
* `set_watch` from another thread than the one that runs `notify`.
* Protocol files as such, and build files.

## Plan

1. (done) `UpsfSlots`, `ThreadConnections`, their runs, the safety theorems and
   the refinement; `UpsfClient`; `UpsfSubscriber`; `UpsfMapping` and `UpsfItems`.
2. (done) `UpsfStore` and its refinement by `UpsfClient`; the two example programs
   over it; what an update based on a fresh reading changes.
3. (done) Proofs about the client and its refinement of `UpsfStore`, the programs, the subscriber,
   the mapping and the item calls.
4. (done) Freedom from deadlock and bounded growth of the registry; who may change an item a program
   holds; a watching subscriber is up to date, and when it finishes a second time.
5. A release that calls `ClientContext::TryCancel`, sets a deadline or lets a callback stop the subscription would
   need new steps in `UpsfClient` and `UpsfSubscriber`; today's code has none of these.
