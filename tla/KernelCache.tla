---------------------------- MODULE KernelCache ----------------------------
(***************************************************************************)
(* How the runtime gets a GPU function for a kernel on a device: any       *)
(* number of threads call TritonKernel::invoke, which peeks the kernel's   *)
(* function cache under a shared lock, and loads the function under the    *)
(* unique one when it is not there (OnDeviceKernel).  The image comes from *)
(* a package, decompressed once from an entry of a ZIP file and shared by  *)
(* all kernels of that entry (PackedKernel::open and its registry).        *)
(*                                                                         *)
(* What a thread does while it holds a lock exclusively is one step unless *)
(* other locks are taken in between.  Opening a file, reading it, and the  *)
(* HIP calls may fail, each time anew.                                     *)
(***************************************************************************)
EXTENDS Integers

CONSTANTS
  Threads, Kernels, Devices,
  Entries,     \* AKS2 entries of the ZIP files
  Files,       \* ZIP files
  EntryOf,     \* the entry a kernel's image is in
  FileOf,      \* the file an entry would be in
  Present,     \* the entries that are in their files
  Compiled,    \* the kernels whose entry holds an image of them
  None,        \* no thread
  MaxFails     \* bound: failures of files, of decompression and of HIP

ASSUME KernelCacheAssumption ==
  /\ EntryOf \in [Kernels -> Entries] /\ FileOf \in [Entries -> Files]
  /\ Present \subseteq Entries
  /\ Compiled \subseteq { k \in Kernels : EntryOf[k] \in Present }
  /\ None \notin Threads
  /\ MaxFails \in Nat

VARIABLES
  pc,          \* where a thread is in TritonKernel::invoke
  kern, dev,   \* the kernel and the device of its call
  func,        \* the hipFunction_t it got, 0 for nullptr
  funLock,     \* who holds funcache_mutex_ of a kernel exclusively, or None
  packLock,    \* who holds packedkernel_mutex_ of a kernel, or None
  funcs,       \* funcache_: per kernel and device, 0 for none
  loaded,      \* the kernels with kernel_loaded_
  package,     \* packed_kernel_, 0 for nullptr
  image,       \* essentials_: the package essentials_.image points into, or 0
  listed,      \* the files in registry_
  directory,   \* their InnerMap: the entries read from the central directory
  ptr,         \* CachedEntry::ptr, 0 for nullptr
  built,       \* packages constructed per entry
  loads,       \* modules loaded per kernel and device, 1, 2, ... to tell them apart
  fails        \* failures so far

thread   == <<kern, dev>>
kernel   == <<funcs, loads>>
decomp   == <<loaded, package, image>>
registry == <<listed, directory, ptr, built>>
vars     == <<pc, thread, func, funLock, packLock, kernel, decomp, registry, fails>>

PC == {"idle", "peek", "lock", "decompress", "open", "slow", "load", "launch"}

TypeOK ==
  /\ pc \in [Threads -> PC]
  /\ kern \in [Threads -> Kernels] /\ dev \in [Threads -> Devices]
  /\ func \in [Threads -> Nat]
  /\ funLock \in [Kernels -> Threads \cup {None}]
  /\ packLock \in [Kernels -> Threads \cup {None}]
  /\ funcs \in [Kernels -> [Devices -> Nat]]
  /\ loads \in [Kernels -> [Devices -> Nat]]
  /\ loaded \in SUBSET Kernels
  /\ package \in [Kernels -> Nat] /\ image \in [Kernels -> Nat]
  /\ listed \in SUBSET Files
  /\ directory \in [Files -> SUBSET Entries]
  /\ ptr \in [Entries -> Nat] /\ built \in [Entries -> Nat]
  /\ fails \in 0 .. MaxFails

Init ==
  /\ pc = [t \in Threads |-> "idle"]
  /\ kern \in [Threads -> Kernels] /\ dev \in [Threads -> Devices]
  /\ func = [t \in Threads |-> 0]
  /\ funLock = [k \in Kernels |-> None] /\ packLock = [k \in Kernels |-> None]
  /\ funcs = [k \in Kernels |-> [d \in Devices |-> 0]]
  /\ loads = [k \in Kernels |-> [d \in Devices |-> 0]]
  /\ loaded = {}
  /\ package = [k \in Kernels |-> 0] /\ image = [k \in Kernels |-> 0]
  /\ listed = {}
  /\ directory = [f \in Files |-> {}]
  /\ ptr = [e \in Entries |-> 0] /\ built = [e \in Entries |-> 0]
  /\ fails = 0

-----------------------------------------------------------------------------
Goto(t, place) == pc' = [pc EXCEPT ![t] = place]

\* An operation on a file or a device that may fail, and whether it did.
Succeed == UNCHANGED fails
Fail    == fails < MaxFails /\ fails' = fails + 1

\* TritonKernel::invoke asks for a function.
Invoke(t, k, d) ==
  /\ pc[t] = "idle"
  /\ Goto(t, "peek")
  /\ kern' = [kern EXCEPT ![t] = k] /\ dev' = [dev EXCEPT ![t] = d]
  /\ UNCHANGED <<func, funLock, packLock, kernel, decomp, registry, fails>>

-----------------------------------------------------------------------------
(* OnDeviceKernel                                                          *)

\* cfind_function on behalf of t
Cached(t) == funcs[kern[t]][dev[t]]

\* get_kernel: the shared lock, for one look.
Peek(t) ==
  /\ pc[t] = "peek" /\ funLock[kern[t]] = None
  /\ func' = [func EXCEPT ![t] = Cached(t)]
  /\ Goto(t, IF Cached(t) = 0 THEN "lock" ELSE "launch")
  /\ UNCHANGED <<thread, funLock, packLock, kernel, decomp, registry, fails>>

\* Fault: no second look.
LockUnchecked(t) ==
  /\ pc[t] = "lock" /\ funLock[kern[t]] = None
  /\ funLock' = [funLock EXCEPT ![kern[t]] = t]
  /\ Goto(t, "decompress")
  /\ UNCHANGED <<thread, func, packLock, kernel, decomp, registry, fails>>

\* get_kernel: the unique lock, and a second look before it is kept.
Lock(t) ==
  /\ pc[t] = "lock" /\ funLock[kern[t]] = None
  /\ func' = [func EXCEPT ![t] = Cached(t)]
  /\ IF Cached(t) = 0
     THEN funLock' = [funLock EXCEPT ![kern[t]] = t] /\ Goto(t, "decompress")
     ELSE Goto(t, "launch") /\ UNCHANGED funLock
  /\ UNCHANGED <<thread, packLock, kernel, decomp, registry, fails>>

\* decompress_kernel, up to the call of PackedKernel::open.
Decompress(t) ==
  LET k == kern[t] IN
  /\ pc[t] = "decompress"
  /\ IF k \in loaded
     THEN Goto(t, "load") /\ UNCHANGED packLock
     ELSE /\ packLock[k] = None
          /\ packLock' = [packLock EXCEPT ![k] = t]
          /\ Goto(t, "open")
  /\ UNCHANGED <<thread, func, funLock, kernel, decomp, registry, fails>>

\* Fault: only a package that was found settles the matter.
OpenedIfFound(t, p) ==
  LET k == kern[t] IN
  /\ package' = [package EXCEPT ![k] = p]
  /\ image' = IF p # 0 THEN [image EXCEPT ![k] = IF k \in Compiled THEN p ELSE 0]
              ELSE image
  /\ loaded' = IF p # 0 THEN loaded \cup {k} ELSE loaded
  /\ packLock' = [packLock EXCEPT ![k] = None]
  /\ Goto(t, "load")
  /\ UNCHANGED <<thread, func, funLock, kernel>>

\* Fault: what was not found is looked for again, under the outer lock.
OpenedRetries(t, p) ==
  IF p # 0
  THEN OpenedIfFound(t, p)
  ELSE /\ packLock' = [packLock EXCEPT ![kern[t]] = None]
       /\ Goto(t, "decompress")
       /\ UNCHANGED <<thread, func, funLock, kernel, decomp>>

\* The rest of decompress_kernel: PackedKernel::open returned p.  The kernel
\* counts as loaded also when it failed.
Opened(t, p) ==
  LET k == kern[t] IN
  /\ package' = [package EXCEPT ![k] = p]
  /\ image' = IF p # 0 THEN [image EXCEPT ![k] = IF k \in Compiled THEN p ELSE 0]
              ELSE image
  /\ loaded' = loaded \cup {k}
  /\ packLock' = [packLock EXCEPT ![k] = None]
  /\ Goto(t, "load")
  /\ UNCHANGED <<thread, func, funLock, kernel>>

Release(t) == funLock' = [funLock EXCEPT ![kern[t]] = None]

\* load_for_device: no image, no function.
LoadNothing(t) ==
  /\ pc[t] = "load" /\ image[kern[t]] = 0
  /\ Release(t) /\ Goto(t, "launch")
  /\ UNCHANGED <<thread, func, packLock, kernel, decomp, registry, fails>>

\* The module is loaded and its function emplaced, which leaves a function
\* that is already there.
Load(t) ==
  LET k == kern[t]
      d == dev[t]
  IN
  /\ pc[t] = "load" /\ image[k] # 0
  /\ Succeed
  /\ loads' = [loads EXCEPT ![k][d] = @ + 1]
  /\ funcs' = [funcs EXCEPT ![k][d] = IF @ = 0 THEN loads[k][d] + 1 ELSE @]
  /\ func' = [func EXCEPT ![t] = loads[k][d] + 1]
  /\ Release(t) /\ Goto(t, "launch")
  /\ UNCHANGED <<thread, packLock, decomp, registry>>

\* AOTRITON_HIP_CHECK_RETURN throws, on the module or on the function in it;
\* unwinding releases the lock, and nobody has the module any more.
LoadThrows(t) ==
  LET k == kern[t]
      d == dev[t]
  IN
  /\ pc[t] = "load" /\ image[k] # 0
  /\ Fail
  /\ loads' = loads \/ loads' = [loads EXCEPT ![k][d] = @ + 1]
  /\ Release(t) /\ Goto(t, "idle")
  /\ UNCHANGED <<thread, func, funcs, packLock, decomp, registry>>

\* hipModuleLaunchKernel, of a null function too; essentials_ is read here,
\* after the locks are released.
Launch(t) ==
  /\ pc[t] = "launch"
  /\ Goto(t, "idle")
  /\ UNCHANGED <<thread, func, funLock, packLock, kernel, decomp, registry, fails>>

-----------------------------------------------------------------------------
(* PackedKernel::open                                                      *)

EntryFor(t) == EntryOf[kern[t]]
FileFor(t)  == FileOf[EntryFor(t)]

\* Fault: a package not constructed yet is taken for a missing entry.
FastPathFinal(t) ==
  /\ pc[t] = "open"
  /\ IF FileFor(t) \in listed
     THEN Opened(t, ptr[EntryFor(t)])
     ELSE Goto(t, "slow") /\ UNCHANGED <<thread, func, funLock, packLock, kernel, decomp>>
  /\ UNCHANGED <<registry, fails>>

\* Under the shared lock: what the registry knows is final, but for an entry
\* whose package has not been constructed.
FastPath(t) ==
  /\ pc[t] = "open"
  /\ IF FileFor(t) \in listed
        /\ (EntryFor(t) \notin directory[FileFor(t)] \/ ptr[EntryFor(t)] # 0)
     THEN Opened(t, ptr[EntryFor(t)])
     ELSE Goto(t, "slow") /\ UNCHANGED <<thread, func, funLock, packLock, kernel, decomp>>
  /\ UNCHANGED <<registry, fails>>

\* The file cannot be opened, or lszip cannot read its directory: a partial
\* one is not kept.
ListFails(t) ==
  /\ pc[t] = "slow" /\ FileFor(t) \notin listed
  /\ Fail
  /\ Opened(t, 0)
  /\ UNCHANGED registry

InFile(f) == { e \in Present : FileOf[e] = f }

\* The directory of the file as the slow path has it.
Directory(f) == IF f \in listed THEN directory[f] ELSE InFile(f)

List(t) ==
  /\ listed' = listed \cup {FileFor(t)}
  /\ directory' = [directory EXCEPT ![FileFor(t)] = Directory(FileFor(t))]

\* The entry is not in the file, or another thread was faster.
FindEntry(t) ==
  /\ pc[t] = "slow"
  /\ EntryFor(t) \notin Directory(FileFor(t)) \/ ptr[EntryFor(t)] # 0
  /\ List(t) /\ Succeed
  /\ Opened(t, ptr[EntryFor(t)])
  /\ UNCHANGED <<ptr, built>>

\* The file cannot be opened again, or does not decompress: the pointer is reset.
ConstructFails(t) ==
  /\ pc[t] = "slow"
  /\ EntryFor(t) \in Directory(FileFor(t)) /\ ptr[EntryFor(t)] = 0
  /\ List(t) /\ Fail
  /\ Opened(t, 0)
  /\ UNCHANGED <<ptr, built>>

\* Fault: the package is constructed without a second look at the pointer.
ConstructAlways(t) ==
  LET e == EntryFor(t) IN
  /\ pc[t] = "slow"
  /\ e \in Directory(FileFor(t))
  /\ List(t) /\ Succeed
  /\ built' = [built EXCEPT ![e] = @ + 1]
  /\ ptr' = [ptr EXCEPT ![e] = built[e] + 1]
  /\ Opened(t, built[e] + 1)

Construct(t) ==
  LET e == EntryFor(t) IN
  /\ pc[t] = "slow"
  /\ e \in Directory(FileFor(t)) /\ ptr[e] = 0
  /\ List(t) /\ Succeed
  /\ built' = [built EXCEPT ![e] = @ + 1]
  /\ ptr' = [ptr EXCEPT ![e] = built[e] + 1]
  /\ Opened(t, built[e] + 1)

-----------------------------------------------------------------------------
Run(t) ==
  \/ Peek(t) \/ Lock(t) \/ Decompress(t)
  \/ FastPath(t) \/ ListFails(t) \/ FindEntry(t) \/ ConstructFails(t) \/ Construct(t)
  \/ LoadNothing(t) \/ Load(t) \/ LoadThrows(t) \/ Launch(t)

Next == \E t \in Threads : Run(t) \/ \E k \in Kernels, d \in Devices : Invoke(t, k, d)

Spec     == Init /\ [][Next]_vars
\* A thread goes on, and a mutex that is free again and again is obtained:
\* the locks of the platforms are not assumed fair beyond that.
FairSpec == Spec /\ \A t \in Threads : SF_vars(Run(t))

-----------------------------------------------------------------------------
\* A module is loaded once per device (get_kernel's second look), and again
\* only for a failed call: anything else would waste device memory and leave
\* two handles to one function.
LoadedOnce == \A k \in Kernels, d \in Devices : loads[k][d] <= 1 + fails

\* A package is decompressed once, however many kernels and threads want it
\* (PackedKernel::open's second look): images point into it for good.
BuiltOnce == \A e \in Entries : built[e] <= 1

\* A thread about to launch a function holds the one function of that kernel
\* and device, and the essentials it reads without a lock are those of an
\* image in the package the registry keeps alive (get_kernel, invoke).
FunctionBacked ==
  \A t \in Threads : pc[t] = "launch" /\ func[t] # 0 =>
    /\ func[t] = funcs[kern[t]][dev[t]]
    /\ kern[t] \in loaded
    /\ image[kern[t]] # 0 /\ image[kern[t]] = ptr[EntryOf[kern[t]]]

\* A kernel is missing only where none was compiled or something failed: the
\* races of the two double checks lose nothing (get_kernel, open).
NoSpuriousMiss ==
  \A t \in Threads : pc[t] = "launch" /\ func[t] = 0 /\ kern[t] \in Compiled => fails > 0

\* essentials_ is never written while a thread reads it unlocked
\* (decompress_kernel, invoke): kernel_loaded_ makes it immutable first.
EssentialsQuiet ==
  [][\A k \in Kernels : image'[k] # image[k] =>
       \A t \in Threads : ~(pc[t] = "launch" /\ kern[t] = k)]_vars

\* Every call comes back, with a function, without one or with an exception.
CallReturns == \A t \in Threads : pc[t] # "idle" ~> pc[t] = "idle"
=============================================================================
