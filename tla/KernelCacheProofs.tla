------------------------- MODULE KernelCacheProofs -------------------------
(***************************************************************************)
(* Proofs about KernelCache for any threads, kernels, devices and files    *)
(* and any number of failures.  The argument: whoever works on a kernel    *)
(* holds its funcache_mutex_ exclusively, so that nobody else settles its  *)
(* image or its function meanwhile (Owners); what is settled never         *)
(* changes again, so that it can be read without a lock (Launching).       *)
(***************************************************************************)
EXTENDS KernelCache, TLAPS

USE KernelCacheAssumption

\* t is in load_for_device.
Holding(t) == pc[t] \in {"decompress", "open", "slow", "load"}

\* The unique lock of its kernel is its own, and the function is missing.
Owners ==
  \A t \in Threads : Holding(t) =>
    /\ funLock[kern[t]] = t
    /\ func[t] = 0 /\ funcs[kern[t]][dev[t]] = 0

\* kernel_loaded_ is set once, by whoever opened the package.
Settled ==
  \A t \in Threads :
    /\ pc[t] \in {"load", "launch"} => kern[t] \in loaded
    /\ pc[t] \in {"open", "slow"} => kern[t] \notin loaded

\* A thread that launches has what is there for good.
Launching ==
  \A t \in Threads : pc[t] = "launch" =>
    /\ func[t] # 0 => func[t] = funcs[kern[t]][dev[t]]
    /\ func[t] = 0 => image[kern[t]] = 0

Functions ==
  \A k \in Kernels, d \in Devices :
    /\ funcs[k][d] # 0 => k \in loaded /\ image[k] # 0 /\ loads[k][d] <= 1 + fails
    /\ funcs[k][d] = 0 => loads[k][d] <= fails

Images == \A k \in Kernels : image[k] # 0 => image[k] = ptr[EntryOf[k]]

Packages == \A e \in Entries : built[e] <= 1 /\ (ptr[e] = 0 => built[e] = 0)

Directories == \A f \in listed : directory[f] = InFile(f)

Misses == \A k \in loaded \cap Compiled : image[k] = 0 => fails > 0

CacheInv ==
  /\ TypeOK /\ Owners /\ Settled /\ Launching
  /\ Functions /\ Images /\ Packages /\ Directories /\ Misses

-----------------------------------------------------------------------------

\* A step keeps the types.
LEMMA StepTypes ==
  ASSUME CacheInv, [Next]_vars
  PROVE  TypeOK'
<1> USE DEF CacheInv, TypeOK, PC, thread, kernel, decomp, registry
<1>1. CASE UNCHANGED vars
  BY <1>1 DEF vars
<1>2. ASSUME NEW t \in Threads, NEW k \in Kernels, NEW d \in Devices, Invoke(t, k, d)
      PROVE  TypeOK'
  BY <1>2 DEF Invoke, Goto
<1>3. ASSUME NEW t \in Threads, Run(t)
      PROVE  TypeOK'
  <2>1. CASE Peek(t)
    BY <2>1 DEF Peek, Goto, Cached
  <2>2. CASE Lock(t)
    <3>1. pc' \in [Threads -> PC] /\ func' \in [Threads -> Nat]
      BY <2>2 DEF Lock, Goto, Cached
    <3>2. funLock' \in [Kernels -> Threads \cup {None}]
      <4>1. kern[t] \in Kernels
        OBVIOUS
      <4>2. funLock' = [funLock EXCEPT ![kern[t]] = t] \/ funLock' = funLock
        BY <2>2 DEF Lock
      <4> QED
        BY <4>1, <4>2
    <3>3. /\ kern' \in [Threads -> Kernels]
          /\ dev' \in [Threads -> Devices]
          /\ packLock' \in [Kernels -> Threads \cup {None}]
          /\ funcs' \in [Kernels -> [Devices -> Nat]]
          /\ loads' \in [Kernels -> [Devices -> Nat]]
          /\ loaded' \in SUBSET Kernels
          /\ package' \in [Kernels -> Nat]
          /\ image' \in [Kernels -> Nat]
          /\ listed' \in SUBSET Files
          /\ directory' \in [Files -> SUBSET Entries]
          /\ ptr' \in [Entries -> Nat]
          /\ built' \in [Entries -> Nat]
          /\ fails' \in 0 .. MaxFails
      BY <2>2 DEF Lock, Goto, Cached
    <3> QED
      BY <3>1, <3>2, <3>3
  <2>3. CASE Decompress(t)
    <3>1. pc' \in [Threads -> PC] /\ func' \in [Threads -> Nat]
      BY <2>3 DEF Decompress, Goto
    <3>2. packLock' \in [Kernels -> Threads \cup {None}]
      <4>1. kern[t] \in Kernels
        OBVIOUS
      <4>2. packLock' = [packLock EXCEPT ![kern[t]] = t] \/ packLock' = packLock
        BY <2>3 DEF Decompress
      <4> QED
        BY <4>1, <4>2
    <3>3. /\ kern' \in [Threads -> Kernels]
          /\ dev' \in [Threads -> Devices]
          /\ funLock' \in [Kernels -> Threads \cup {None}]
          /\ funcs' \in [Kernels -> [Devices -> Nat]]
          /\ loads' \in [Kernels -> [Devices -> Nat]]
          /\ loaded' \in SUBSET Kernels
          /\ package' \in [Kernels -> Nat]
          /\ image' \in [Kernels -> Nat]
          /\ listed' \in SUBSET Files
          /\ directory' \in [Files -> SUBSET Entries]
          /\ ptr' \in [Entries -> Nat]
          /\ built' \in [Entries -> Nat]
          /\ fails' \in 0 .. MaxFails
      BY <2>3 DEF Decompress, Goto
    <3> QED
      BY <3>1, <3>2, <3>3
  <2>4. CASE FastPath(t)
    <3>1. pc' \in [Threads -> PC] /\ func' \in [Threads -> Nat]
      BY <2>4 DEF FastPath, Opened, Goto, EntryFor, FileFor
    <3>2. packLock' \in [Kernels -> Threads \cup {None}]
      BY <2>4 DEF FastPath, Opened, Goto, EntryFor, FileFor
    <3>3. loaded' \in SUBSET Kernels
      BY <2>4 DEF FastPath, Opened, Goto, EntryFor, FileFor
    <3>4. package' \in [Kernels -> Nat] /\ image' \in [Kernels -> Nat]
      <4>1. CASE FileFor(t) \in listed
                  /\ (EntryFor(t) \notin directory[FileFor(t)] \/ ptr[EntryFor(t)] # 0)
        <5>1. ptr[EntryFor(t)] \in Nat
          BY DEF EntryFor
        <5>2. Opened(t, ptr[EntryFor(t)])
          BY <2>4, <4>1 DEF FastPath
        <5> QED
          BY <5>1, <5>2 DEF Opened
      <4>2. CASE ~ (FileFor(t) \in listed
                  /\ (EntryFor(t) \notin directory[FileFor(t)] \/ ptr[EntryFor(t)] # 0))
        BY <2>4, <4>2 DEF FastPath
      <4> QED
        BY <4>1, <4>2
    <3>5. /\ kern' \in [Threads -> Kernels]
          /\ dev' \in [Threads -> Devices]
          /\ funLock' \in [Kernels -> Threads \cup {None}]
          /\ funcs' \in [Kernels -> [Devices -> Nat]]
          /\ loads' \in [Kernels -> [Devices -> Nat]]
          /\ listed' \in SUBSET Files
          /\ directory' \in [Files -> SUBSET Entries]
          /\ ptr' \in [Entries -> Nat]
          /\ built' \in [Entries -> Nat]
          /\ fails' \in 0 .. MaxFails
      BY <2>4 DEF FastPath, Opened, Goto, EntryFor, FileFor
    <3> QED
      BY <3>1, <3>2, <3>3, <3>4, <3>5
  <2>5. CASE ListFails(t)
    BY <2>5 DEF ListFails, Fail, Opened, Goto, FileFor
  <2>6. CASE FindEntry(t)
    <3>1. pc' \in [Threads -> PC] /\ func' \in [Threads -> Nat]
      BY <2>6 DEF FindEntry, List, Succeed, Directory, Opened, Goto, EntryFor, FileFor
    <3>2. packLock' \in [Kernels -> Threads \cup {None}]
      BY <2>6 DEF FindEntry, List, Succeed, Directory, Opened, Goto, EntryFor, FileFor
    <3>3. loaded' \in SUBSET Kernels
      BY <2>6 DEF FindEntry, List, Succeed, Directory, Opened, Goto, EntryFor, FileFor
    <3>4. package' \in [Kernels -> Nat] /\ image' \in [Kernels -> Nat]
      BY <2>6 DEF FindEntry, List, Succeed, Directory, Opened, Goto, EntryFor, FileFor
    <3>5. listed' \in SUBSET Files /\ directory' \in [Files -> SUBSET Entries]
      BY <2>6 DEF FindEntry, List, Succeed, Directory, Opened, Goto, EntryFor, FileFor, InFile
    <3>6. /\ kern' \in [Threads -> Kernels]
          /\ dev' \in [Threads -> Devices]
          /\ funLock' \in [Kernels -> Threads \cup {None}]
          /\ funcs' \in [Kernels -> [Devices -> Nat]]
          /\ loads' \in [Kernels -> [Devices -> Nat]]
          /\ ptr' \in [Entries -> Nat]
          /\ built' \in [Entries -> Nat]
          /\ fails' \in 0 .. MaxFails
      BY <2>6 DEF FindEntry, List, Succeed, Directory, Opened, Goto, EntryFor, FileFor
    <3> QED
      BY <3>1, <3>2, <3>3, <3>4, <3>5, <3>6
  <2>7. CASE ConstructFails(t)
    <3>1. pc' \in [Threads -> PC] /\ func' \in [Threads -> Nat]
      BY <2>7 DEF ConstructFails, List, Fail, Directory, Opened, Goto, EntryFor, FileFor
    <3>2. packLock' \in [Kernels -> Threads \cup {None}]
      BY <2>7 DEF ConstructFails, List, Fail, Directory, Opened, Goto, EntryFor, FileFor
    <3>3. loaded' \in SUBSET Kernels
      BY <2>7 DEF ConstructFails, List, Fail, Directory, Opened, Goto, EntryFor, FileFor
    <3>4. package' \in [Kernels -> Nat] /\ image' \in [Kernels -> Nat]
      BY <2>7 DEF ConstructFails, List, Fail, Directory, Opened, Goto, EntryFor, FileFor
    <3>5. listed' \in SUBSET Files /\ directory' \in [Files -> SUBSET Entries]
      BY <2>7 DEF ConstructFails, List, Fail, Directory, Opened, Goto, EntryFor, FileFor, InFile
    <3>6. fails' \in 0 .. MaxFails
      BY <2>7 DEF ConstructFails, List, Fail, Directory, Opened, Goto, EntryFor, FileFor
    <3>7. /\ kern' \in [Threads -> Kernels]
          /\ dev' \in [Threads -> Devices]
          /\ funLock' \in [Kernels -> Threads \cup {None}]
          /\ funcs' \in [Kernels -> [Devices -> Nat]]
          /\ loads' \in [Kernels -> [Devices -> Nat]]
          /\ ptr' \in [Entries -> Nat]
          /\ built' \in [Entries -> Nat]
      BY <2>7 DEF ConstructFails, List, Fail, Directory, Opened, Goto, EntryFor, FileFor
    <3> QED
      BY <3>1, <3>2, <3>3, <3>4, <3>5, <3>6, <3>7
  <2>8. CASE Construct(t)
    <3>1. pc' \in [Threads -> PC] /\ func' \in [Threads -> Nat]
      BY <2>8 DEF Construct, List, Succeed, Directory, Opened, Goto, EntryFor, FileFor
    <3>2. packLock' \in [Kernels -> Threads \cup {None}]
      BY <2>8 DEF Construct, List, Succeed, Directory, Opened, Goto, EntryFor, FileFor
    <3>3. loaded' \in SUBSET Kernels
      BY <2>8 DEF Construct, List, Succeed, Directory, Opened, Goto, EntryFor, FileFor
    <3>4. package' \in [Kernels -> Nat] /\ image' \in [Kernels -> Nat]
      BY <2>8 DEF Construct, List, Succeed, Directory, Opened, Goto, EntryFor, FileFor
    <3>5. listed' \in SUBSET Files /\ directory' \in [Files -> SUBSET Entries]
      BY <2>8 DEF Construct, List, Succeed, Directory, Opened, Goto, EntryFor, FileFor, InFile
    <3>6. ptr' \in [Entries -> Nat] /\ built' \in [Entries -> Nat]
      BY <2>8 DEF Construct, List, Succeed, Directory, Opened, Goto, EntryFor, FileFor
    <3>7. /\ kern' \in [Threads -> Kernels]
          /\ dev' \in [Threads -> Devices]
          /\ funLock' \in [Kernels -> Threads \cup {None}]
          /\ funcs' \in [Kernels -> [Devices -> Nat]]
          /\ loads' \in [Kernels -> [Devices -> Nat]]
          /\ fails' \in 0 .. MaxFails
      BY <2>8 DEF Construct, List, Succeed, Directory, Opened, Goto, EntryFor, FileFor
    <3> QED
      BY <3>1, <3>2, <3>3, <3>4, <3>5, <3>6, <3>7
  <2>9. CASE LoadNothing(t)
    BY <2>9 DEF LoadNothing, Release, Goto
  <2>10. CASE Load(t)
    BY <2>10 DEF Load, Release, Succeed, Goto
  <2>11. CASE LoadThrows(t)
    <3>1. pc' \in [Threads -> PC] /\ func' \in [Threads -> Nat]
      BY <2>11 DEF LoadThrows, Release, Fail, Goto
    <3>2. funLock' \in [Kernels -> Threads \cup {None}]
      BY <2>11 DEF LoadThrows, Release, Fail, Goto
    <3>3. loads' \in [Kernels -> [Devices -> Nat]]
      <4>1. loads' = loads \/ loads' = [loads EXCEPT ![kern[t]][dev[t]] = @ + 1]
        BY <2>11 DEF LoadThrows
      <4>2. ASSUME loads' = [loads EXCEPT ![kern[t]][dev[t]] = @ + 1]
            PROVE  loads' \in [Kernels -> [Devices -> Nat]]
        BY <4>2
      <4> QED
        BY <4>1, <4>2
    <3>4. fails' \in 0 .. MaxFails
      BY <2>11 DEF LoadThrows, Release, Fail, Goto
    <3>5. /\ kern' \in [Threads -> Kernels]
          /\ dev' \in [Threads -> Devices]
          /\ packLock' \in [Kernels -> Threads \cup {None}]
          /\ funcs' \in [Kernels -> [Devices -> Nat]]
          /\ loaded' \in SUBSET Kernels
          /\ package' \in [Kernels -> Nat]
          /\ image' \in [Kernels -> Nat]
          /\ listed' \in SUBSET Files
          /\ directory' \in [Files -> SUBSET Entries]
          /\ ptr' \in [Entries -> Nat]
          /\ built' \in [Entries -> Nat]
      BY <2>11 DEF LoadThrows, Release, Fail, Goto
    <3> QED
      BY <3>1, <3>2, <3>3, <3>4, <3>5
  <2>12. CASE Launch(t)
    BY <2>12 DEF Launch, Goto
  <2> QED
    BY <1>3, <2>1, <2>2, <2>3, <2>4, <2>5, <2>6, <2>7, <2>8, <2>9, <2>10, <2>11, <2>12 DEF Run
<1> QED
  BY <1>1, <1>2, <1>3 DEF Next

\* Only the owner of a kernel's lock touches the kernel.
LEMMA StepOwners ==
  ASSUME CacheInv, [Next]_vars
  PROVE  Owners'
<1> USE DEF CacheInv, TypeOK, PC, Owners, Holding, thread, kernel, decomp, registry
<1>1. CASE UNCHANGED vars
  BY <1>1 DEF vars
<1>2. ASSUME NEW t \in Threads, NEW k \in Kernels, NEW d \in Devices, Invoke(t, k, d)
      PROVE  Owners'
  BY <1>2 DEF Invoke, Goto
<1>3. ASSUME NEW t \in Threads, Run(t)
      PROVE  Owners'
  <2>1. CASE Peek(t)
    BY <2>1 DEF Peek, Goto, Cached
  <2>2. CASE Lock(t)
    BY <2>2 DEF Lock, Goto, Cached
  <2>3. CASE Decompress(t)
    BY <2>3 DEF Decompress, Goto
  <2>4. CASE FastPath(t)
    <3>1. CASE FileFor(t) \in listed
                /\ (EntryFor(t) \notin directory[FileFor(t)] \/ ptr[EntryFor(t)] # 0)
      BY <2>4, <3>1 DEF FastPath, Opened, Goto, EntryFor, FileFor
    <3>2. CASE ~ (FileFor(t) \in listed
                /\ (EntryFor(t) \notin directory[FileFor(t)] \/ ptr[EntryFor(t)] # 0))
      BY <2>4, <3>2 DEF FastPath, Goto
    <3> QED
      BY <3>1, <3>2
  <2>5. CASE ListFails(t)
    BY <2>5 DEF ListFails, Fail, Opened, Goto, FileFor
  <2>6. CASE FindEntry(t)
    BY <2>6 DEF FindEntry, List, Succeed, Directory, Opened, Goto, EntryFor, FileFor
  <2>7. CASE ConstructFails(t)
    BY <2>7 DEF ConstructFails, List, Fail, Directory, Opened, Goto, EntryFor, FileFor
  <2>8. CASE Construct(t)
    BY <2>8 DEF Construct, List, Succeed, Directory, Opened, Goto, EntryFor, FileFor
  <2>9. CASE LoadNothing(t)
    BY <2>9 DEF LoadNothing, Release, Goto
  <2>10. CASE Load(t)
    BY <2>10 DEF Load, Release, Succeed, Goto
  <2>11. CASE LoadThrows(t)
    BY <2>11 DEF LoadThrows, Release, Fail, Goto
  <2>12. CASE Launch(t)
    BY <2>12 DEF Launch, Goto
  <2> QED
    BY <1>3, <2>1, <2>2, <2>3, <2>4, <2>5, <2>6, <2>7, <2>8, <2>9, <2>10, <2>11, <2>12 DEF Run
<1> QED
  BY <1>1, <1>2, <1>3 DEF Next

\* A kernel is settled when, and only when, its package was opened.
LEMMA StepSettled ==
  ASSUME CacheInv, [Next]_vars
  PROVE  Settled'
<1> USE DEF CacheInv, TypeOK, PC, Owners, Settled, Holding, Functions, thread, kernel, decomp, registry
<1>1. CASE UNCHANGED vars
  BY <1>1 DEF vars
<1>2. ASSUME NEW t \in Threads, NEW k \in Kernels, NEW d \in Devices, Invoke(t, k, d)
      PROVE  Settled'
  BY <1>2 DEF Invoke, Goto
<1>3. ASSUME NEW t \in Threads, Run(t)
      PROVE  Settled'
  <2>1. CASE Peek(t)
    BY <2>1 DEF Peek, Goto, Cached
  <2>2. CASE Lock(t)
    BY <2>2 DEF Lock, Goto, Cached
  <2>3. CASE Decompress(t)
    BY <2>3 DEF Decompress, Goto
  <2>4. CASE FastPath(t)
    <3>1. CASE FileFor(t) \in listed
                /\ (EntryFor(t) \notin directory[FileFor(t)] \/ ptr[EntryFor(t)] # 0)
      <4>1. Opened(t, ptr[EntryFor(t)]) /\ pc[t] = "open"
        BY <2>4, <3>1 DEF FastPath
      <4> QED
        BY <4>1 DEF Opened, Goto
    <3>2. CASE ~ (FileFor(t) \in listed
                /\ (EntryFor(t) \notin directory[FileFor(t)] \/ ptr[EntryFor(t)] # 0))
      BY <2>4, <3>2 DEF FastPath, Goto
    <3> QED
      BY <3>1, <3>2
  <2>5. CASE ListFails(t)
    BY <2>5 DEF ListFails, Fail, Opened, Goto, FileFor
  <2>6. CASE FindEntry(t)
    BY <2>6 DEF FindEntry, List, Succeed, Directory, Opened, Goto, EntryFor, FileFor
  <2>7. CASE ConstructFails(t)
    BY <2>7 DEF ConstructFails, List, Fail, Directory, Opened, Goto, EntryFor, FileFor
  <2>8. CASE Construct(t)
    BY <2>8 DEF Construct, List, Succeed, Directory, Opened, Goto, EntryFor, FileFor
  <2>9. CASE LoadNothing(t)
    BY <2>9 DEF LoadNothing, Release, Goto
  <2>10. CASE Load(t)
    BY <2>10 DEF Load, Release, Succeed, Goto
  <2>11. CASE LoadThrows(t)
    BY <2>11 DEF LoadThrows, Release, Fail, Goto
  <2>12. CASE Launch(t)
    BY <2>12 DEF Launch, Goto
  <2> QED
    BY <1>3, <2>1, <2>2, <2>3, <2>4, <2>5, <2>6, <2>7, <2>8, <2>9, <2>10, <2>11, <2>12 DEF Run
<1> QED
  BY <1>1, <1>2, <1>3 DEF Next

\* What a thread launches does not change before it does.
LEMMA StepLaunching ==
  ASSUME CacheInv, [Next]_vars
  PROVE  Launching'
<1> USE DEF CacheInv, TypeOK, PC, Owners, Settled, Launching, Holding, Functions, thread, kernel, decomp, registry
<1>1. CASE UNCHANGED vars
  BY <1>1 DEF vars
<1>2. ASSUME NEW t \in Threads, NEW k \in Kernels, NEW d \in Devices, Invoke(t, k, d)
      PROVE  Launching'
  BY <1>2 DEF Invoke, Goto
<1>3. ASSUME NEW t \in Threads, Run(t)
      PROVE  Launching'
  <2>1. CASE Peek(t)
    BY <2>1 DEF Peek, Goto, Cached
  <2>2. CASE Lock(t)
    BY <2>2 DEF Lock, Goto, Cached
  <2>3. CASE Decompress(t)
    BY <2>3 DEF Decompress, Goto
  <2>4. CASE FastPath(t)
    <3>1. CASE FileFor(t) \in listed
                /\ (EntryFor(t) \notin directory[FileFor(t)] \/ ptr[EntryFor(t)] # 0)
      BY <2>4, <3>1 DEF FastPath, Opened, Goto, EntryFor, FileFor
    <3>2. CASE ~ (FileFor(t) \in listed
                /\ (EntryFor(t) \notin directory[FileFor(t)] \/ ptr[EntryFor(t)] # 0))
      BY <2>4, <3>2 DEF FastPath, Goto
    <3> QED
      BY <3>1, <3>2
  <2>5. CASE ListFails(t)
    BY <2>5 DEF ListFails, Fail, Opened, Goto, FileFor
  <2>6. CASE FindEntry(t)
    BY <2>6 DEF FindEntry, List, Succeed, Directory, Opened, Goto, EntryFor, FileFor
  <2>7. CASE ConstructFails(t)
    BY <2>7 DEF ConstructFails, List, Fail, Directory, Opened, Goto, EntryFor, FileFor
  <2>8. CASE Construct(t)
    BY <2>8 DEF Construct, List, Succeed, Directory, Opened, Goto, EntryFor, FileFor
  <2>9. CASE LoadNothing(t)
    BY <2>9 DEF LoadNothing, Release, Goto
  <2>10. CASE Load(t)
    BY <2>10 DEF Load, Release, Succeed, Goto
  <2>11. CASE LoadThrows(t)
    BY <2>11 DEF LoadThrows, Release, Fail, Goto
  <2>12. CASE Launch(t)
    BY <2>12 DEF Launch, Goto
  <2> QED
    BY <1>3, <2>1, <2>2, <2>3, <2>4, <2>5, <2>6, <2>7, <2>8, <2>9, <2>10, <2>11, <2>12 DEF Run
<1> QED
  BY <1>1, <1>2, <1>3 DEF Next

\* A function is there because its module was loaded; others failed.
LEMMA StepFunctions ==
  ASSUME CacheInv, [Next]_vars
  PROVE  Functions'
<1> USE DEF CacheInv, TypeOK, PC, Owners, Settled, Holding, Functions, thread, kernel, decomp, registry
<1>1. CASE UNCHANGED vars
  BY <1>1 DEF vars
<1>2. ASSUME NEW t \in Threads, NEW k \in Kernels, NEW d \in Devices, Invoke(t, k, d)
      PROVE  Functions'
  BY <1>2 DEF Invoke, Goto
<1>3. ASSUME NEW t \in Threads, Run(t)
      PROVE  Functions'
  <2>1. CASE Peek(t)
    BY <2>1 DEF Peek, Goto, Cached
  <2>2. CASE Lock(t)
    BY <2>2 DEF Lock, Goto, Cached
  <2>3. CASE Decompress(t)
    BY <2>3 DEF Decompress, Goto
  <2>4. CASE FastPath(t)
    BY <2>4 DEF FastPath, Opened, Goto, EntryFor, FileFor
  <2>5. CASE ListFails(t)
    BY <2>5 DEF ListFails, Fail, Opened, Goto, FileFor
  <2>6. CASE FindEntry(t)
    BY <2>6 DEF FindEntry, List, Succeed, Directory, Opened, Goto, EntryFor, FileFor
  <2>7. CASE ConstructFails(t)
    BY <2>7 DEF ConstructFails, List, Fail, Directory, Opened, Goto, EntryFor, FileFor
  <2>8. CASE Construct(t)
    BY <2>8 DEF Construct, List, Succeed, Directory, Opened, Goto, EntryFor, FileFor
  <2>9. CASE LoadNothing(t)
    BY <2>9 DEF LoadNothing, Release, Goto
  <2>10. CASE Load(t)
    BY <2>10 DEF Load, Release, Succeed, Goto
  <2>11. CASE LoadThrows(t)
    <3>1. /\ funcs' = funcs /\ image' = image /\ loaded' = loaded
          /\ fails' = fails + 1
          /\ loads' = loads \/ loads' = [loads EXCEPT ![kern[t]][dev[t]] = @ + 1]
      BY <2>11 DEF LoadThrows, Fail
    <3>2. CASE loads' = loads
      BY <3>1, <3>2
    <3>3. CASE loads' = [loads EXCEPT ![kern[t]][dev[t]] = @ + 1]
      <4>1. \A k \in Kernels, d \in Devices :
              loads'[k][d] = loads[k][d] \/ loads'[k][d] = loads[k][d] + 1
        BY <3>3
      <4>2. \A k \in Kernels, d \in Devices : loads[k][d] \in Nat
        OBVIOUS
      <4>3. fails \in Nat
        BY DEF KernelCacheAssumption
      <4>4. Functions
        OBVIOUS
      <4> HIDE DEF CacheInv, TypeOK
      <4> QED
        BY <3>1, <4>1, <4>2, <4>3, <4>4
    <3> QED
      BY <3>1, <3>2, <3>3
  <2>12. CASE Launch(t)
    BY <2>12 DEF Launch, Goto
  <2> QED
    BY <1>3, <2>1, <2>2, <2>3, <2>4, <2>5, <2>6, <2>7, <2>8, <2>9, <2>10, <2>11, <2>12 DEF Run
<1> QED
  BY <1>1, <1>2, <1>3 DEF Next

\* An image is in the package the registry has.
LEMMA StepImages ==
  ASSUME CacheInv, [Next]_vars
  PROVE  Images'
<1> USE DEF CacheInv, TypeOK, PC, Images, Packages, Functions, thread, kernel, decomp, registry
<1>1. CASE UNCHANGED vars
  BY <1>1 DEF vars
<1>2. ASSUME NEW t \in Threads, NEW k \in Kernels, NEW d \in Devices, Invoke(t, k, d)
      PROVE  Images'
  BY <1>2 DEF Invoke, Goto
<1>3. ASSUME NEW t \in Threads, Run(t)
      PROVE  Images'
  <2>1. CASE Peek(t)
    BY <2>1 DEF Peek, Goto, Cached
  <2>2. CASE Lock(t)
    BY <2>2 DEF Lock, Goto, Cached
  <2>3. CASE Decompress(t)
    BY <2>3 DEF Decompress, Goto
  <2>4. CASE FastPath(t)
    <3>1. CASE FileFor(t) \in listed
                /\ (EntryFor(t) \notin directory[FileFor(t)] \/ ptr[EntryFor(t)] # 0)
      <4>1. Opened(t, ptr[EntryFor(t)]) /\ ptr' = ptr
        BY <2>4, <3>1 DEF FastPath
      <4>2. image' = image \/ image' = [image EXCEPT ![kern[t]] =
               IF kern[t] \in Compiled THEN ptr[EntryOf[kern[t]]] ELSE 0]
        BY <4>1 DEF Opened, EntryFor
      <4> QED
        BY <4>1, <4>2
    <3>2. CASE ~ (FileFor(t) \in listed
                /\ (EntryFor(t) \notin directory[FileFor(t)] \/ ptr[EntryFor(t)] # 0))
      BY <2>4, <3>2 DEF FastPath, Goto
    <3> QED
      BY <3>1, <3>2
  <2>5. CASE ListFails(t)
    BY <2>5 DEF ListFails, Fail, Opened, Goto, FileFor
  <2>6. CASE FindEntry(t)
    BY <2>6 DEF FindEntry, List, Succeed, Directory, Opened, Goto, EntryFor, FileFor
  <2>7. CASE ConstructFails(t)
    BY <2>7 DEF ConstructFails, List, Fail, Directory, Opened, Goto, EntryFor, FileFor
  <2>8. CASE Construct(t)
    BY <2>8 DEF Construct, List, Succeed, Directory, Opened, Goto, EntryFor, FileFor
  <2>9. CASE LoadNothing(t)
    BY <2>9 DEF LoadNothing, Release, Goto
  <2>10. CASE Load(t)
    BY <2>10 DEF Load, Release, Succeed, Goto
  <2>11. CASE LoadThrows(t)
    BY <2>11 DEF LoadThrows, Release, Fail, Goto
  <2>12. CASE Launch(t)
    BY <2>12 DEF Launch, Goto
  <2> QED
    BY <1>3, <2>1, <2>2, <2>3, <2>4, <2>5, <2>6, <2>7, <2>8, <2>9, <2>10, <2>11, <2>12 DEF Run
<1> QED
  BY <1>1, <1>2, <1>3 DEF Next

\* A package is constructed where there is none.
LEMMA StepPackages ==
  ASSUME CacheInv, [Next]_vars
  PROVE  Packages'
<1> USE DEF CacheInv, TypeOK, PC, Packages, thread, kernel, decomp, registry
<1>1. CASE UNCHANGED vars
  BY <1>1 DEF vars
<1>2. ASSUME NEW t \in Threads, NEW k \in Kernels, NEW d \in Devices, Invoke(t, k, d)
      PROVE  Packages'
  BY <1>2 DEF Invoke, Goto
<1>3. ASSUME NEW t \in Threads, Run(t)
      PROVE  Packages'
  <2>1. CASE Peek(t)
    BY <2>1 DEF Peek, Goto, Cached
  <2>2. CASE Lock(t)
    BY <2>2 DEF Lock, Goto, Cached
  <2>3. CASE Decompress(t)
    BY <2>3 DEF Decompress, Goto
  <2>4. CASE FastPath(t)
    BY <2>4 DEF FastPath, Opened, Goto, EntryFor, FileFor
  <2>5. CASE ListFails(t)
    BY <2>5 DEF ListFails, Fail, Opened, Goto, FileFor
  <2>6. CASE FindEntry(t)
    BY <2>6 DEF FindEntry, List, Succeed, Directory, Opened, Goto, EntryFor, FileFor
  <2>7. CASE ConstructFails(t)
    BY <2>7 DEF ConstructFails, List, Fail, Directory, Opened, Goto, EntryFor, FileFor
  <2>8. CASE Construct(t)
    BY <2>8 DEF Construct, List, Succeed, Directory, Opened, Goto, EntryFor, FileFor
  <2>9. CASE LoadNothing(t)
    BY <2>9 DEF LoadNothing, Release, Goto
  <2>10. CASE Load(t)
    BY <2>10 DEF Load, Release, Succeed, Goto
  <2>11. CASE LoadThrows(t)
    BY <2>11 DEF LoadThrows, Release, Fail, Goto
  <2>12. CASE Launch(t)
    BY <2>12 DEF Launch, Goto
  <2> QED
    BY <1>3, <2>1, <2>2, <2>3, <2>4, <2>5, <2>6, <2>7, <2>8, <2>9, <2>10, <2>11, <2>12 DEF Run
<1> QED
  BY <1>1, <1>2, <1>3 DEF Next

\* A directory that is kept is complete.
LEMMA StepDirectories ==
  ASSUME CacheInv, [Next]_vars
  PROVE  Directories'
<1> USE DEF CacheInv, TypeOK, PC, Directories, InFile, thread, kernel, decomp, registry
<1>1. CASE UNCHANGED vars
  BY <1>1 DEF vars
<1>2. ASSUME NEW t \in Threads, NEW k \in Kernels, NEW d \in Devices, Invoke(t, k, d)
      PROVE  Directories'
  BY <1>2 DEF Invoke, Goto
<1>3. ASSUME NEW t \in Threads, Run(t)
      PROVE  Directories'
  <2>1. CASE Peek(t)
    BY <2>1 DEF Peek, Goto, Cached
  <2>2. CASE Lock(t)
    BY <2>2 DEF Lock, Goto, Cached
  <2>3. CASE Decompress(t)
    BY <2>3 DEF Decompress, Goto
  <2>4. CASE FastPath(t)
    BY <2>4 DEF FastPath, Opened, Goto, EntryFor, FileFor
  <2>5. CASE ListFails(t)
    BY <2>5 DEF ListFails, Fail, Opened, Goto, FileFor
  <2>6. CASE FindEntry(t)
    BY <2>6 DEF FindEntry, List, Succeed, Directory, Opened, Goto, EntryFor, FileFor
  <2>7. CASE ConstructFails(t)
    BY <2>7 DEF ConstructFails, List, Fail, Directory, Opened, Goto, EntryFor, FileFor
  <2>8. CASE Construct(t)
    BY <2>8 DEF Construct, List, Succeed, Directory, Opened, Goto, EntryFor, FileFor
  <2>9. CASE LoadNothing(t)
    BY <2>9 DEF LoadNothing, Release, Goto
  <2>10. CASE Load(t)
    BY <2>10 DEF Load, Release, Succeed, Goto
  <2>11. CASE LoadThrows(t)
    BY <2>11 DEF LoadThrows, Release, Fail, Goto
  <2>12. CASE Launch(t)
    BY <2>12 DEF Launch, Goto
  <2> QED
    BY <1>3, <2>1, <2>2, <2>3, <2>4, <2>5, <2>6, <2>7, <2>8, <2>9, <2>10, <2>11, <2>12 DEF Run
<1> QED
  BY <1>1, <1>2, <1>3 DEF Next

\* A compiled kernel is without image only after a failure.
LEMMA StepMisses ==
  ASSUME CacheInv, [Next]_vars
  PROVE  Misses'
<1> USE DEF CacheInv, TypeOK, PC, Misses, Directories, Settled, InFile, Packages, thread, kernel, decomp, registry
<1>1. CASE UNCHANGED vars
  BY <1>1 DEF vars
<1>2. ASSUME NEW t \in Threads, NEW k \in Kernels, NEW d \in Devices, Invoke(t, k, d)
      PROVE  Misses'
  BY <1>2 DEF Invoke, Goto
<1>3. ASSUME NEW t \in Threads, Run(t)
      PROVE  Misses'
  <2>1. CASE Peek(t)
    BY <2>1 DEF Peek, Goto, Cached
  <2>2. CASE Lock(t)
    BY <2>2 DEF Lock, Goto, Cached
  <2>3. CASE Decompress(t)
    BY <2>3 DEF Decompress, Goto
  <2>4. CASE FastPath(t)
    <3>1. CASE FileFor(t) \in listed
                /\ (EntryFor(t) \notin directory[FileFor(t)] \/ ptr[EntryFor(t)] # 0)
      <4>1. Opened(t, ptr[EntryFor(t)]) /\ fails' = fails
        BY <2>4, <3>1 DEF FastPath
      <4>2. kern[t] \in Compiled => ptr[EntryFor(t)] # 0
        <5>1. directory[FileFor(t)] = InFile(FileFor(t))
          BY <3>1 DEF FileFor, EntryFor
        <5>2. kern[t] \in Compiled => EntryFor(t) \in InFile(FileFor(t))
          BY KernelCacheAssumption DEF FileFor, EntryFor
        <5> QED
          BY <3>1, <5>1, <5>2
      <4>3. ASSUME NEW k \in loaded' \cap Compiled, image'[k] = 0
            PROVE  fails > 0
        <5>1. CASE k = kern[t]
          BY <4>1, <4>2, <4>3, <5>1 DEF Opened
        <5>2. CASE k # kern[t]
          <6>1. k \in loaded /\ image[k] = 0
            BY <4>1, <4>3, <5>2 DEF Opened
          <6> QED
            BY <6>1
        <5> QED
          BY <5>1, <5>2
      <4> QED
        BY <4>1, <4>3
    <3>2. CASE ~ (FileFor(t) \in listed
                /\ (EntryFor(t) \notin directory[FileFor(t)] \/ ptr[EntryFor(t)] # 0))
      BY <2>4, <3>2 DEF FastPath, Goto
    <3> QED
      BY <3>1, <3>2
  <2>5. CASE ListFails(t)
    BY <2>5 DEF ListFails, Fail, Opened, Goto, FileFor
  <2>6. CASE FindEntry(t)
    BY <2>6 DEF FindEntry, List, Succeed, Directory, Opened, Goto, EntryFor, FileFor
  <2>7. CASE ConstructFails(t)
    BY <2>7 DEF ConstructFails, List, Fail, Directory, Opened, Goto, EntryFor, FileFor
  <2>8. CASE Construct(t)
    BY <2>8 DEF Construct, List, Succeed, Directory, Opened, Goto, EntryFor, FileFor
  <2>9. CASE LoadNothing(t)
    BY <2>9 DEF LoadNothing, Release, Goto
  <2>10. CASE Load(t)
    BY <2>10 DEF Load, Release, Succeed, Goto
  <2>11. CASE LoadThrows(t)
    BY <2>11 DEF LoadThrows, Release, Fail, Goto
  <2>12. CASE Launch(t)
    BY <2>12 DEF Launch, Goto
  <2> QED
    BY <1>3, <2>1, <2>2, <2>3, <2>4, <2>5, <2>6, <2>7, <2>8, <2>9, <2>10, <2>11, <2>12 DEF Run
<1> QED
  BY <1>1, <1>2, <1>3 DEF Next

THEOREM CacheInvariant == Spec => []CacheInv
<1>1. Init => CacheInv
  BY DEF Init, CacheInv, TypeOK, PC, Owners, Holding, Settled, Launching, Functions, Images,
         Packages, Directories, Misses
<1>2. CacheInv /\ [Next]_vars => CacheInv'
  BY StepTypes, StepOwners, StepSettled, StepLaunching, StepFunctions, StepImages,
     StepPackages, StepDirectories, StepMisses DEF CacheInv
<1> QED
  BY <1>1, <1>2, PTL DEF Spec

\* The types, for any instance.
THEOREM TypeCorrect == Spec => []TypeOK
<1>1. CacheInv => TypeOK
  BY DEF CacheInv
<1> QED
  BY <1>1, CacheInvariant, PTL

\* A module is loaded once per kernel and device, and again only for a call
\* that failed (get_kernel's second look under the unique lock).
THEOREM ModulesLoadedOnce == Spec => []LoadedOnce
<1>1. CacheInv => LoadedOnce
  BY DEF CacheInv, TypeOK, LoadedOnce, Functions
<1> QED
  BY <1>1, CacheInvariant, PTL

\* A package is constructed once (PackedKernel::open's second look).
THEOREM PackagesBuiltOnce == Spec => []BuiltOnce
<1>1. CacheInv => BuiltOnce
  BY DEF CacheInv, BuiltOnce, Packages
<1> QED
  BY <1>1, CacheInvariant, PTL

\* Who launches a function holds the one of the cache, of an image in the
\* package the registry keeps alive (get_kernel, invoke).
THEOREM FunctionsBacked == Spec => []FunctionBacked
<1>1. CacheInv => FunctionBacked
  BY DEF CacheInv, TypeOK, FunctionBacked, Launching, Functions, Images
<1> QED
  BY <1>1, CacheInvariant, PTL

\* A compiled kernel is missing only after a failure: neither of the two
\* double checks loses a race (get_kernel, open).
THEOREM NoKernelMissed == Spec => []NoSpuriousMiss
<1>1. CacheInv => NoSpuriousMiss
  BY DEF CacheInv, TypeOK, NoSpuriousMiss, Launching, Settled, Misses
<1> QED
  BY <1>1, CacheInvariant, PTL

\* No thread that launches kernel k sees its image change.
Quiet ==
  \A k \in Kernels : image'[k] # image[k] =>
    \A t \in Threads : ~(pc[t] = "launch" /\ kern[t] = k)

\* The image of a kernel changes only before the kernel is settled.
LEMMA StepQuiet ==
  ASSUME CacheInv, [Next]_vars
  PROVE  Quiet
<1> USE DEF CacheInv, TypeOK, PC, Settled, Quiet, thread, kernel, decomp, registry
<1>1. CASE UNCHANGED vars
  BY <1>1 DEF vars
<1>2. ASSUME NEW t \in Threads, NEW k \in Kernels, NEW d \in Devices, Invoke(t, k, d)
      PROVE  Quiet
  BY <1>2 DEF Invoke, Goto
<1>3. ASSUME NEW t \in Threads, Run(t)
      PROVE  Quiet
  <2>1. CASE Peek(t)
    BY <2>1 DEF Peek, Goto, Cached
  <2>2. CASE Lock(t)
    BY <2>2 DEF Lock, Goto, Cached
  <2>3. CASE Decompress(t)
    BY <2>3 DEF Decompress, Goto
  <2>4. CASE FastPath(t)
    BY <2>4 DEF FastPath, Opened, Goto, EntryFor, FileFor
  <2>5. CASE ListFails(t)
    BY <2>5 DEF ListFails, Fail, Opened, Goto, FileFor
  <2>6. CASE FindEntry(t)
    BY <2>6 DEF FindEntry, List, Succeed, Directory, Opened, Goto, EntryFor, FileFor
  <2>7. CASE ConstructFails(t)
    BY <2>7 DEF ConstructFails, List, Fail, Directory, Opened, Goto, EntryFor, FileFor
  <2>8. CASE Construct(t)
    BY <2>8 DEF Construct, List, Succeed, Directory, Opened, Goto, EntryFor, FileFor
  <2>9. CASE LoadNothing(t)
    BY <2>9 DEF LoadNothing, Release, Goto
  <2>10. CASE Load(t)
    BY <2>10 DEF Load, Release, Succeed, Goto
  <2>11. CASE LoadThrows(t)
    BY <2>11 DEF LoadThrows, Release, Fail, Goto
  <2>12. CASE Launch(t)
    BY <2>12 DEF Launch, Goto
  <2> QED
    BY <1>3, <2>1, <2>2, <2>3, <2>4, <2>5, <2>6, <2>7, <2>8, <2>9, <2>10, <2>11, <2>12 DEF Run
<1> QED
  BY <1>1, <1>2, <1>3 DEF Next

\* essentials_ is not written while a thread reads it without a lock
\* (decompress_kernel, invoke).
THEOREM EssentialsStayQuiet == Spec => EssentialsQuiet
<1>1. CacheInv /\ [Next]_vars => [Quiet]_vars
  BY StepQuiet
<1> QED
  BY <1>1, CacheInvariant, PTL DEF Spec, EssentialsQuiet, Quiet
=============================================================================
