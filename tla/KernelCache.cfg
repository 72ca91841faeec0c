SPECIFICATION FairSpec
CONSTANTS
  ka = ka
  kb = kb
  kc = kc
  e1 = e1
  e2 = e2
  f1 = f1
  Threads = {t1, t2}
  Kernels = {ka, kb, kc}
  Devices = {d1, d2}
  Entries = {e1, e2}
  Files = {f1}
  EntryOf <- MCEntryOf
  FileOf <- MCFileOf
  Present = {e1}
  Compiled = {ka}
  None = None
  MaxFails = 2
INVARIANTS LoadedOnce BuiltOnce NoSpuriousMiss
PROPERTIES EssentialsQuiet CallReturns
