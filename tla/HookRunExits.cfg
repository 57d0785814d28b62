\* Two concurrent PreToolUse processes that may be killed, signalled, refused
\* or panic at any point; the hook entry may have been removed. One of them may
\* stop for good anywhere, the lock in its hands included.
CONSTANTS
  c1 = c1
  c2 = c2
  Calls = {c1, c2}
  Ran = {}
  NoCall = NoCall
  Faults = {"kill", "signal", "panic", "refuse"}
  Resolved = {"none", "hook_entry_absent"}
  Stalled <- OneStalled
SPECIFICATION FairSpec
INVARIANTS
  TypeOK
  EveryDeclarationIsClosed
PROPERTIES
  HookReturns
