\* Two command-line processes and the daemon over two accounts.
SPECIFICATION FairSpec
CONSTANTS
  p1 = p1  p2 = p2
  Procs = {p1, p2}
  Aliases = {"work", "home"}
  Plans <- Plenty
INVARIANTS EditsStayValid AddedIsServed ServesPrivate PurgeForgets StartsAgain
PROPERTY CommandsEnd
CHECK_DEADLOCK FALSE
