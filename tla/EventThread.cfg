\* Three posters and the waiting thread at one list, two kinds of events, a
\* narrow mask and the full one.
CONSTANTS
  Posters = {p1, p2, p3}
  Waiter = waiter
  Threads <- MCThreads
  link = link
  app = app
  Kinds = {link, app}
  Masks <- MCMasks
  MaxPosts = 3
SPECIFICATION ChainSpec
INVARIANT ChainIsList
PROPERTIES ImplementsQueue ImplementsLock CallReturns
