SPECIFICATION ServerSpec
CONSTANTS
  app = app
  ctx = ctx
  s1 = s1
  s2 = s2
  own = own
  j1 = j1
  bot = bot
  Stanzas <- MCStanzas
  Jids = {j1, bot}
  From <- MCFrom
  Empty = {}
  AppJid = bot
  ServerContext = ctx
  AppContexts = {ctx}
  ImplicitContexts = {}
  RequestContexts <- MCRequestContexts
  AppOf <- MCAppOf
  NoContext = NoContext
  Unset = Unset
  None = None
  Notes <- MCNotes
  Engines = {"xmpppy", "sleekxmpp"}
  Behaviours = {"lazy", "lazy write"}
  Failures = {}
  Responses <- MCResponses
  MaxNotes = 1
  MaxBlocks = 6
  MaxStack = 6
INVARIANT GeneratorWritesKept
CHECK_DEADLOCK FALSE
