------------------------------- MODULE MCBot -------------------------------
EXTENDS Bot

\* Every option, the fallback at the import and later, and no library at all.
environment(installed, engine, missing) ==
  [installed |-> installed, engine |-> engine, missing |-> missing]
MCEnvironments ==
  {environment(Libraries, "any", {}), environment(Libraries, "xmpppy", {}),
   environment({"sleekxmpp"}, "any", {"muc"}), environment(Libraries, "sleekxmpp", {}),
   environment({}, "any", {}), environment(Libraries, "other", {})}
MCClasses == <<"std", "muc">>
MCRequirable == {"muc", "iq"}

\* ann@host/x, the bot bot@host, and a room with the occupant joe.
MCAnn == <<"ann", "@", "host", "/", "x">>
MCBotJid == <<"bot", "@", "host">>
MCRoom == <<"room", "@", "host", "/", "joe">>

MCStanzas == {[from |-> MCAnn, type |-> "chat", empty |-> FALSE],
              [from |-> MCRoom, type |-> "groupchat", empty |-> FALSE],
              [from |-> MCRoom, type |-> "groupchat", empty |-> TRUE],
              [from |-> MCBotJid, type |-> "available", empty |-> FALSE]}
MCAddresses == {MCRoom, <<"host">>}
MCWords == {<<"a">>, <<"x", "@", "y">>}
MCBares == {<<"ann", "@", "far">>, <<"far">>}
=============================================================================
