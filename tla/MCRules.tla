------------------------------ MODULE MCRules ------------------------------
(* The pure rules, each kind of input in its turn. *)
EXTENDS RuleCases

Document == Pick("document", Documents)
Egress ==
  \/ Pick("policies", PolicyLists)
  \/ Pick("body", Bodies)
  \/ Pick("plugin", {"lxmf", "meshtastic", "mqtt", "signal", "nostr", "bitchat", "new"})
  \/ Pick("attachments", AttachmentLists)
  \/ Pick("frame", Frames)
Console ==
  \/ Pick("operation", router)
  \/ Pick("headers", Headers)
  \/ Pick("setup", Setups)
  \/ Pick("registration", Registrations)
  \/ Pick("ceremony", Ceremonies)
Admin ==
  \/ Pick("daemon", Daemons)
  \/ Pick("ref", NativeRefs)
  \/ Pick("federation", FedTables)
  \/ Pick("advert", Adverts)
  \/ Pick("gauges", GaugeFrames)
  \/ Pick("label", Labels)
  \/ Pick("name", DisplayNames)
Wire ==
  \/ Pick("stream", Streams)
  \/ Pick("inbound", Inbound)
  \/ Pick("splice", Splices)
  \/ Pick("presealed", Presealed)
  \/ Pick("signed", Signed)
Ctl ==
  \/ Pick("command", CommandsGiven)
  \/ Pick("feed", Feeds)
  \/ Pick("plugin_under_test", PluginsUnderTest)
Sdk == Pick("sent_cache", [1..4 -> {Operation(op, key, now) : op \in {"record", "match"}, key \in {"hi", "ho"}, now \in {0, 2, 3}}])

Init == given = Nothing
Next == Document \/ Egress \/ Console \/ Admin \/ Wire \/ Ctl \/ Sdk
Spec == Init /\ [][Next]_given
=============================================================================
