------------------------------ MODULE MCParts ------------------------------
(* Parts of Brisa that share no state, side by side: the first state says     *)
(* which of them a behaviour is about, and the others stay as they are.  So    *)
(* one run explores the sum of their state spaces, never the product.          *)
EXTENDS SessionPool, Control, WebContent, Description, Config, Multicast, MessageBodies,
        HttpHeader, VariableValues, DeviceDocument, ServiceDocument, SoapMessage, SoapArray,
        ExampleControlPoints, NetworkAddress, MCHttpSession

VARIABLE part

vars == <<part, poolVars, controlVars, contentVars, descriptionVars, configVars,
          multicastVariables, bodyVars, headerVars, valueVars, documentVars,
          scpdVars, messageVars, arrayVars, examplesVars, networkVars, httpVars>>

CONSTANTS s1, s2, s3, null

\* The services s1 and s2 keep to the paths the device registers them at, s3 does not.
Urls(id, directory) ==
  [id |-> id, control |-> <<directory, "control">>, event |-> <<directory, "event">>,
   scpd |-> <<directory, "scpd.xml">>]
MCUrlsOf == (s1 :> Urls("s1", "s1")) @@ (s2 :> Urls("s2", "s2")) @@ (s3 :> [Urls("", "upnp") EXCEPT !.control = <<"upnp", "tvset">>])

MCWithoutBlanks == ("tv set" :> "tvset") @@ ("tvset" :> "tvset") @@ ("tv" :> "tv")
MCNameLength == ("tv set" :> 2) @@ ("tvset" :> 2) @@ ("tv" :> 1)

MCFirstIndices == {-2, -1, 0, 1, 3}

MCLowered == ("Get" :> "get") @@ ("Set" :> "set")
MCInNames == ("Get" :> {"x"}) @@ ("Set" :> {})
MCOutNames == ("Get" :> {"y"}) @@ ("Set" :> {})
MCSection == {<<"a">>, <<"a", "b">>}
MCParameter == {<<"c">>}
MCResults == {null, "y" :> "v", "y" :> "markup", "w" :> "v"}

MCMcVarSeq == <<"a", "b">>
MCDefault == ("a" :> "v") @@ ("b" :> "v")
MCReadAs == ("v" :> {"v"}) @@ ("x:ey" :> {"xy"}) @@ ("u<" :> {"", "v"}) @@ ("umlaut" :> {"umlaut"})
MCOthers ==
  {Malformed(f, "other") : f \in {"noEnd", "noBody", "badLength", "noDocument"}}
    \cup {Datagram("other", 0, "a", v) : v \in {"x:ey", "umlaut"}}

MCTrimmed == (" w" :> "w") @@ ("w" :> "w") @@ ("" :> "")
MCPath == {<<>>, << <<"*">> >>, << <<"a">>, <<"b">> >>}
MCReason == {<<>>, << <<"OK">> >>, << <<"Not">>, <<"Found">> >>, << <<"%1">> >>}
MCVersion == {<<1, 1>>, <<1, 10>>, <<10, 1>>}
MCPlaceMarker == <<"%1">>

MCNumberIn == ("" :> 99) @@ ("-1" :> -1) @@ ("2" :> 2) @@ ("abc" :> 99)

\* Documents that leave out icons and the manufacturer, which an embedded device has;
\* and one that is read no further than its version.
MCForeignDocuments ==
  LET inner == Document("root", [a \in {"friendlyName", "manufacturer"} |-> "inner"], << <<"u", "w">> >>, <<>>)
      nameless == Document("root", "UDN" :> "nameless", <<>>, <<>>)
  IN {Document("root", "friendlyName" :> "outer", <<>>, <<nameless, inner>>),
      Document("noVersion", "friendlyName" :> "outer", <<>>, <<inner>>)}

\* Two descriptions, the first with an action described twice and one without a name,
\* the second with a comment in it; and a page that is none.
MCScpd ==
  LET x == ArgumentElement("x", "in", "v")
      y == ArgumentElement("y", "out", "w")
  IN {[root |-> "scpd",
       sections |->
         <<ScpdSection("specVersion", <<>>),
           ScpdSection("actionList", <<ActionElement("Get", <<y>>), ActionElement("Get", <<x>>), ActionElement("", <<x>>)>>),
           ScpdSection("serviceStateTable", <<VariableElement("v", "none"), VariableElement("w", "half")>>)>>],
      [root |-> "scpd",
       sections |->
         <<ScpdSection("serviceStateTable", <<VariableElement("w", "whole")>>), ScpdSection("comment", <<>>),
           ScpdSection("actionList", <<ActionElement("Set", <<x>>)>>)>>],
      [root |-> "html", sections |-> <<ScpdSection("actionList", <<ActionElement("Set", <<x>>)>>)>>]}
MCArgumentAdded == {ArgumentElement("x", "in", "v")}

MCSoapText == STRING
MCArgument == {Simple("n", "Int", "1"), Simple("n", "HexBinary", "v"), Simple("x", "Other", "v")}
MCHeaderItem == {Simple("h", "Other", ""), Simple("x", "String", "v")}
MCFaultDetail == {Simple("o", "Int", "1")}
MCForeignMessage ==
  LET Envelope(children) == Element("Envelope", "none", "", children)
      Body(children) == Element("Body", "none", "", children)
  IN {Comment, Envelope(<<Body(<<>>)>>), Envelope(<<>>), Element("Page", "none", "", <<>>),
      Envelope(<<Element("Header", "none", "", <<Element("x", "none", "v", <<>>)>>),
                 Body(<<Comment, Element("n", "Int", "v", <<>>)>>)>>),
      Envelope(<<Body(<<Element("n", "none", "", <<Element("n", "Int", "v", <<>>)>>)>>)>>),
      Envelope(<<Body(<<Element("Fault", "none", "", <<Element("Faultcode", "Int", "1", <<>>)>>)>>)>>)}

ItemOf(type, value) == [type |-> type, value |-> value]
ItemNode(at, item) == [node |-> "item", at |-> at, item |-> item]
MCItem == {ItemOf("Int", "x"), ItemOf("Int", "y"), ItemOf("Array", "full")}
MCShape == {<<2>>, <<3, 2>>, <<1, 2, 2>>, <<1, 2, 1, 2>>, <<1, 2, 1, 1, 2>>, <<1, 1, 1, 2, 2>>}
MCStray == {<<0, 2>>, <<3, 0>>, <<0, 1, 2>>, <<0, 0, 1, 0>>, <<0, 0, 1, 0, 0>>}
MCArrayDocument ==
  {<<ItemNode(<<>>, ItemOf("Int", "x")), [node |-> "comment"], ItemNode(<<>>, ItemOf("Int", "y"))>>,
   <<ItemNode(<<1>>, ItemOf("Int", "x")), ItemNode(<<>>, ItemOf("Int", "y")), [node |-> "text"]>>,
   <<ItemNode(<<0, 1>>, ItemOf("Int", "x")), ItemNode(<<1, 0>>, ItemOf("Int", "y"))>>}

MCTypesOf == ("u1" :> <<"tvOps">>) @@ ("u2" :> <<"other">>) @@ ("u3" :> <<"tvOps">>)
MCActionsOf == ("tvOps" :> {"SetChanel"}) @@ ("other" :> {"OffOn"})
MCArgumentsOf == ("SetChanel" :> {"NewChanel"}) @@ ("OffOn" :> {})

\* The network has two interfaces beside the loopback, or the second only, or none.
MCInterfaces ==
  LET Interface(on, entries) == [up |-> TRUE, running |-> on, entries |-> entries]
      AddressEntry(version, address) == [version |-> version, address |-> address]
      lo == Interface(TRUE, <<AddressEntry(4, "127.0.0.1")>>)
      eth(on) == Interface(on, <<AddressEntry(6, "fe80"), AddressEntry(4, "ip1"), AddressEntry(4, "ip2")>>)
      wlan == Interface(TRUE, <<AddressEntry(4, "ip3")>>)
  IN {<<lo, eth(TRUE), wlan>>, <<lo, eth(FALSE), wlan>>, <<lo>>}
MCLoopbackOnly == CHOOSE now \in MCInterfaces : Len(now) = 1
MCRand == (0 :> <<0, 7, 3>>) @@ (1 :> <<6, 1, 0>>)

PartsInit ==
  /\ part \in {"pool", "control", "content", "description", "config", "multicast", "bodies",
               "header", "values", "document", "scpd", "message", "array", "gui", "tv",
               "network", "session"}
  /\ PoolInit /\ ControlInit /\ ContentInit /\ DescriptionInit /\ ConfigInit
  /\ MulticastInit /\ BodiesInit /\ HeaderInit /\ ValuesInit /\ DocumentInit
  /\ ScpdInit /\ MessageInit /\ ArrayInit /\ ExamplesInit /\ NetworkInit /\ SessionInit
  /\ part # "pool" => firstIndex = 0
  /\ part # "content" => ~useChunked
  /\ part # "description" => tree.name = "tv"
  /\ part # "array" => array = NewArray(<<2>>, "Other")
  /\ part # "gui" => ~firstCloseable
  /\ part # "network" => clock = 0 /\ interfaces = MCLoopbackOnly
  /\ part # "values" => cell.sendEvents /\ cell.dataType = "ui4"

\* The steps of a part.
InPool ==
  /\ part = "pool"
  /\ UNCHANGED <<part, controlVars, contentVars, descriptionVars, configVars, multicastVariables, bodyVars,
                 headerVars, valueVars, documentVars, scpdVars, messageVars, arrayVars, examplesVars, networkVars,
                 httpVars>>
InControl ==
  /\ part = "control"
  /\ UNCHANGED <<part, poolVars, contentVars, descriptionVars, configVars, multicastVariables, bodyVars,
                 headerVars, valueVars, documentVars, scpdVars, messageVars, arrayVars, examplesVars, networkVars,
                 httpVars>>
InContent ==
  /\ part = "content"
  /\ UNCHANGED <<part, poolVars, controlVars, descriptionVars, configVars, multicastVariables, bodyVars,
                 headerVars, valueVars, documentVars, scpdVars, messageVars, arrayVars, examplesVars, networkVars,
                 httpVars>>
InDescription ==
  /\ part = "description"
  /\ UNCHANGED <<part, poolVars, controlVars, contentVars, configVars, multicastVariables, bodyVars,
                 headerVars, valueVars, documentVars, scpdVars, messageVars, arrayVars, examplesVars, networkVars,
                 httpVars>>
\* Bound: nothing is claimed of the configuration once it is not careful, and it goes no
\* further.
InConfig ==
  /\ part = "config" /\ careful
  /\ UNCHANGED <<part, poolVars, controlVars, contentVars, descriptionVars, multicastVariables, bodyVars,
                 headerVars, valueVars, documentVars, scpdVars, messageVars, arrayVars, examplesVars, networkVars,
                 httpVars>>
InMulticast ==
  /\ part = "multicast"
  /\ UNCHANGED <<part, poolVars, controlVars, contentVars, descriptionVars, configVars, bodyVars,
                 headerVars, valueVars, documentVars, scpdVars, messageVars, arrayVars, examplesVars, networkVars,
                 httpVars>>
InBodies ==
  /\ part = "bodies"
  /\ UNCHANGED <<part, poolVars, controlVars, contentVars, descriptionVars, configVars, multicastVariables,
                 headerVars, valueVars, documentVars, scpdVars, messageVars, arrayVars, examplesVars, networkVars,
                 httpVars>>
InHeader ==
  /\ part = "header"
  /\ UNCHANGED <<part, poolVars, controlVars, contentVars, descriptionVars, configVars, multicastVariables,
                 bodyVars, valueVars, documentVars, scpdVars, messageVars, arrayVars, examplesVars, networkVars,
                 httpVars>>
InValues ==
  /\ part = "values"
  /\ UNCHANGED <<part, poolVars, controlVars, contentVars, descriptionVars, configVars, multicastVariables,
                 bodyVars, headerVars, documentVars, scpdVars, messageVars, arrayVars, examplesVars, networkVars,
                 httpVars>>
InDocument ==
  /\ part = "document"
  /\ UNCHANGED <<part, poolVars, controlVars, contentVars, descriptionVars, configVars, multicastVariables,
                 bodyVars, headerVars, valueVars, scpdVars, messageVars, arrayVars, examplesVars, networkVars,
                 httpVars>>
InScpd ==
  /\ part = "scpd"
  /\ UNCHANGED <<part, poolVars, controlVars, contentVars, descriptionVars, configVars, multicastVariables,
                 bodyVars, headerVars, valueVars, documentVars, messageVars, arrayVars, examplesVars, networkVars,
                 httpVars>>
InMessage ==
  /\ part = "message"
  /\ UNCHANGED <<part, poolVars, controlVars, contentVars, descriptionVars, configVars, multicastVariables,
                 bodyVars, headerVars, valueVars, documentVars, scpdVars, arrayVars, examplesVars, networkVars,
                 httpVars>>
InArray ==
  /\ part = "array"
  /\ UNCHANGED <<part, poolVars, controlVars, contentVars, descriptionVars, configVars, multicastVariables,
                 bodyVars, headerVars, valueVars, documentVars, scpdVars, messageVars, examplesVars, networkVars,
                 httpVars>>
InGui ==
  /\ part = "gui"
  /\ UNCHANGED <<part, poolVars, controlVars, contentVars, descriptionVars, configVars, multicastVariables, bodyVars,
                 headerVars, valueVars, documentVars, scpdVars, messageVars, arrayVars, networkVars,
                 httpVars>>
InTv ==
  /\ part = "tv"
  /\ UNCHANGED <<part, poolVars, controlVars, contentVars, descriptionVars, configVars, multicastVariables, bodyVars,
                 headerVars, valueVars, documentVars, scpdVars, messageVars, arrayVars, networkVars,
                 httpVars>>
InNetwork ==
  /\ part = "network"
  /\ UNCHANGED <<part, poolVars, controlVars, contentVars, descriptionVars, configVars, multicastVariables, bodyVars,
                 headerVars, valueVars, documentVars, scpdVars, messageVars, arrayVars, examplesVars,
                 httpVars>>
InSession ==
  /\ part = "session"
  /\ UNCHANGED <<part, poolVars, controlVars, contentVars, descriptionVars, configVars, multicastVariables, bodyVars,
                 headerVars, valueVars, documentVars, scpdVars, messageVars, arrayVars, examplesVars, networkVars>>

PartsNext ==
  \/ InPool /\ PoolNext
  \/ InControl /\ ControlNext
  \/ InContent /\ ContentNext
  \/ InDescription /\ DescriptionNext
  \/ InConfig /\ ConfigNext
  \/ InMulticast /\ MulticastNext
  \/ InBodies /\ BodiesNext
  \/ InHeader /\ HeaderNext
  \/ InValues /\ ValuesNext
  \/ InDocument /\ DocumentNext
  \/ InScpd /\ ScpdNext
  \/ InMessage /\ MessageNext
  \/ InArray /\ ArrayNext
  \/ InGui /\ GuiNext
  \/ InTv /\ TvNext
  \/ InNetwork /\ NetworkNext
  \/ InSession /\ SessionNext

\* The loop that writes a body goes on, and so does the one that parses a request; what was
\* sent on a connection arrives.  A call is handled or lost in the end, and the event loop
\* of the control point runs.
PartsSpec ==
  /\ PartsInit /\ [][PartsNext]_vars
  /\ WF_contentVars(part = "content" /\ Writes)
  /\ WF_httpVars(part = "session" /\ (Handler \/ \E n \in 1..Len(wire) : ReadyRead(n)))
  /\ \A c \in Call \ Foreign : WF_controlVars(part = "control" /\ (DeviceHandles(c) \/ Lost(c) \/ ReadResponse(c)))

\* Every part has its types.
PartsTypeOK ==
  /\ PoolTypeOK /\ ControlTypeOK /\ ContentTypeOK /\ DescriptionTypeOK /\ ConfigTypeOK
  /\ MulticastTypeOK /\ BodiesTypeOK /\ HeaderTypeOK /\ ValuesTypeOK /\ DocumentTypeOK
  /\ ScpdTypeOK /\ MessageTypeOK /\ ArrayTypeOK
  /\ ExamplesTypeOK /\ NetworkTypeOK /\ SessionTypeOK
=============================================================================
