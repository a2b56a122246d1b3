---------------------------- MODULE MCConfigData ----------------------------
(***************************************************************************)
(* The instance of ConfigData that TLC checks: configurations of up to two *)
(* elements for each list, in two layouts, each complete, ill formed or    *)
(* cut off anywhere.                                                       *)
(***************************************************************************)
EXTENDS ConfigData

CONSTANTS t1, t2   \* the texts of the configuration

MCNames == {"ConfigRoot", "RecordSetting", "Event", "Type", "Feedback", "Attitude",
            "Effect", "Level", "id", "cut off"}

MCTexts == {t1, t2, "cut off"}

Lexeme(kind) == [kind |-> kind, value |-> Blank]

Space == <<Lexeme("space")>>
Remark == <<Lexeme("comment")>>
Declared == <<Lexeme("declaration")>>

Tag(name, attributes, content) ==
    <<[kind |-> "open", value |-> name]>> \o attributes \o <<Lexeme("gt")>>
      \o content \o <<[kind |-> "close", value |-> name]>>

Attributed(name) == Space \o <<[kind |-> "attribute", value |-> name]>>

EmptyElement(name, attributes) ==
    <<[kind |-> "open", value |-> name]>> \o attributes \o <<Lexeme("empty")>>

(* What is left of a lexeme in which the text ends.                        *)
Remains(lexeme) ==
    CASE lexeme.kind = "open"        -> {Lexeme("lt"), [lexeme EXCEPT !.value = "cut off"]}
      [] lexeme.kind = "close"       -> {Lexeme("lt"), Lexeme("closeother")}
      [] lexeme.kind = "text"        -> {[lexeme EXCEPT !.value = "cut off"]}
      [] lexeme.kind = "cdata"       -> {Lexeme("lt"), [kind |-> "cdatacut", value |-> "cut off"]}
      [] lexeme.kind = "comment"     -> {Lexeme("lt"), Lexeme("commentcut")}
      [] lexeme.kind = "declaration" -> {Lexeme("lt"), Lexeme("declarationcut")}
      [] lexeme.kind = "unknown"     -> {Lexeme("lt")}
      [] lexeme.kind = "attribute"   -> {Lexeme("tagcut"), [lexeme EXCEPT !.kind = "attributecut"]}
      [] lexeme.kind = "empty"       -> {Lexeme("tagcut")}
      [] OTHER                       -> {}

Ends(text) ==
    {SubSeq(text, 1, n) : n \in 0 .. Len(text) - 1}
      \cup UNION {{Append(SubSeq(text, 1, n - 1), part) : part \in Remains(text[n])} :
                     n \in DOMAIN text}

-----------------------------------------------------------------------------
(* The layout of Exe/Config/ConfigSetting.xml: a line and sometimes a      *)
(* remark before each element. An element without text has a remark first. *)
Lines(name, elements) ==
    FlattenSeq([i \in DOMAIN elements |->
        Space \o Tag(name, <<>>,
                     IF elements[i] = Blank
                     THEN Remark \o <<[kind |-> "text", value |-> t1]>>
                     ELSE <<[kind |-> "text", value |-> elements[i]]>>)])

AsShipped(e) ==
    Declared \o Space \o Remark \o Space
      \o Tag("ConfigRoot", <<>>, Space \o Remark \o Space
           \o Tag("RecordSetting", <<>>, Space \o Remark
                \o Space \o Tag("Event", <<>>, Space \o Remark \o Lines("Type", e["EventType"]) \o Space)
                \o Space \o Tag("Feedback", <<>>, Lines("Attitude", e["FeedbackAttitude"])
                                                    \o Lines("Type", e["FeedbackType"]) \o Space)
                \o Space \o Tag("Effect", <<>>, Lines("Level", e["EffectLevel"]) \o Space)
                \o Space)
           \o Space)
      \o Space

(* Another layout: no white space but in tags, attributes, CDATA, sections *)
(* in another order and a second one, which is not read. A list without an *)
(* element has no section, and an element without text is an empty one.    *)
Dense(name, elements) ==
    FlattenSeq([i \in DOMAIN elements |->
        IF elements[i] = Blank
        THEN IF i = 1 THEN EmptyElement(name, Attributed("id"))
                      ELSE Tag(name, <<>>, <<[kind |-> "text", value |-> Blank]>>)
        ELSE Tag(name, Attributed("id"), <<[kind |-> "cdata", value |-> elements[i]]>>)])

Section(name, content) == IF content = <<>> THEN <<>> ELSE Tag(name, <<>>, content)

Packed(e) ==
    <<Lexeme("unknown")>>
      \o Tag("ConfigRoot", Attributed("id"),
           Tag("RecordSetting", Attributed("id") \o Attributed("Type"),
                Section("Effect", Dense("Level", e["EffectLevel"]))
                \o Section("Event", Dense("Type", e["EventType"]))
                \o Section("Feedback", Dense("Type", e["FeedbackType"])
                                         \o Dense("Attitude", e["FeedbackAttitude"]))
                \o Section("Event", IF e["EventType"] = <<>> THEN <<>> ELSE Dense("Type", <<t2>>))))

-----------------------------------------------------------------------------
(* Files that are ill formed: an attribute twice, the second one complete  *)
(* or cut, a tag without its end, an end tag of another name, with white   *)
(* space in it or one too many, a text outside of the elements.            *)
Mistaken(text) ==
    LET Places(kind) == {n \in DOMAIN text : text[n].kind = kind}
        stray == [kind |-> "text", value |-> t1]
        close == [kind |-> "close", value |-> "Event"]
    IN  {InsertAt(text, n, text[n]) : n \in Places("attribute")}
          \cup {SubSeq(text, 1, n) \o Space \o <<[text[n] EXCEPT !.kind = "attributecut"]>> :
                   n \in Places("attribute")}
          \cup {RemoveAt(text, n) :
                   n \in {m \in Places("gt") : text[m + 1].kind \notin {"text", "space"}}}
          \cup {ReplaceAt(text, n, [text[n] EXCEPT !.value = "cut off"]) : n \in Places("close")}
          \cup {ReplaceAt(text, n, Lexeme("closeother")) : n \in Places("close")}
          \cup {text \o <<close>> \o Space, <<close>> \o Space, <<stray>> \o text, Space}

Elements(types, attitudes, advice, levels) ==
    [list \in Lists |-> CASE list = "EventType"        -> types
                          [] list = "FeedbackAttitude" -> attitudes
                          [] list = "FeedbackType"     -> advice
                          [] list = "EffectLevel"      -> levels]

MCElements ==
    {Elements(types, <<t1>>, <<t2>>, <<t2, t1>>) :
        types \in {<<>>, <<Blank>>, <<t1, t2>>, <<t1, Blank>>, <<Blank, t1>>}}
      \cup {Elements(<<t1, t1>>, <<>>, <<t2>>, <<t2>>),
            Elements(<<t2>>, <<t1, t2>>, <<>>, <<t2>>),
            Elements(<<t2>>, <<Blank>>, <<t1>>, <<>>)}

FilesOf(text, e) ==
    {[elements |-> e, whole |-> text, text |-> text, sound |-> TRUE]}
      \cup {[elements |-> e, whole |-> text, text |-> part, sound |-> FALSE] :
               part \in Ends(text) \cup Mistaken(text)}

MCFiles == UNION {FilesOf(AsShipped(e), e) \cup FilesOf(Packed(e), e) : e \in MCElements}

(* The bytes after the text: none, white space, other text, a lone "<",    *)
(* and in a tag also an attribute, which may be there already, with the    *)
(* end of the tag, that end alone, that of an empty one.                   *)
MCMemory == {<<>>, Space, <<[kind |-> "text", value |-> "cut off"]>>, <<Lexeme("lt")>>}

MCMemoryInTag ==
    MCMemory \cup {Attributed("id") \o <<Lexeme("gt")>>, <<Lexeme("gt")>>, <<Lexeme("empty")>> \o Space}

(* The files are those that the theorem about them is about.               *)
ASSUME Covered == \A f \in Files : f.sound \/ Spoiled(f)
=============================================================================
