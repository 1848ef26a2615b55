------------------------------- MODULE Documents -------------------------------
(* What links and documents are resolved from: the grammar of links, and the documents that
   a few microblocks and digests allow. *)
EXTENDS Resolutions

-----------------------------------------------------------------------------
(* The grammar of links: what the paths of references to virtual blockchains, microblocks
   and sections are, and what each means. *)

RootTags == {Word("vb"), Word("al")}
Numbers == {<<"number", n>> : n \in 0 .. 2}
Parts == {MbTag, SectionTag, HeightTag, NameTag, Empty, Word("c1"), Word("h1"), Word("note")} \cup Numbers

VbForms == {[path |-> <<tag, id>>, means |-> [id |-> id, type |-> VbTypes[tag[2]]]] :
              tag \in RootTags, id \in Parts}
MbForms ==
    {[path |-> <<MbTag, hash>>, means |-> [hash |-> hash]] : hash \in Parts}
    \cup {[path |-> vb.path \o <<MbTag, hash>>, means |-> [vb |-> vb.means, hash |-> hash]] :
            vb \in VbForms, hash \in Parts \ {HeightTag}}
    \cup {[path |-> vb.path \o <<MbTag, HeightTag, n>>, means |-> [vb |-> vb.means, height |-> n[2]]] :
            vb \in VbForms, n \in Numbers \ {<<"number", 0>>}}
SectionForms ==
    {[path |-> mb.path \o <<SectionTag, n>>, means |-> [mb |-> mb.means, index |-> n[2]]] :
       mb \in MbForms, n \in Numbers}
    \cup {[path |-> mb.path \o <<SectionTag, Empty>>, means |-> [mb |-> mb.means, index |-> 0]] :
            mb \in MbForms}
    \cup {[path |-> mb.path \o <<SectionTag, NameTag, name>>, means |-> [mb |-> mb.means, name |-> name]] :
            mb \in MbForms, name \in Parts}
Forms == {<<form.path, <<"vb", form.means>>>> : form \in VbForms}
         \cup {<<form.path, <<"mb", form.means>>>> : form \in MbForms}
         \cup {<<form.path, <<"section", form.means>>>> : form \in SectionForms}

Meaning == [path \in {form[1] : form \in Forms} |-> (CHOOSE form \in Forms : form[1] = path)[2]]
PartsOfLinks == UNION {{SubSeq(path, 1, n) : n \in 1 .. Len(path)} : path \in DOMAIN Meaning}

-----------------------------------------------------------------------------
(* Documents. A link or digest in one leads to another below it, as records and the data of
   digests were made before what refers to them. *)

Leaf == <<"text", "x">>
Holders == {"root", "m2", "d2", "m1", "d1"}
Inside(holder) == CASE holder = "root" -> {"m2", "d2", "m1", "d1"}
                   [] holder = "m2" -> {"d2", "m1", "d1"}
                   [] holder = "d2" -> {"m1", "d1"}
                   [] holder = "m1" -> {"d1"}
                   [] holder = "d1" -> {}

LinksTo == [m1 |-> {<<Word("al"), Word("c1"), MbTag, HeightTag, <<"number", 1>>>>,
                    <<MbTag, Word("h1"), SectionTag, NameTag, Word("note")>>},
            m2 |-> {<<Word("vb"), Word("c1"), MbTag, Word("h2")>>}]

\* The tags a holder may have and the holder they refer to: itself if to none.
Tags(holder) ==
    UNION {{[tag |-> "__link__", value |-> <<"link", link>>, to |-> m] : link \in LinksTo[m]} :
             m \in Inside(holder) \cap {"m1", "m2"}}
    \cup UNION {{[tag |-> "__digest__", value |-> <<"digest", d>>, to |-> d],
                [tag |-> "__digest_data__", value |-> <<"digests", <<<<d, "own">>>>>>, to |-> d],
                [tag |-> "__digest_data__", value |-> <<"digests", <<<<d, "other">>>>>>, to |-> d]} :
             d \in Inside(holder) \cap {"d1", "d2"}}
    \cup {[tag |-> "__certificate__", value |-> <<"attestation", [subject |-> "k1", signed |-> TRUE]>>,
           to |-> holder]}
    \cup {[tag |-> "__signature__", to |-> holder,
            value |-> <<"signature", [verified |-> verified, payload |-> payload]>>] :
             verified \in IF holder = "m1" THEN BOOLEAN ELSE {},
             payload \in {Leaf, <<"object", <<<<"a", Leaf>>>>>>}}

\* A field of its own, a tag that is inlined, or a tag below a field.
FieldsOf(holder) ==
    {[field |-> <<"a", Leaf>>, to |-> holder]}
    \cup {[field |-> <<tag.tag, tag.value>>, to |-> tag.to] : tag \in Tags(holder)}
    \cup {[field |-> <<"a", <<"array", <<<<"object", <<<<tag.tag, tag.value>>>>>>>>>>>>, to |-> tag.to] :
            tag \in {t \in Tags(holder) : t.tag \in {"__link__", "__digest__", "__certificate__"}}}

\* The data of a digest is written out where it is given, after its salt.
RECURSIVE Filled(_, _), DataOf(_, _)
DataOf(digest, contents) ==
    <<"object", <<<<"__salt__", <<"text", digest>>>>>> \o Filled(<<"object", contents[digest]>>, contents)[2]>>
Filled(json, contents) ==
    CASE json[1] = "array" -> <<"array", [i \in DOMAIN json[2] |-> Filled(json[2][i], contents)]>>
      [] json[1] = "object" ->
           <<"object", [i \in DOMAIN json[2] |-> <<json[2][i][1], Filled(json[2][i][2], contents)>>]>>
      [] json[1] = "digests" ->
           <<"digests", [i \in DOMAIN json[2] |->
              <<json[2][i][1], IF json[2][i][2] = "own" THEN DataOf(json[2][i][1], contents)
                               ELSE <<"object", <<>>>>>>]>>
      [] OTHER -> json

\* One chain of two microblocks, which also have what they record in their last section.
NodeChains(contents) ==
    LET Posted(hash, payer, m) ==
          LET record == Filled(<<"object", contents[m]>>, contents)
          IN [hash |-> hash, payer |-> payer, record |-> record,
              sections |-> <<[type |-> "description", fields |-> <<<<"type", Leaf>>, <<"name", Leaf>>>>],
                             [type |-> "custom", fields |-> <<<<"type", Leaf>>, <<"other", Leaf>>>>],
                             [type |-> "custom", fields |-> <<<<"type", Leaf>>, <<"note", Leaf>>>>
                                                            \o record[2]]>>]
    IN [c1 |-> <<Posted("h1", "k1", "m1"), Posted("h2", "k2", "m2")>>]

NoContents == [holder \in Holders |-> <<>>]

Started(contents, given) ==
    LET data == [digest \in {"d1", "d2"} |-> DataOf(digest, contents)]
    IN NewResolution(NodeChains(contents), data, [digest \in given |-> data[digest]])
Document(contents) == Filled(<<"object", contents["root"]>>, contents)
=============================================================================
