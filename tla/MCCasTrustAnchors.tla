------------------------- MODULE MCCasTrustAnchors -------------------------
(***************************************************************************)
(* Two files and four certificates, one padded and one that cannot be      *)
(* adapted; a file may be canonical, commented, bare, a bundle, lack a     *)
(* label, have its first end label before the first begin label, with a    *)
(* certificate between them or before both, or be cut.                     *)
(***************************************************************************)
EXTENDS CasTrustAnchors

CONSTANTS c1, c2, c3, c4

MCCerts == {c1, c2, c3, c4}
MCAdaptable == {c1, c2, c3}
MCPadded == {c3}
MCPaths == <<"ca1", "ca2">>

Block(c) == <<"BEGIN", c, "END">>
MCTexts ==
    {Block(c) : c \in MCCerts}
    \cup {<<"text">> \o Block(c) \o <<"text">> : c \in {c1, c3}}
    \cup {Block(c) \o Block(d) : c \in {c1, c3}, d \in {c2}}
    \cup {<<"BEGIN">>, <<c1>>, <<c3, "text">>, <<"text">>, <<>>,
          <<"BEGIN", c1>>, <<"BEGIN", c3, "text">>, <<"BEGIN", "text", "END">>,
          <<c1, "END">>, <<c1, "END">> \o Block(c2), <<c3, "END">> \o Block(c2),
          <<"END", c1>> \o Block(c2),
          <<"BEGIN", c1>> \o Block(c2), <<"BEGIN", c3>> \o Block(c2)}

=============================================================================
