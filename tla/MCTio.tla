------------------------------- MODULE MCTio --------------------------------
(***************************************************************************)
(* The messages pushed to tio_handler: commands of several aliases and     *)
(* actions, whole, with a value among them that is not an object, with one *)
(* that cannot be read after others that can, and no command at all.       *)
(***************************************************************************)
EXTENDS TioHandler

Act(n)  == [kind |-> "object", name |-> n]
Other   == [kind |-> "other", name |-> "none"]
Bad     == [kind |-> "bad", name |-> "none"]
AliasOf(actions) == [kind |-> "object", actions |-> actions]
NoAlias == [kind |-> "bad", actions |-> << >>]

Command(aliases) == [valid |-> TRUE, aliases |-> aliases]

Whole    == Command(<<AliasOf(<<Act("a1")>>), AliasOf(<<Act("a2"), Act("a1")>>)>>)
Mixed    == Command(<<AliasOf(<<Act("a1"), Other, Act("a2")>>), AliasOf(<< >>),
                      AliasOf(<<Act("a3")>>)>>)
BadLater == Command(<<AliasOf(<<Act("a1"), Bad>>)>>)
BadAlias == Command(<<AliasOf(<<Act("a1")>>), NoAlias>>)
Message  == [valid |-> FALSE, aliases |-> << >>]

Pushed == {Whole, Mixed, BadLater, BadAlias, Command(<< >>), Message}
NoApis == {}
=============================================================================
