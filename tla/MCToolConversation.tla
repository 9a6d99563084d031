------------------------- MODULE MCToolConversation -------------------------
(* Two tools whose names can be mistaken for one another in an id.         *)
EXTENDS ToolConversation

get == <<7>>
get_0 == <<7, 0>>

MCNames == {get, get_0}

CallTo(name) == [kind |-> "call", name |-> name]
Thought == [kind |-> "thought"]

\* Text, calls of the same and of different tools, at different places.
MCReplies ==
    {<<Text>>, <<Thought, CallTo(get_0)>>,
     <<CallTo(get), CallTo(get_0)>>, <<CallTo(get), Text, CallTo(get)>>}

=============================================================================
