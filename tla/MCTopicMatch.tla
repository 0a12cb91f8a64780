---------------------------- MODULE MCTopicMatch ----------------------------
EXTENDS TopicMatch

MCNameLevels   == {<<>>, <<"a">>, <<"b">>, <<"a", "b">>}
MCFilterLevels == MCNameLevels \union {<<"+">>}
=============================================================================
