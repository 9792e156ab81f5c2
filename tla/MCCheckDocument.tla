-------------------------- MODULE MCCheckDocument --------------------------
EXTENDS CheckDocument

\* Lines with every kind of content, comment and indentation.
Lines == {
  <<>>, <<"_", "bad">>, <<"ok">>,
  <<"opt">>, <<"_", "dir">>, <<"use", "bad">>,
  <<"fun">>, <<"_", "_", "call">>,
  <<"bad", "_", "#", "bad">>, <<"_", "#", "bad">>,
  <<"'", "###", "'", "bad">>, <<"###">>, <<"bad", "_", "###", "_", "ok">>,
  <<"_", "bad", "###", "_", "'", "###">> }

\* Code behind a closing ###.
LinesBehind == {<<"ok">>, <<"###">>, <<"ok", "_", "###", "_", "bad">>}

\* A block closed and opened again on one line.
LinesReopen == {<<"ok">>, <<"###">>, <<"###", "ok", "###">>, <<"_", "bad">>}

\* A comment at the margin inside an options block.
LinesOptions == {<<"ok">>, <<"opt">>, <<"#", "ok">>, <<"_", "bad">>}

\* Text outside ASCII.
LinesWide == {<<"ok">>, <<"wide">>, <<"_", "bad">>}
=============================================================================
