------------------------------- MODULE MCHost -------------------------------
EXTENDS Host

\* Apple's file, one pfctl can only load with the anchor after "dummynet", and
\* one without translation rules.
StockFiles == {<<"translation", "filter", "other", "blank">>,
               <<"dummynet", "filter">>, <<"other", "filter", "blank">>}

ServerLists == {<<"corp", "public">>, <<"home", "lo2">>}
=============================================================================
