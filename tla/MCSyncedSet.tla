---------------------------- MODULE MCSyncedSet ----------------------------
EXTENDS SyncedSet

MCHead  == <<"index", 0, 0>>

\* A head page that shares its index page with one more disk page, another
\* index page, and a page of data with three disk pages that do not touch.
MCUnits == {MCHead, <<"index", 0, 1>>, <<"index", 1, 0>>,
            <<"pages", 0, 1>>, <<"pages", 0, 3>>, <<"pages", 0, 5>>}

\* An operation changes units of the index, of both, or the page of data alone.
MCChanges ==
  SUBSET {MCHead, <<"index", 0, 1>>, <<"index", 1, 0>>}
  \cup {{<<"index", 1, 0>>, <<"pages", 0, 1>>},
        {<<"pages", 0, 1>>, <<"pages", 0, 3>>, <<"pages", 0, 5>>}}
=============================================================================
