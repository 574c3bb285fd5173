--------------------------- MODULE MCConsumerPager ---------------------------
EXTENDS ConsumerPager

\* "" matches every name; another query some in the middle.
MCQueries == {Names, {2, 3, 5}}
=============================================================================
