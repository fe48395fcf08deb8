------------------------ MODULE MCLeaderboardRelease ------------------------
EXTENDS LeaderboardRelease

\* Three commits of the sources, of which two adjacent ones are compared.
AdjacentPairs == {<<1, 2>>, <<2, 3>>}
=============================================================================
