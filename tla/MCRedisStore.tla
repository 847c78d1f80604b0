---------------------------- MODULE MCRedisStore ----------------------------
EXTENDS RedisStore
TwoNodes == {1, 2}
OneSaver == {2}
NoneOrOne == {0, 1}
=============================================================================
