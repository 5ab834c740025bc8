--------------------------- MODULE MCObjectCache ---------------------------
\* Two databases, and prefixes of which one begins the other.  The module treats
\* wpredis and sqlite as redis and docket, and other like memcachedServer.
EXTENDS ObjectCache

MCKinds == AllKinds \ {"wpredis", "sqlite", "other"}
MCSwitchedTo == {"none", "redis", "memcached"}
MCPrefixes == {<<>>, <<"a">>, <<"a", "b">>}
============================================================================
