--------------------------- MODULE MCAdapterLoop ---------------------------
\* All fifteen adapters, one in each initial state.
EXTENDS AdapterLoop

MCKinds == {"ae", "glib", "ivykis", "libev", "libevent", "libhv", "libsdevent",
            "libuv", "macosx", "poll", "qt", "redismodule",
            "libev0", "libevent0", "libuv0"}
============================================================================
