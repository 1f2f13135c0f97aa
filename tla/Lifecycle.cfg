\* A client given a socket.io URL, an MQTT URL or none, and a server given
\* any combination of a port, an external http server and a broker (or
\* nothing, hence the default port 3000), with the client's URL reaching
\* one of its transports.  Either side may close at any point; the
\* connections keep dropping and reconnecting, so the system never stops.
CONSTANTS
    None = None
    Urls = {"http", "mqtt", "none"}
    Options = {"port", "external", "broker"}

SPECIFICATION Spec

INVARIANT TypeOK
PROPERTY InitCompletes
PROPERTY ServerCloseStopsClients
