\* The same client; only the lifecycle promise of close() is checked.
CONSTANTS
    None = None
    Urls = {"http", "mqtt", "none"}

SPECIFICATION Spec

INVARIANT CloseReleasesConnections
