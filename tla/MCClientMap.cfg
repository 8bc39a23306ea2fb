SPECIFICATION Spec
CONSTANTS
    Hosts = {h1, h2}
    Calls = {k1, k2}
    MaxConnsPerHost = 1
    MaxHostClients = 3
    MaxRedirects = 1
    None = None
PROPERTY UnusedForgotten
