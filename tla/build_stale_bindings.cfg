CONSTANTS
    v1 = v1
    v2 = v2
    Versions = {v1, v2}
    Headers <- MCHeaders
    HeadersOf <- MCHeadersOf
    ThirdLibs = {"libcurl.a"}
    Nothing = Nothing
SPECIFICATION Spec
INVARIANTS
    BindingsMatchLibs
