SPECIFICATION Spec
CONSTANTS
    None = None
    a = a
    b = b
    c = c
    q = q
    one = one
    two = two
    text = text
    green = green
    red = red
    graph = graph
    loose = loose
    dataflow = dataflow
    chain = chain
    variant = variant
    adso = adso
    dtp = dtp
    composite = composite
    query = query
    noQuery = noQuery
    nameless = nameless
    list = list
    detail = detail
    late = late
    found = found
    hits = hits
    above = above
    refs = refs
    other = other
    source = source
    system = system
    Names = {a, b, c, q, one, two, text, green, red}
    PayloadIds = {graph, loose, dataflow, chain, variant, adso, dtp, composite, query, noQuery, nameless, list, detail, late, found, hits, above, refs, other, source, system}
    UnmappedTypes = {"PROCESS", "LOADING"}
    Manifests <- MCDistinctManifests
INVARIANTS EdgesJoinObjects NoEdgeIsLost CatalogIsWhatWasTold FreshnessIsKept
CHECK_DEADLOCK FALSE
